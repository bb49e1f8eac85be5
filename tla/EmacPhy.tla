------------------------------- MODULE EmacPhy -------------------------------
(***************************************************************************)
(* EMAC bring-up and PHY link handling (src/Lib_MCU/src/lpc17xx_emac.c):   *)
(* EMAC_Init, EMAC_DeInit, EMAC_SetPHYMode, EMAC_UpdatePHYStatus,          *)
(* EMAC_CheckPHYStatus, read_PHY and write_PHY, against a PHY whose reset, *)
(* link and management interface behave on their own.                     *)
(*                                                                         *)
(* The driver is one foreground thread.  Its control position is drv, a   *)
(* label per step of the code that reads the PHY; register setup that     *)
(* involves no PHY access is folded into the step it belongs to.  A poll  *)
(* loop is one step per iteration, with its counter tout.                  *)
(*                                                                         *)
(* PHY behaviour (IEEE 802.3 clause 22, not code of this repository): the  *)
(* BMCR reset bit reads 1 until the reset completes; BMSR bit 2 is the     *)
(* link status and BMSR bits 15..11 the PHY's fixed abilities; the         *)
(* operating mode (the negotiated or forced speed and duplex) is not in    *)
(* BMSR.  A management transaction that stays busy makes read_PHY return   *)
(* -1, whose bits all read as set.                                         *)
(***************************************************************************)
EXTENDS Naturals

CONSTANTS
  PhyIds,         \* identities the board's PHY may report
  KnownPhys,      \* EMAC_DP83848C_ID and EMAC_LAN8720_ID
  PhyAbilities,   \* operating modes in the BMSR ability bits
  PartnerModes,   \* modes autonegotiation may settle on
  UserModes,      \* ulPHYMode arguments, valid or not
  ResetTout,      \* bound of EMAC_Init's PHY-reset poll (500 in the code)
  LinkTout,       \* bound of EMAC_UpdatePHYStatus's link poll (10)
  MaxLinkEvents,  \* bound: link changes in one behaviour
  MiiCanFail      \* whether a management transaction may time out

OperModes == {"10H", "10F", "100H", "100F"}
PhyModes == {"AUTO"} \cup OperModes            \* EMAC_MODE_*
IsFull(m) == m \in {"10F", "100F"}
Is100(m) == m \in {"100H", "100F"}

ASSUME KnownPhys \subseteq PhyIds /\ PhyAbilities \subseteq OperModes
ASSUME PartnerModes \subseteq OperModes /\ PartnerModes # {}

VARIABLES
  (* MAC and system registers *)
  power,         \* PCONP Ethernet bit
  MAC2_FULL_DUP, \* MAC2 full-duplex bit
  CR_FULL_DUP,   \* Command full-duplex bit
  IPGT_FULL,     \* IPGT holds EMAC_IPGT_FULL_DUP (else the half value)
  SUPP_SPEED,    \* SUPP 100 Mbit bit
  datapath,      \* RX/TX enabled (Command RX_EN|TX_EN, MAC1 REC_EN)
  ringsInit,     \* rx_descr_init / tx_descr_init have run in this call
  detectedPhy,   \* the static detectedPhy (0 before a detection)
  (* the driver's control *)
  drv,           \* current step of the running call, "idle" between calls
  caller,        \* who called EMAC_SetPHYMode: "init" or "user"
  tout,          \* loop counter of the running poll
  cfgMode,       \* EMAC_Init's EMAC_ConfigStruct->Mode, passed on unchecked
  status,        \* EMAC_Init's local status
  ret,           \* what the last finished call returned
  (* the PHY *)
  phyId,         \* the identity this PHY reports
  phyReset,      \* BMCR reset bit: reset in progress
  phyMode,       \* BMCR mode: "AUTO" or a forced mode
  link,          \* link established
  oper,          \* operating mode while the link is up
  linkEvents,    \* link changes so far (bound)
  (* history *)
  sawResetDone,  \* EMAC_Init's reset poll read reset complete
  sawLink,       \* EMAC_UpdatePHYStatus's poll read link up
  operSeen,      \* oper when EMAC_UpdatePHYStatus read the status
  miiFailed      \* a read of the running EMAC_UpdatePHYStatus timed out

macVars == <<power, MAC2_FULL_DUP, CR_FULL_DUP, IPGT_FULL, SUPP_SPEED,
             datapath, ringsInit, detectedPhy>>
drvVars == <<drv, caller, tout, cfgMode, status, ret>>
phyVars == <<phyId, phyReset, phyMode, link, oper, linkEvents>>
histVars == <<sawResetDone, sawLink, operSeen, miiFailed>>
vars == <<macVars, drvVars, phyVars, histVars>>

\* Outcomes of one management transaction.
MiiOutcomes == IF MiiCanFail THEN {TRUE, FALSE} ELSE {TRUE}

(***************************************************************************)
(* EMAC_CheckPHYStatus on a BMSR read: ok = FALSE is the -1 of a timed-out *)
(* read_PHY, in which every bit is set.                                    *)
(***************************************************************************)
BmsrLink(ok) == ~ok \/ link
BmsrDuplex(ok) == ~ok \/ PhyAbilities \cap {"100F", "10F"} # {}
BmsrSpeed(ok) == ~ok \/ PhyAbilities \cap {"100F", "100H"} # {}

\* After reset, or a new BMCR value, the link goes down and renegotiates.
PhyRestart(mode) ==
  /\ phyMode' = mode
  /\ link' = FALSE
  /\ UNCHANGED <<phyId, oper, linkEvents>>

Init ==
  /\ power = FALSE /\ MAC2_FULL_DUP = FALSE /\ CR_FULL_DUP = FALSE
  /\ IPGT_FULL = FALSE /\ SUPP_SPEED = FALSE /\ datapath = FALSE
  /\ ringsInit = FALSE /\ detectedPhy = 0
  /\ drv = "idle" /\ caller = "user" /\ tout = 0 /\ cfgMode = "AUTO"
  /\ status = "SUCCESS"
  /\ ret = "none"
  /\ phyId \in PhyIds /\ phyReset = FALSE /\ phyMode = "AUTO"
  /\ link = FALSE /\ oper = "10H" /\ linkEvents = 0
  /\ sawResetDone = FALSE /\ sawLink = FALSE /\ operSeen = "10H"
  /\ miiFailed = FALSE

(***************************************************************************)
(* EMAC_Init(cfg).                                                         *)
(***************************************************************************)
\* Power on, soft-reset the MAC (MAC2 = CRC_EN | PAD_EN, Command = RMII),
\* set MCFG, pulse the RMII reset, then write_PHY(BMCR, RESET).
EMAC_Init(mode) ==
  /\ drv = "idle"
  /\ power' = TRUE
  /\ MAC2_FULL_DUP' = FALSE /\ CR_FULL_DUP' = FALSE /\ SUPP_SPEED' = FALSE
  /\ datapath' = FALSE /\ ringsInit' = FALSE
  /\ \E ok \in MiiOutcomes :
       IF ok THEN /\ phyReset' = TRUE /\ PhyRestart("AUTO")
             ELSE UNCHANGED phyVars
  /\ drv' = "init_reset_wait" /\ tout' = ResetTout /\ status' = "SUCCESS"
  /\ caller' = "init" /\ cfgMode' = mode /\ ret' = "none"
  /\ sawResetDone' = FALSE
  /\ UNCHANGED <<IPGT_FULL, detectedPhy, sawLink, operSeen, miiFailed>>

\* Mutant: the reset poll runs while tout >= 0, one iteration too many.
InitResetPollPastZero ==
  /\ drv = "init_reset_wait"
  /\ \E ok \in MiiOutcomes :
       LET done == ok /\ ~phyReset IN
         /\ sawResetDone' = done
         /\ tout' = IF done THEN tout ELSE tout - 1
         /\ drv' = IF done \/ tout = 0 THEN "init_check_id" ELSE drv
  /\ UNCHANGED <<macVars, caller, cfgMode, status, ret, phyVars, sawLink,
                 operSeen, miiFailed>>

\* Mutant: the reset poll waits on the PHY without counting down.
InitResetPollNoCountdown ==
  /\ drv = "init_reset_wait"
  /\ \E ok \in MiiOutcomes :
       LET done == ok /\ ~phyReset IN
         /\ sawResetDone' = done
         /\ drv' = IF done THEN "init_check_id" ELSE drv
  /\ UNCHANGED <<macVars, caller, cfgMode, status, ret, phyVars, sawLink,
                 operSeen, miiFailed, tout>>

\* for (tout = 500; tout; tout--) { delay; regv = read_PHY(BMCR);
\*   if (!(regv & (RESET | POWERDOWN))) break;  if (tout == 0) return ERROR; }
\* The return is unreachable: tout is never 0 inside the loop.
InitResetPoll ==
  /\ drv = "init_reset_wait"
  /\ \E ok \in MiiOutcomes :
       LET done == ok /\ ~phyReset IN
         /\ sawResetDone' = done
         /\ tout' = IF done THEN tout ELSE tout - 1
         /\ drv' = IF done \/ tout = 1 THEN "init_check_id" ELSE drv
  /\ UNCHANGED <<macVars, caller, cfgMode, status, ret, phyVars, sawLink,
                 operSeen, miiFailed>>

\* switch ((read_PHY(IDR1) << 16) | (read_PHY(IDR2) & 0xFFF0)): a known id
\* is stored in detectedPhy and EMAC_SetPHYMode(cfg->Mode) follows; any
\* other id, including the all-ones of a timed-out read, returns ERROR.
InitCheckId ==
  /\ drv = "init_check_id"
  /\ \E ok \in MiiOutcomes :
       IF ok /\ phyId \in KnownPhys
         THEN /\ detectedPhy' = phyId
              /\ drv' = "setmode"
              /\ UNCHANGED ret
         ELSE /\ drv' = "idle" /\ ret' = "ERROR"
              /\ UNCHANGED detectedPhy
  /\ UNCHANGED <<power, MAC2_FULL_DUP, CR_FULL_DUP, IPGT_FULL, SUPP_SPEED,
                 datapath, ringsInit, caller, tout, cfgMode, status, phyVars,
                 histVars>>

\* Back from EMAC_SetPHYMode: setEmacAddr, rx_descr_init, tx_descr_init,
\* RxFilterCtrl, IntEnable = RX_DONE | TX_DONE, IntClear, then enable the
\* RX and TX paths; return the status EMAC_SetPHYMode gave.
InitFinish ==
  /\ drv = "init_finish"
  /\ ringsInit' = TRUE /\ datapath' = TRUE
  /\ drv' = "idle" /\ ret' = status
  /\ UNCHANGED <<power, MAC2_FULL_DUP, CR_FULL_DUP, IPGT_FULL, SUPP_SPEED,
                 detectedPhy, caller, tout, cfgMode, status, phyVars, histVars>>

\* EMAC_DeInit: mask and clear every interrupt, power the block off.
EMAC_DeInit ==
  /\ drv = "idle"
  /\ power' = FALSE /\ datapath' = FALSE
  /\ ret' = "none"
  /\ UNCHANGED <<MAC2_FULL_DUP, CR_FULL_DUP, IPGT_FULL, SUPP_SPEED, ringsInit,
                 detectedPhy, drv, caller, tout, cfgMode, status, phyVars,
                 histVars>>

(***************************************************************************)
(* EMAC_SetPHYMode(mode): write the mode to BMCR (the write_PHY result is  *)
(* ignored) and return EMAC_UpdatePHYStatus(); an unsupported mode returns *)
(* EMAC_ERROR at once.  Called by EMAC_Init (step "setmode", with         *)
(* cfg->Mode) or by the user.                                              *)
(***************************************************************************)
SetModeStep(mode) ==
  IF mode \in PhyModes
    THEN /\ \E ok \in MiiOutcomes :
              IF ok THEN PhyRestart(mode) /\ UNCHANGED phyReset
                    ELSE UNCHANGED phyVars
         /\ drv' = "update_poll" /\ tout' = LinkTout
         /\ sawLink' = FALSE /\ miiFailed' = FALSE
    ELSE /\ drv' = "setmode_error"
         /\ UNCHANGED <<phyVars, tout, sawLink, miiFailed>>

InitSetMode ==
  /\ drv = "setmode"
  /\ SetModeStep(cfgMode)
  /\ UNCHANGED <<macVars, caller, cfgMode, status, ret, sawResetDone,
                 operSeen>>

EMAC_SetPHYMode(mode) ==
  /\ drv = "idle" /\ power
  /\ caller' = "user"
  /\ SetModeStep(mode)
  /\ UNCHANGED <<macVars, cfgMode, status, ret, sawResetDone, operSeen>>

\* EMAC_UpdatePHYStatus called by the user.
EMAC_UpdatePHYStatus ==
  /\ drv = "idle" /\ power
  /\ caller' = "user"
  /\ drv' = "update_poll" /\ tout' = LinkTout
  /\ sawLink' = FALSE /\ miiFailed' = FALSE
  /\ UNCHANGED <<macVars, cfgMode, status, ret, phyVars, sawResetDone,
                 operSeen>>

\* Returning rc from EMAC_SetPHYMode / EMAC_UpdatePHYStatus to the caller.
ReturnTo(rc) ==
  IF caller = "init"
    THEN drv' = "init_finish" /\ status' = rc /\ UNCHANGED ret
    ELSE drv' = "idle" /\ ret' = rc /\ UNCHANGED status

SetModeError ==
  /\ drv = "setmode_error"
  /\ ReturnTo("ERROR")
  /\ UNCHANGED <<macVars, caller, tout, cfgMode, phyVars, histVars>>

\* for (tout = 10; tout; tout--) { delay; regv = read_PHY(BMSR);
\*   if (regv & LINK_ESTABLISHED) break;  if (tout == 0) return LINK_DOWN; }
\* As in EMAC_Init, the return is unreachable: after ten polls without a
\* link the function goes on to configure the MAC.
UpdatePoll ==
  /\ drv = "update_poll"
  /\ \E ok \in MiiOutcomes :
       LET up == BmsrLink(ok) IN
         /\ sawLink' = (ok /\ link)
         /\ miiFailed' = (miiFailed \/ ~ok)
         /\ tout' = IF up THEN tout ELSE tout - 1
         /\ drv' = IF up \/ tout = 1 THEN "update_config" ELSE drv
  /\ UNCHANGED <<macVars, caller, cfgMode, status, ret, phyVars,
                 sawResetDone, operSeen>>

\* Two EMAC_CheckPHYStatus reads of BMSR, duplex then speed, written to
\* MAC2/Command/IPGT and SUPP; then return SUCCESS.  The half-duplex branch
\* sets IPGT only and leaves the full-duplex bits as they were.
UpdateConfig ==
  /\ drv = "update_config"
  /\ \E okDup, okSpeed \in MiiOutcomes :
       /\ IF BmsrDuplex(okDup)
            THEN /\ MAC2_FULL_DUP' = TRUE /\ CR_FULL_DUP' = TRUE
                 /\ IPGT_FULL' = TRUE
            ELSE /\ IPGT_FULL' = FALSE
                 /\ UNCHANGED <<MAC2_FULL_DUP, CR_FULL_DUP>>
       /\ SUPP_SPEED' = BmsrSpeed(okSpeed)
       /\ miiFailed' = (miiFailed \/ ~okDup \/ ~okSpeed)
  /\ operSeen' = oper
  /\ ReturnTo("SUCCESS")
  /\ UNCHANGED <<power, datapath, ringsInit, detectedPhy, caller, tout,
                 cfgMode, phyVars, sawResetDone, sawLink>>

(***************************************************************************)
(* The PHY.  Reset completion and the link are the PHY's and the cable's   *)
(* business: no fairness, a reset may never end and a link never come up.  *)
(***************************************************************************)
PhyResetDone ==
  /\ phyReset
  /\ phyReset' = FALSE
  /\ UNCHANGED <<macVars, drvVars, phyId, phyMode, link, oper, linkEvents,
                 histVars>>

LinkUp ==
  /\ ~phyReset /\ ~link /\ linkEvents < MaxLinkEvents
  /\ link' = TRUE
  /\ oper' \in IF phyMode = "AUTO" THEN PartnerModes ELSE {phyMode}
  /\ linkEvents' = linkEvents + 1
  /\ UNCHANGED <<macVars, drvVars, phyId, phyReset, phyMode, histVars>>

LinkDown ==
  /\ link /\ linkEvents < MaxLinkEvents
  /\ link' = FALSE
  /\ linkEvents' = linkEvents + 1
  /\ UNCHANGED <<macVars, drvVars, phyId, phyReset, phyMode, oper, histVars>>

DriverStep ==
  \/ InitResetPoll \/ InitCheckId \/ InitSetMode \/ InitFinish
  \/ SetModeError \/ UpdatePoll \/ UpdateConfig

Next ==
  \/ \E mode \in UserModes : EMAC_Init(mode)
  \/ EMAC_DeInit
  \/ \E mode \in UserModes : EMAC_SetPHYMode(mode)
  \/ EMAC_UpdatePHYStatus
  \/ DriverStep
  \/ PhyResetDone \/ LinkUp \/ LinkDown

\* A running call keeps executing (it is the foreground thread's code).
Spec == Init /\ [][Next]_vars /\ WF_vars(DriverStep)

-----------------------------------------------------------------------------
TypeOK ==
  /\ {power, MAC2_FULL_DUP, CR_FULL_DUP, IPGT_FULL, SUPP_SPEED, datapath,
      ringsInit, phyReset, link, sawResetDone, sawLink, miiFailed}
       \subseteq BOOLEAN
  /\ detectedPhy \in {0} \cup KnownPhys
  /\ drv \in {"idle", "init_reset_wait", "init_check_id", "setmode",
              "init_finish", "setmode_error", "update_poll", "update_config"}
  /\ caller \in {"init", "user"} /\ tout \in 0 .. ResetTout + LinkTout
  /\ cfgMode \in UserModes \cup PhyModes /\ status \in {"SUCCESS", "ERROR"}
  /\ ret \in {"none", "SUCCESS", "ERROR"}
  /\ phyId \in PhyIds /\ phyMode \in PhyModes
  /\ oper \in OperModes /\ operSeen \in OperModes
  /\ linkEvents \in 0 .. MaxLinkEvents

\* A call has finished and returned rc; from EMAC_Init when by = "init".
Returned(rc, by) == drv = "idle" /\ ret = rc /\ caller \in by

(***************************************************************************)
(* Every call returns: the PHY-reset and link polls are bounded, so        *)
(* EMAC_Init, EMAC_SetPHYMode and EMAC_UpdatePHYStatus finish whatever the *)
(* PHY does (a reset that never ends, a link that never comes up, a        *)
(* management interface that times out).                                   *)
(***************************************************************************)
EveryCallReturns == drv # "idle" ~> drv = "idle"

(***************************************************************************)
(* Spec sections 7 and 8: an EMAC_Init that fails, on an unknown PHY      *)
(* identity or an unsupported mode, is aborted: it has not initialised the *)
(* descriptor rings nor enabled the RX/TX data paths.  It is about         *)
(* EMAC_Init keeping the status of EMAC_SetPHYMode(cfg->Mode) and going on *)
(* with the rings and the data paths before returning it.                  *)
(***************************************************************************)
InitErrorLeavesDatapathOff ==
  Returned("ERROR", {"init"}) => ~ringsInit /\ ~datapath

(***************************************************************************)
(* Spec sections 4.3 and 7: a PHY reset that does not complete within the  *)
(* poll bound aborts EMAC_Init with an error; so EMAC_Init succeeds only   *)
(* after its poll read the reset complete.                                 *)
(***************************************************************************)
InitFailsOnPhyResetTimeout == Returned("SUCCESS", {"init"}) => sawResetDone

(***************************************************************************)
(* Spec section 4.2: EMAC_UpdatePHYStatus is the point where the MAC's     *)
(* duplex (MAC2, Command) and speed (SUPP) are set to what the PHY         *)
(* negotiated or was forced to.  After a successful update that read the   *)
(* link up with no timed-out transaction, the MAC runs in the PHY's mode.  *)
(***************************************************************************)
MacMatchesPhy ==
  Returned("SUCCESS", {"init", "user"}) /\ sawLink /\ ~miiFailed =>
    /\ MAC2_FULL_DUP = IsFull(operSeen)
    /\ SUPP_SPEED = Is100(operSeen)
=============================================================================
