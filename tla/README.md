# TLA+ models of DemoAoaCan

This directory holds TLA+ models of the C code under `src/`, the TLC
configurations that check them, and `PROJECT.json`, the machine-readable index.
`PROJECT.json` lists:
- components;
- runs;
- mutants;
- the map from every definition to the source lines it translates;
- findings;
- hazards.

Every model is written from the C source. Hardware behaviour that the code
relies on (the EMAC DMA engine, the PHY, the PWM latch) is modelled as an
environment, from the LPC17xx user manual and IEEE 802.3 clause 22. These
environment actions are not in the map.

Run a check from this directory with `tlc -workers 2 -config <cfg> <MC module>`.

## 1. The system

| Part | Source | What it is |
|---|---|---|
| Descriptor rings | `lpc17xx_emac.c` 52-199, 768-1082 | RX and TX DMA rings. Each index register has a single writer: hardware writes RxProduceIndex and TxConsumeIndex, the driver writes RxConsumeIndex and TxProduceIndex. Helpers check, read, write and advance the indices. |
| PHY control and MAC engine | `lpc17xx_emac.c` 209-606 | MII `read_PHY`/`write_PHY` (each returns -1 on timeout). `EMAC_Init` runs MAC reset, the clock divider, PHY reset with a poll, PHY identity, `EMAC_SetPHYMode`, ring init and the enables. Also `EMAC_DeInit`, `EMAC_SetPHYMode`, `EMAC_UpdatePHYStatus` (link poll, then duplex and speed) and `EMAC_CheckPHYStatus`. |
| Interrupt dispatcher | `lpc17xx_emac.c` 749-958 | `EMAC_StandardIRQHandler` dispatches over a callback table of 10 ordinals: MAC events 0..7, soft interrupt 8, wakeup 9. Alongside it: `EMAC_SetupIntCBS`, `EMAC_IntCmd`, `EMAC_IntGetStatus`, `EMAC_GetWoLStatus`. |
| CRC engine | `lpc17xx_emac.c` 658-693 | `EMAC_CRCCalc`, a nibble-at-a-time CRC-32. |
| Receive filter | `lpc17xx_emac.c` 628-730 | `EMAC_SetHashFilter` sets or clears one bit of the 64-bit hash table at index CRC bits 28..23. `EMAC_SetFilterMode` sets RxFilterCtrl bits. |
| Demo application | `main.c` | SysTick at 1 kHz. `main` fades the three LEDs down and then up. Each step is one `PWM_Set` followed by a wait for one tick on `msTicks`. |
| PWM driver | `pwm.c` | `PWM_Init`, `PWM_Set`, `PWM_Start`, `PWM_Stop`, `PWM1_IRQHandler`. |
| USB accessory (AOA) | `AndroidAccessoryCommands.c`, `DeviceDescriptor.c` | Builders for three control requests, and a classifier of a device descriptor by VID and PID. |
| Headers only | `GPIO.h`, `ConfigDescriptor.h`, `eeprom.h` | Pin macros and declarations whose code is not in the repository. |

How the parts interact:
- `EMAC_Init` composes the PHY, MAC, ring and interrupt parts: after the PHY is up it calls `rx_descr_init`/`tx_descr_init` and enables RX_DONE|TX_DONE.
- The dispatcher calls user callbacks. `rx_descr_init` and `EMAC_WritePacketBuffer` set the interrupt bit of every descriptor, so the DMA engine raises RX done and TX done per frame, and an RX done callback drains the RX ring (`EmacRxPath`).
- The receive filter uses the CRC engine.
- The demo uses only SysTick and the PWM driver. The EMAC and AOA code is compiled but never called from `main` (the CAN/AOA main is commented out).

### Inventory: state, operations, what is hard

- **Rings.**
  - State: the four index registers and the buffers.
  - Operations: check, read, write, and the two index updates.
  - Hard parts:
    - The DMA engine runs concurrently with the user's three-call sequences.
    - Wrap-around of the indices.
    - Full ring versus empty ring.
    - `TxConsumeIndex - 1` computed in `uint32_t`.
- **PHY and MAC.**
  - State: the MAC registers (MAC2/Command full duplex, IPGT, SUPP, enables), `detectedPhy`, and the PHY (reset bit, BMCR mode, link, negotiated mode).
  - Hard parts:
    - Bounded polls whose timeout returns are unreachable.
    - The all-ones value of a failed MII read.
    - Ability bits read as if they were the negotiated mode.
    - The half-duplex branch leaves the full-duplex bits set.
    - No rollback after a failed init.
- **Interrupts.**
  - State: IntStatus, IntEnable, RxFilterWoLStatus, the callback table.
  - Hard parts:
    - Events arrive during the handler's read, clear and dispatch.
    - Read-modify-writes of IntEnable race with callbacks.
    - The mask comparison in `EMAC_SetupIntCBS`.
- **CRC and filter.**
  - State: HashFilterL/H and RxFilterCtrl.
  - Hard parts:
    - Bit order.
    - Signed shifts.
    - The 31/32 split between the halves.
    - No reference count per hash bit.
- **Demo.**
  - State: `msTicks`, the loop counters, the PWM match, latch and shadow registers.
  - Hard parts:
    - `msTicks` is not volatile but is shared with the ISR.
    - `LER` is overwritten by each `PWM_Set`.
    - The unsigned loop bounds.

## 2. Modules

| Module | Models | State (code name) | Actions |
|---|---|---|---|
| `FrameFifo` | What an RX ring promises: a bounded FIFO that drops frames when full | `queue`, `delivered`, `arrived` | `Arrive`, `Deliver` |
| `EmacRing` | Descriptor rings | `RxProduceIndex`, `RxConsumeIndex`, `rx_buf`, `Rx_Stat`, `TxProduceIndex`, `TxConsumeIndex`, `tx_buf`, plus the user's position `rxPc`/`txPc`, the size it read `rxSize` and histories | `RxCheck`, `EMAC_GetReceiveDataSize`, `EMAC_ReadPacketBuffer`, `EMAC_UpdateRxConsumeIndex`, `TxCheck`, `EMAC_WritePacketBuffer`, `EMAC_UpdateTxProduceIndex`; environment: `HwReceive`, `HwTransmit` |
| `EmacRxPath` | The rings composed with the dispatcher: `INSTANCE EmacRing` and `INSTANCE EmacIrq`, the RX user running as the RX done callback | all variables of both, `cbReturning` (the callback found the ring empty) | `RxCallbackStep` (the ring's RX user steps inside the dispatch of RX done), `RxCallbackReturn` (its return, ending the dispatch), `IrqStep` (the handler's other steps), `TxPoll`, `TxSubmit` (TX user, preempted by the handler); environment: `HwReceive` and `HwTransmit` joined with `HwRaise` of RX done and TX done |
| `EmacIrq` | Dispatcher and its calls | `IntStatus`, `IntEnable`, `RxFilterWoLStatus`, `_pfnIntCbDat`, `int_stat`, the handler's position `isr` and its pending `todo`, `polled` (the ordinal `EMAC_IntGetStatus` has read and not yet cleared), history `credit` (raises minus callbacks per ordinal, held at -1 once it goes negative) | `EMAC_SetupIntCBS`, `EMAC_IntCmd`, `EMAC_IntGetStatus` (its read) and `IntGetStatusClear` (its IntClear), `EMAC_GetWoLStatus`, `IrqReadStatus` (the `while` test), `IrqClear`, `IrqDispatch` (one callback); environment: `HwRaise` |
| `EmacPhy` | Init, DeInit, SetPHYMode, UpdatePHYStatus, CheckPHYStatus, `read_PHY`/`write_PHY` | MAC bits, `detectedPhy`, the driver's position `drv` with `tout`, `status` and `ret`, the PHY | `EMAC_Init`, `InitResetPoll`, `InitCheckId`, `InitSetMode`, `InitFinish`, `EMAC_DeInit`, `EMAC_SetPHYMode`, `EMAC_UpdatePHYStatus`, `SetModeError`, `UpdatePoll`, `UpdateConfig`; environment: `PhyResetDone`, `LinkUp`, `LinkDown` |
| `EmacCrc` | `EMAC_CRCCalc` and the hash index | none (operators) | `CrcNibble`, `CrcByte`, `EMAC_CRCCalc`, `HashIndex`; the reference `EthernetFcsRegister` (RECURSIVE `FcsBits`) |
| `EmacHash` | `EMAC_SetHashFilter`, `EMAC_SetFilterMode` | `HashFilterL`, `HashFilterH`, `RxFilterCtrl`, history `lastByIndex` | both calls |
| `EmacMii` | The MII clock divider `EMAC_Init` selects | none (operators) | `ClkSel`, `EMAC_MCFG_CLK_SEL`, `MdcDivisor`; the hardware's `HostClockDivisor` |
| `DemoMain` | `main`, `SysTick_Handler`, `PWM_Init`, `PWM_Set`, `PWM_Start`, `PWM1_IRQHandler` | `msTicks`, `pc`, the preset `port`, the loop `phase`/`level`, `MR`, `LER`, `shadow`, `started`, the MR0 flag `IR` | `PWM_Init` (one port per step), `MainPreset`, `PWM_Start`, `MainSet`, `MainNextFade`, `MainWait`, `SysTick_Handler`, `PWM1_IRQHandler`; environment: `PwmMatch0` |

`MC_*` modules give the constants values for TLC. A poll loop is one step per
iteration. Register writes that touch nothing a property reads are folded into
the step they belong to. Each module's header comment and each action's
comment name the code they model, and `PROJECT.json` "map" gives the lines.

Modelling choices that matter:
- **TLC's 32-bit integers.**
  - EmacRing does index arithmetic modulo `2^WordWidth` (WordWidth = 16). The underflow of `TxConsumeIndex - 1` happens at every width.
  - EmacCrc represents a 32-bit word as a function from bits to BOOLEAN.
- **Failed MII transactions.** `MiiCanFail` makes each MII transaction either succeed or time out. A timed-out read returns all ones, so every bit tests as set.
- **Undefined behaviour.**
  - `crc << 4` overflows a signed int. The model wraps, which is what the build does.
  - The data race on `msTicks` is a choice at initial-state time between the two code shapes a build can produce (`LoadOutcomes`).

## 3. Runs

| Run | Cfg | Expect | Checks | States |
|---|---|---|---|---|
| `ring` | `MC_EmacRxPath.cfg` | pass | `TypeOK`, `TxNeverRepeatsOrReorders`, `RxSizeMatchesFrame`, `RxImplementsFifo` (refinement of `FrameFifo` via `INSTANCE ... WITH`) | 169,879 |
| `ring_tx_loss` | `MC_EmacRing_TxLoss.cfg` | violation | `TxNoLoss` | |
| `irq` | `MC_EmacIrq.cfg` | pass | `TypeOK`, `NoCallbackWithoutRaise`, `EveryEventHandled`, `HandlerReturns` (liveness) | 339,334 |
| `irq_setup` | `MC_EmacIrq_Setup.cfg` | violation | `SetupTargetsFirstOrdinal` | |
| `phy` | `MC_EmacPhy.cfg` | pass | `TypeOK`, `EveryCallReturns` (liveness) | 97,300 |
| `phy_init_mode` | `MC_EmacPhy_InitErrorLeavesDatapathOff.cfg` | violation | `InitErrorLeavesDatapathOff` | |
| `phy_reset_timeout` | `MC_EmacPhy_InitFailsOnPhyResetTimeout.cfg` | violation | `InitFailsOnPhyResetTimeout` | |
| `phy_mac_mode` | `MC_EmacPhy_MacMatchesPhy.cfg` | violation | `MacMatchesPhy` | |
| `hash` | `MC_EmacHash.cfg` | pass | `TypeOK`, `TableFollowsLastCall`, `CrcMatchesEthernet` | 128 |
| `mii_clock` | `MC_EmacMii.cfg` | violation | `MdcWithinLimit` | |
| `demo` | `MC_DemoMain.cfg` | pass | `TypeOK`, `MainProgress` (liveness) | 14,492 |
| `demo_latch` | `MC_DemoMain_Latch.cfg` | violation | `EveryWriteLatched` (action property) | |

What the runs show:

- **Ring, driven by interrupts.** The RX ring, its DMA engine and an RX done
  callback that runs check, size, read and release until the ring is empty
  implement a FIFO of capacity N-1 that never loses, repeats or reorders a
  frame it has stored, and delivers every stored frame eventually, although
  nothing polls the ring outside the interrupt. This rests on the handler
  writing IntClear before the callbacks: a frame stored after the callback's
  last check sets RX done again. With the clear after the callbacks (the
  mutant `IrqDispatchClearsAfter`) TLC finds a frame left in the ring
  forever. Every frame is copied with the size from its own status entry,
  although the DMA engine writes the next frame's data and status between the
  user's calls. This holds under every interleaving, across wrap-around. The
  TX ring never transmits a frame twice or out of order.
  **But** (`ring_tx_loss`) frames are lost. With TxConsumeIndex = 0 and
  TxProduceIndex = N-1 the ring is full, yet `EMAC_CheckTransmitIndex` compares
  against `0 - 1 = 0xFFFFFFFF` and reports space. The next
  `EMAC_UpdateTxProduceIndex` makes both indices equal, so the DMA engine sees
  an empty ring. The user then overwrites descriptors that were queued but not
  yet sent. Spec §8 asks for exactly this check over all index pairs.
- **Interrupts.** No event is cleared without being dispatched, whatever the
  hardware raises between the handler's read, its IntClear write and its
  callbacks; the `while` loop picks up late events. No callback runs more
  often than its event was raised: the handler clears exactly the bits it
  read before calling back, so a pass never sees the same bits twice, also
  when the user polls an enabled type with `EMAC_IntGetStatus` around it. The
  handler always gives the processor back once the hardware stops raising
  (`HandlerReturns`): the loop re-reads IntStatus & IntEnable, and only the
  pass's own IntClear lets that read come back empty. Without the clear the
  handler spins in interrupt context, and TLC finds that cycle. An event
  source that never stops is outside the bounded model (hazard at
  emac.c:844).
  `irq_setup`: a mask with several MAC events, such as RX_DONE|TX_DONE = 0x88,
  exceeds EMAC_INT_TX_DONE = 0x80 and installs no callback. Spec §4.4 says the
  first match wins.
- **PHY.**
  - Every driver call returns: the polls are bounded, whatever the PHY does.
  - `phy_init_mode`: `EMAC_Init` passes `cfg->Mode` unchecked to `EMAC_SetPHYMode` and keeps its ERROR in `status`, then initialises the rings, enables RX done and TX done and the data paths, and only then returns ERROR (lines 379-401). Spec §7 calls an unsupported mode fatal to Init, and §8 says a failed Init does not initialise the rings. The model draws the caller's mode from `UserModes`, the supported modes and one the driver does not know. An unknown PHY identity, in contrast, does abort before the rings.
  - `phy_reset_timeout`: `if (tout == 0) return ERROR;` is dead code inside `for (tout = 500; tout; tout--)`. A PHY that never leaves reset still gets SUCCESS. `EMAC_UpdatePHYStatus`'s `return EMAC_LINK_DOWN` is dead for the same reason, and `UpdatePoll` models it that way.
  - `phy_mac_mode`: speed and duplex come from the BMSR *ability* bits. A PHY forced to 10 Mbit half duplex gets a MAC configured for 100 Mbit full duplex.
- **MII clock** (`mii_clock`). `EMAC_Init` divides SystemCoreClock by
  EMAC_MCFG_MII_MAXCLK (2.5 MHz) with truncation, takes the first
  `EMAC_clkdiv` entry not below the quotient, and increments the index to
  match the hardware's CLK_SEL encoding. The truncation lets a divider below
  the exact quotient win, and the table ends at 28 while the hardware goes on
  to 64. At 12 MHz the MDC runs at 3 MHz, at 72 MHz at 2.57 MHz, and at 96, 100 and
  120 MHz the index falls off the table and selects /36 (up to 3.33 MHz).
  All are above the IEEE 802.3 clause 22 limit the constant names. 24, 48 and
  60 MHz stay within it.
- **CRC and hash filter** (`hash`). The nibble loop with its four
  precomputed polynomial multiples equals the textbook bit-serial Ethernet FCS
  register, in reversed bit order and before the final complement. This is
  checked on the empty frame, all 256 one-byte frames, 768 two-byte frames and
  the filter's addresses. For 00:11:22:33:44:55, the address whose
  precomputed value spec section 8 asks for without giving a number, it
  gives 0x16CFFD0D, the bit-serial register for that address, and hash
  index 45. The two 32-bit registers
  always equal the set of indices whose last call enabled them. This covers
  indices 31 and 32 on either side of the split, and two addresses that
  collide on index 45. Because the table has no reference count, disabling
  one of two colliding addresses drops both. That is listed as a hazard, not
  checked as a violation, because the spec does not promise otherwise.
- **Demo.**
  - `demo`: the boot sequence (`PWM_Init` over ports 4..6, the preset to full, `PWM_Start`) then all six fades run forever, with a build that reloads `msTicks` on every pass.
  - `msTicks` is not volatile, so an optimising build may load it once after `msTicks = 1`, and main then spins forever at its first wait. `DemoMain` keeps that build as a choice from `LoadOutcomes`, but no run checks it: a property about it would only restate that main stops at its first wait. The hazard is listed at main.c:32.
  - `demo_latch`: `PWM_Set` assigns LER = one bit, so a value written to another port in the same PWM period is never latched. This contradicts the comment in `PWM_Set`. In the demo, the last step of a fade can be lost when the next fade's first `PWM_Set` follows within one PWM period.

Every property of a passing run has a mutant in `PROJECT.json`: a plausible
bug in a mapped definition that TLC must find. Examples:
- a wrap at `idx = n`;
- a copy to the consume slot;
- the status size read at the produce index;
- IntClear written again after the callbacks;
- a callback loop stopping below TX done;
- an IntClear skipped before the callbacks (breaks both `NoCallbackWithoutRaise` and `HandlerReturns`);
- a reset poll that never counts down;
- the high nibble of a byte fed first;
- a boundary test `crc > 32`;
- an unsigned `>= 0` loop test.

### Bounds and why they suffice

- **Rings.**
  - 4 descriptors each: this makes Cap = 3, so full, empty, and wrap at both ends happen.
  - `ring` (with the dispatcher): 6 RX frames, enough to wrap the RX ring and to overrun it, and 4 TX frames, enough to fill the TX ring and wrap it once.
  - `ring_tx_loss` (the rings alone, `MC_EmacRing`): 7 frames each way.
- **Interrupts.**
  - Events {3, 7, 9}: RX done, TX done and wakeup, covering a MAC bit, the highest MAC bit and the special slot.
  - Masks {3}, {7}, {9}, {3,7}.
  - 3 raises: an event can arrive during each phase of the handler.
- **PHY.**
  - Poll bounds 2: the loop takes its exit on the first pass and on the last.
  - 2 link changes.
  - Three PHY identities: the two known ones and an unknown one.
  - User modes AUTO, 10H and an invalid value.
  - Partner modes 100F and 10H.
  - MII failures on.
- **MII clock.** The core clocks an LPC17xx runs at: 12 MHz without PLL and
  24, 48, 60, 72, 96, 100 and 120 MHz. They hit every branch of the search:
  an early entry, the last entry, and no entry at all.
- **Demo.** Fades of 4 steps in place of 1000. This keeps:
  - both loop exits;
  - the hand-off from one fade to the next;
  - the counter wrap, with 2-bit counters.

### Fairness

- **Driver and ISR.** Steps of a call already running (`EmacPhy!DriverStep`, the ring user's check/size/read/update, the ISR's read/clear/dispatch, the IntClear that ends an `EMAC_IntGetStatus` whose read found the bit set, `main`'s steps, `PWM1_IRQHandler` once MR0 is flagged) are weakly fair. That code keeps running once started, and an enabled interrupt is eventually taken.
- **Hardware timers.** The DMA engine's transmission, SysTick and the PWM Match 0 are weakly fair. They are hardware that runs on its own clock.
- **Interrupt-driven RX.** In `ring` nothing polls the RX ring: the only fairness on the RX side is that the NVIC takes a pending enabled interrupt and the handler and its callback run to completion. The TX user owes only the completion of a submission it started. With frames bounded the system stops once everything is delivered and sent, which is an idle MCU waiting for an interrupt, so `MC_EmacRxPath.cfg` does not check deadlock.
- **Environment.** Frame arrival, event raising, PHY reset completion, link changes and user calls get no fairness. A PHY may stay in reset forever, and a user may never call again.

## 4. Not modelled, and the plan

Not modelled:
- `setEmacAddr`: three register writes of the address bytes. No property
  tells the station address apart, and the receive filter hardware that
  reads it is not described in the repository.
- `emac_delay_ms` and the empty soft-reset delay loop in `EMAC_Init`: the
  models count polls, not cycles. Both are listed as hazards. The delay is a
  fixed 4000 iterations per millisecond whatever the core clock. The
  soft-reset loop has a non-volatile counter that a build may remove.
- `EMAC_CheckReceiveDataStatus`: it reads the same status entry as
  `EMAC_GetReceiveDataSize`, which is modelled; the status flags themselves
  are abstracted away.
- Frame lengths. Frames are numbers, so the length edge cases of
  `EMAC_WritePacketBuffer` and `EMAC_ReadPacketBuffer` (a zero length, a
  frame longer than the buffer) are listed as hazards, not checked. Spec §4.1
  leaves both to the caller.
- `PWM_Stop`: nothing calls it. The PWM component is therefore "partly"
  modelled.
- `PWM1_IRQHandler`'s `match_counter1`: nothing reads it. Its
  read-modify-write clear of IR is harmless, because only the MR0 interrupt
  is enabled.
- GPIO macros: no code of the repository uses them, and the functions
  `GPIO.h` declares are not in the repository.
- The CAN/AOA `main` at the end of `main.c`: it is commented out.
- The AOA request builders and `ProcessDeviceDescriptor`: nothing in the
  repository calls them (the CAN/AOA main is commented out), the USB host
  stack they use is not in the repository, and the classifier is two
  comparisons that a property would only restate.
- The header-only components.

Known and not checked:
- `EMAC_SetHashFilter` clears `PASS_RX_FILT` in Command but does not set the
  UCAST/MCAST hash-enable bits. Spec §4.3 says it switches to imperfect-hash
  mode.
- `EMAC_IntGetStatus` on an *enabled* type races the handler. The model
  takes the call as its two accesses, the read of IntStatus
  (`EMAC_IntGetStatus`) and the IntClear write (`IntGetStatusClear`), with
  the handler free to run between them, and `irq` shows the handler's
  callbacks are never doubled by it. Two outcomes are explored but not
  stated as a property: the poll can answer SET for an event whose callback
  already ran, and an event raised between the two accesses is erased
  unreported (plan item 2).
- `EMAC_IntCmd`'s read-modify-write of IntEnable races a callback that calls
  `EMAC_IntCmd`. No code in the repository does so.

Plan for later work, in order:
1. Compose the `EMAC_Init`/`EMAC_DeInit` lifecycle with the rings. Init re-runs `rx_descr_init` while the DMA engine and a user are still active.
2. State the double answer and the erased event of `EMAC_IntGetStatus` racing the handler as a run.
3. Give frames a length, to check the copy loops' bounds.
