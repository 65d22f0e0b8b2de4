# EPON in TLA+

A verification project for the EPON simulation models of this repository: the
OLT and ONU modules under `src/linklayer/epon`, which implement MPCP
registration, per-LLID queues and the slotted upstream of an Ethernet passive
optical network on the OMNeT++ kernel. The modules here are translated from
the C++ sources; `PROJECT.json` maps every definition to the lines it stands
for. Paths below are relative to the repository.

## 1. The system

One OLT and several ONUs share a fibre through a passive splitter. Downstream
(OLT to ONUs) the OLT broadcasts; upstream the ONUs take turns in slots. Each
node is a stack of simple modules that exchange messages:

    relay  <->  queue module (per LLID, MPCP)  <->  MAC control  <->  EPON_mac  <->  splitter

The kernel executes one event at a time. The hard part is therefore not data
races but the order of events: two timers and a message due at about the same
time, messages on fibres of different length, a timer that is cancelled or not
when its reason has gone, and 32-bit clock registers that wrap.

| Component | State | Operations | Interacts with |
|---|---|---|---|
| OLT queue module `OLTQPerLLiDBase` (`OLT_QPL_RR`) | `temptbl`, `pendingAck`, ONU table, `pon_queues`, `allQsEmpty`, `nextQIndex` | REGREQ, REGACK, REPORT, acknowledgment timeout, frames from the relay, `requestPacket`, `DoUpstreamDBA`, `SendGateUpdates` | ONUs (messages), `ONUTable` (shared with the relay), OLT MAC control (calls `requestPacket`) |
| OLT MAC control `OLTMacCtl_NP` | `tmp_queue`, `transmitState`, the end-of-transmission timer | frame from above, frame from the MAC, end of transmission | queue module, `EPON_mac` |
| ONU queue module `ONUQPerLLiDBase` (`ONU_QPL_RR`) | `pon_queues`, `allQsEmpty`, `nextQIndex`, `regSendMsg`, `regTOMsg` | REGISTER, registration GATE, back-off, request timeout, frames from the relay, `requestPacket` | OLT (direct messages), ONU MAC control |
| ONU MAC control `ONUMacCtl_NP` | `clock_reg`, `start_reg`, `len_reg`, `transmitState`, `startTxMsg`, `stopTxMsg`, `tmp_queue` | GATE, frame or WAKE UP from above, the two timers, clock synchronisation on every event | queue module, `EPON_mac` (reads its queue length) |
| `EPON_mac` | transmit state, queue, gap and transmission timers | send, end of gap, end of transmission, reception, PAUSE | splitter |
| Poller of the OLT `OLTQPerLLiDBase_P` | `nextONU`, `expTxTime`, `pollerRunning`, `sendGateMsg` | allocate for the next ONU, send its GATE, registration | ONU table, OLT MAC control |
| ONU MAC control with polling `ONUMacCtl_P` | registers, `startTxMsg`, `sendReportMsg`, `tmp_queue` | GATE, frame or WAKE UP, start of transmission, REPORT at the end of the slot | queue module (calls `requestMPCP_REPORT`), `EPON_mac` |
| Relays and `VlanMACRelayUnitBase` | address table with ages, LLID list | learn, look up, forward | ONU table, service list |
| `PON_Splitter` | busy channels, collision counters | copy downstream, forward upstream, count collisions, halt | all nodes |
| `VlanNetConfig` | address pool per VLAN | assign, host added, host removed | network layer |
| `ServiceConfig`, VLAN MAC/encapsulation/ARP, statistics, NED files | parameters, counters | | |

What makes them correct: an ONU is registered at most once and both sides agree
on its LLIDs; slots are disjoint and cover the super slot; every registered ONU
ends up with the slot the table gives it; an ONU transmits inside its slot only;
no waiting frame is forgotten by timers and wake-ups; downstream frames leave
once and in order; the poller goes on for ever and serves the ONUs in turn;
frames of two ONUs never meet at the splitter; the relays remember what they must
and send a frame where its destination is; the configurator gives no address
twice and loses none. The behaviours that are hard to test are listed, each at its
line, under `hazards` in `PROJECT.json`.

## 2. Modules

| Module | Models | Kind |
|---|---|---|
| `UpstreamDBA` | `OLTQPerLLiDBase::DoUpstreamDBA` | operators |
| `EponRegistration` | registration between OLT and ONUs, ONU table, queues, GATEs | state machine |
| `OnuAdmission` | what registration promises | abstract specification |
| `RoundRobin` | `requestPacket` of `OLT_QPL_RR` and `ONU_QPL_RR` | operators |
| `OnuQueues` | ONU queues: enqueue, drop, wake up | operators over `RoundRobin` |
| `EponMac` | transmitter of `EPON_mac` | operators |
| `OnuMacCtlNP` | the functions of `ONUMacCtl_NP` | operators over `OnuQueues`, `EponMac` |
| `OnuMacCtl` | one ONU without polling, any GATEs | state machine over `OnuMacCtlNP` |
| `NonPollingPon` | ONUs without polling, the OLT's division, the splitter | composition of `OnuMacCtlNP`, `UpstreamDBA`, `PonSplitter` |
| `OltDownstream` | OLT queue module and `OLTMacCtl_NP` | state machine over `RoundRobin` |
| `FifoChannel` | what the downstream direction promises | abstract specification |
| `OltPolling` | the poller of `OLTQPerLLiDBase_P` | state machine |
| `OnuMacCtlP` | the functions of `ONUMacCtl_P` | operators over `OnuQueues`, `EponMac` |
| `PonSplitter` | `PON_Splitter` | operators |
| `PollingPon` | poller, ONUs, fibres and splitter | composition of `OltPolling`, `OnuMacCtlP`, `PonSplitter` |
| `AddressTable` | `VlanMACRelayUnitBase` | operators |
| `PonRelay` | handlers of the default relays | operators over `AddressTable` |
| `VlanRelay` | handlers of the VLAN bridge relays | operators over `PonRelay` |
| `OltRelay` | the OLT's default relay with its hosts | state machine over `PonRelay` |
| `OnuRelay` | either relay of an ONU with its hosts | state machine over `VlanRelay` |
| `VlanBridge` | the VLAN bridges of both ends and the ONU table | state machine over `VlanRelay` |
| `VlanNetConfig` | the address pools of `VlanNetConfig` | state machine |
| `ProofBasics` | facts about sequences, queues served round robin and induction that the proofs share | theorems |
| `EponRegistrationProofs`, `OnuMacCtlProofs`, `OltDownstreamProofs`, `OltPollingProofs`, `PollingPonProofs`, `OltRelayProofs`, `VlanNetConfigProofs` | proofs | theorems |
| `MC...` | instances for TLC, one for each state machine | |

A function of the code is an operator from record to record (or to a set of
results, where the code leaves the outcome open) with the function's name where
possible, composed as the code calls it. Each action is one handler with all the
calls it makes. Definitions marked `Mutant:` are faulty variants of the one that
follows; no specification uses them.

### EponRegistration

The variables of the OLT are the members of `OLTQPerLLiDBase` and its table:
`temptbl`, `pendingAck`, `onutbl`, `oltQueues` (`pon_queues`), and `oltTimers`,
the scheduled `OnuTOMsg` messages. Those of an ONU are the two self-messages
(`regSend`, `regTO`), `onuQueues` and `grant` (`start_reg` and `len_reg` of its
MAC control, without the shifts, which `OnuMacCtl` models). `up` and `down` are
the messages in flight.

| Action | Code |
|---|---|
| `OltRegReq` | `processMPCP`, case `MPCP_REGREQ` |
| `OltRegAck`, `OltLateRegAck` | case `MPCP_REGACK`: `doOnuRegistration`, `addONU`, `createONU_Q`, `DoUpstreamDBA`, `SendGateUpdates` |
| `OltRegTimeOut` | `handleRegTimeOut` |
| `OnuRegGate`, `OnuGate` | `MPCP_GATE` in the ONU's MAC control and queue module |
| `OnuSendRegReq` | `sendMPCPReg` |
| `OnuRegister` | case `MPCP_REGISTER` |
| `OnuRegTimeOut` | `handleMessage` for `regTOMsg` |

- REGREQ and REGACK are sent with `sendDirect` and no delay, so `up` is one
  queue. Downstream everything passes one FIFO of the OLT, and the ONUs are at
  different distances: one queue per ONU. That this is what the OLT does is
  what `OltDownstream` shows against `FifoChannel`.
- All timers of the OLT have the same duration, so they expire in the order in
  which they were set: `oltTimers` is a sequence. How long a timeout is compared
  with a round trip is left open, so every acknowledgment races its timeout.
- Nothing is lost: downstream the OLT is the only transmitter, so its frames
  cannot collide, and upstream the registration messages bypass the fibre.
- `regTOMsg` of an ONU may expire at any time after the request was sent.
- The OLT computes shares in `double` and truncates; the model uses exact
  quotients and truncates. A rounding error of `double` may take one more unit
  of 16 ns off a share.

### OnuMacCtlNP and OnuMacCtl

Time advances in ticks of one clock unit. `simT` is the simulation time as
`simTimeToNS16` returns it; the state of an ONU is a record with the members of
its three modules: registers, state, timers (ticks left or `None`), `tmp`
(`tmp_queue`), `q` (queues), `mac` (transmitter), and `link`, messages between
queue module and MAC control. Events that are due at the same tick happen in any
order: the simulation time is a thousand times finer, and the code adds offsets
(`5*pow(10, scaleExp)`) to some events and not to others. A tick never passes
over an event that is due. `granted` is history: the slot of the last GATE.

### NonPollingPon

The OLT is its table, divided again with `DoUpstreamDBA` at each registration,
which sends GATEs to all. The fibres have no delay, as in the networks of the
repository, and ONUs register before the first slot begins (`simT < RegTimeInt`).
Each ONU is an `OnuMacCtlNP` record. What is on the link between queue module and
MAC control has no delay; the events of an instant happen in any order, as above.

### OltPolling and PollingPon

All times are relative to now, so that the poller runs for ever in finitely many
states: `Tick` brings them one tick closer. The 32-bit registers of
`ONUMacCtl_P` do not wrap in this model, but their differences are unsigned
(`Period`). `Register` is `doOnuRegistration` with the DBA it calls,
`SendSingleGate` is `sendSingleGate`. `slot` and `since` are history.

In `PollingPon` a GATE passes the trunk, where it may wait for other frames
(`GateDelays`), the splitter, which copies it to all ports in turn, and the fibre
of its ONU (`Dist`). The networks of the repository have fibres without delay;
different distances make the model harder, not easier. The guard of 5 µs is a
constant. The remaining actions are the events of an ONU: `GateAtOnu`,
`FrameArrives`, `LinkDelivers`, `StartTx`, `ReportTime`, `MacTimer`, and
`FrameAtSplitter`. An error of the kernel (`scheduleAt` in the past, or of a
message that is scheduled) and `haltOn` collisions stop the system.

Whether the properties hold depends on times that the code leaves to the
configuration. `PollingTimes` and `GuardCovers` state sufficient conditions on
them; the theorems assume them, and TLC evaluates them for the instance it checks
(an `ASSUME` of `MCPollingPon`).

- The link within an ONU has no delay, but what is on it need not be delivered
  before the timers of the same instant: the kernel takes a timer that was set
  earlier first, and the clock of the code is finer than a tick, so that the model
  allows any order of `LinkDelivers`, `StartTx`, `ReportTime`, `MacTimer` and
  `GateAtOnu`. If a WAKE UP and `startTxMsg` fall into one instant, the frame may be
  asked for by the one and reach the MAC control after the other. When a
  `sendReport` comes in between, it sends the REPORT, and the frame makes the REPORT
  be sent once more and waits for the next slot. It is removed from `tmp_queue`
  (`ONUMacCtl_P.cc:413`) only if it waits there with `startTxMsg` not scheduled, and
  for that two frames must have been asked for.
- Two frames are asked for when two reach the queues of an ONU in the same instant
  (copies for several LLIDs, for example) in which a GATE's slot also begins: the
  WAKE UP of the first asks for one frame and `startTxMsg` for the other. The MAC
  control then weighs each alone, before the transmitter, behind a link of its own,
  has got the first. `FrameArrives` excludes it: a frame comes only when no WAKE UP
  is under way, that is, frames come one at a time. Without this guard TLC finds
  that `sendReport` takes the second frame, and what the model could say of slots
  would be wrong, as it gives a frame to the transmitter at once. This is a hazard
  without a property.
- After the test for the REPORT, what `startTxOnPON` does to a frame that is too
  long cannot be reached with a queue module that reports, and is not modelled.
- Upon a REPORT the OLT stores numbers that nothing reads; a REPORT is a frame
  with a length.

### Relays and address table

A table is a function from keys (address and link) to port and age. Ages are in
ticks; entries of the same tick may come in either order of time, so eviction
has a set of results. Three places of the code have outcomes the language does
not define, and the model has all of them:

- `getLLIDsForAddress` erases an entry and goes on from its iterator
  (`VlanMACRelayUnitBase.cc:216`): it may crash, skip anything or erase any of
  the aged entries (`Scan`; `crashed`).
- `handleFromLAN` looks up `ml` with `ml.llid` not set: any value of `Garbage`.
- `findLLiDsForServiceIndex` reads outside a vector for the index -1 or one equal
  to its size (`EPON_OLT_vlanBridgeRelay.cc:104`): any value of `Stray`, for each ONU
  one of its own.

In `VlanBridge` each ONU has a list of services of its own (`ServicesOf`), as each
has a `ServiceConfig`, and asks for one LLID more than that has. The OLT draws them
when it registers (`Draws`): any that are different within the ONU, 0 among them,
shared or not with another ONU. A frame with a VLAN keeps the control information
of the relay until `EPON_mac`, which writes its LLID in front; a frame without one
waits in the queue of the default LLID but leaves with the broadcast LLID
(`MacLink`), so that the OLT learns its source without an LLID. `ONU_QPL_RR` sends
frames as they are. Registration is one step here, and a host sends when its ONU is
registered. A copy for each of two ONUs with the same LLID counts as one.

The table file read at the start is represented by the empty table, as its parser
accepts no line but a comment (`VlanMACRelayUnitBase.cc:272`).

### VlanNetConfig

Addresses are numbers within the subnet of their VLAN. `HostAdded` and
`HostRemoved` go over all interfaces of a host; an interface that gets no address
ends the simulation, with the interfaces before it served (`failed`). Only VLANs
in use at the start have a stack.

## 3. Runs

| Run | Instance | Shows |
|---|---|---|
| `registration` | 3 ONUs with 1, 2 and 1 LLIDs, 2 LLID values, super slot of 15 units, fairness | type, the invariants of registration, refinement of `OnuAdmission` with its liveness, `EventuallySettled` |
| `onu_transmission` | 2 queues, 3 GATEs, 3 frames, 22 ticks, super slot of 8 | type, `NoLostWakeUp`, `IdleTimers`, `SendsInGrantedSlot` |
| `onu_clock_wrap` | the same, clock wraps at 21 | finding: waiting frames are forgotten at the wrap |
| `nonpolling_pon` | 2 ONUs, frames of which a slot holds one, 36 ticks, super slot of 16 | `NoCollision`, `SendsInSlotOfTable` |
| `nonpolling_overrun` | the same, frames of which a slot holds two | finding: collision |
| `olt_downstream` | 2 LLIDs, an unknown one, 5 frames | type, `IdleMeansDone`, `QueuesUnused`, refinement of `FifoChannel` |
| `polling` | 4 ONUs, guard 2, window 3 | type, `GrantsDisjoint`, `FairPolling`, `EveryOnuPolled` |
| `polling_pon` | 2 ONUs, guard 9, window 8, distances 0 and 1, GATEs up to 3 late, frames of 1 and 3 | type, `NoCollision`, `NoSchedulingError`, `SendsInAnnouncedSlot`, `NoFrameLost`, `FramesProgress` |
| `olt_relay` | 3 hosts, one of them mobile, table of 2, aging 3 | type, `Remembers`, `ReachesHost` |
| `vlan_bridge` | 3 services at the OLT, 2 ONUs with the first two and the first one of them, LLIDs of 0 and two more, 4 VLANs, a mobile host, table of 3, symmetry of the LLIDs other than 0 | `BridgeReaches`, `BridgeIsolates` |
| `onu_relay` | default and VLAN bridge relay, 2 local hosts, 1 remote one, table of 3 | type, `SendsUpstream` |
| `vlan_addresses` | 6 hosts, 2 VLANs of 4 addresses | type, `NoSharedAddress`, `FailsOnlyFull` |

The properties:

- `PendingAligned`: the two parallel vectors of pending requests and the timers
  that run correspond, index by index.
- `OneEntryPerOnu`: an ONU is in one table at most, once.
- `QueuesMatchTable`: queues and LLIDs of the table correspond; the division of
  the super slot counts the former and allocates by the latter.
- `SlotsContiguous`, `SlotsFillSuperSlot`: after any sequence of registrations
  the slots are one gapless division and end before the first comes round.
- `GrantsAnnounced`: the newest grant an admitted ONU has, or will get, is the
  one of the table.
- `LLIDsAgreed`: OLT and ONU agree on the LLIDs, also while the request pends.
- `AdmissionSpec`: the refinement. It says also that an admitted ONU stays
  admitted with the LLIDs it was offered, that every ONU gets one offer, and that
  every offer ends.
- `EventuallySettled`: in the end no timer runs, nothing pends, and every ONU of
  the table transmits in the slot of the table.
- `SendsInGrantedSlot`, `SendsInSlotOfTable`, `SendsInAnnouncedSlot`: a frame is
  handed to the transmitter only when it fits in what is left of the slot: that
  of the last GATE in this super slot or a later one, that of the OLT's table,
  or that which the poller has announced.
- `NoLostWakeUp`: with a slot and a frame waiting, a message or a timer is
  coming that will look at it. `FramesProgress` is the temporal form under
  polling: a waiting frame is followed by a transmission.
- `IdleTimers`: `startTxMsg` never fires in `TX_IDLE`, which is an error.
- `NoCollision`: no frame reaches the splitter while another passes.
- `NoSchedulingError`: no GATE makes `scheduleReport` schedule in the past or
  twice.
- `NoFrameLost`: what an ONU has accepted leaves by the line only, in whatever order
  the events of an instant come (frames come one at a time, section 2).
- `IdleMeansDone`: an idle OLT transmitter means nothing is left to send.
- `QueuesUnused`: the per-LLID queues of the OLT are never used.
- `GrantsDisjoint`, `FairPolling`, `EveryOnuPolled`: slots of different ONUs are
  a guard apart; between two GATEs to one ONU each other gets at most one;
  every registered ONU is polled again and again.
- `Remembers`: a key used within the aging time and among the `addressTableSize`
  last ones is in the table, whatever was evicted, aged or skipped.
- `ReachesHost`: a frame for a host that is never on the LAN is sent where it is,
  always if the host has never moved, else as soon as the table must remember
  it. (A host that moves from the LAN to an ONU can leave an entry for the LAN
  behind, which the relay takes for a loop and drops the frame.)
- `SendsUpstream`: a registered ONU never drops a frame for beyond the PON, nor
  sends it on a link its queues do not know.
- `BridgeReaches`: a VLAN that a host uses, at a position on which the lists of OLT
  and ONU agree, reaches it on the LLID at that position, whichever LLIDs were
  drawn; with the LLID 0 the host is cut off from the VLAN, as in the code.
- `BridgeIsolates`: a frame with a VLAN goes only on links behind which its
  destination has been seen within the aging time, whatever a read outside a list
  yields; without such a read, only on links at the position of its service.
- `NoSharedAddress`, `FailsOnlyFull`: no address twice in a VLAN; none is lost.

`TypeOK` of most modules also says something about bounds: that `nextQIndex` and
`nextONU` are indices, that the address table keeps its limit and its ages are
those of the last frames, that a queue keeps its limit.

### Findings

- `onu_clock_wrap`: `clockSync` (`ONUMacCtl_NP.cc:549`) cancels both timers at the
  wrap and schedules nothing, when `start_reg` is not behind the clock. In the state
  TX_OFF packets of the queues are only put in `tmp_queue`; another GATE, or the next
  wrap, starts the timers again.
- `nonpolling_overrun`: `EPON_mac` adds preamble and SFD twice (lines 99-100 and
  196-197), so that a frame occupies the line for 8 bytes more than counted. Two
  frames that fill a slot outgrow the gap between slots; the header of the
  splitter and the README of the repository say collisions should not happen.

What the models contain as the code has it, with no run of its own, and where
comments or documents of the repository say otherwise:

- Shares of a data rate limit are rounded up and multiplied, so that the total
  exceeds the limit (`OLTQPerLLiDBase.cc:420`).
- LLIDs are unique only within an ONU (`OLTQPerLLiDBase.cc:207`), so two ONUs may
  accept each other's unicast frames.
- The OLT's round robin never applies, as frames never enter its queues
  (`OLTQPerLLiDBase.cc:120`; this is what `QueuesUnused` shows).
- A polling slot may end without a REPORT: `sendReport` leaves it to `startTxMsg`,
  which may find no frame (`ONUMacCtl_P.cc:404`).
- A GATE later than `GateDelays` makes `scheduleAt` fail (`ONUMacCtl_P.cc:442`)
  where `scheduleStartTxMsgFromRegister` only warns.
- A frame longer than a slot blocks the queue under polling: the code that
  discards it comes after the test for the REPORT (`ONUMacCtl_P.cc:291`).
- With `ml.llid` not set, frames between hosts of one LAN may cross the PON or be
  sent back (`EPON_OLT_relayDefault.cc:98`, `EPON_ONU_vlanBridgeRelay.cc:32`).
- An entry without LLID ends the forwarding loop (`EPON_OLT_relayDefault.cc:122`),
  so that a known LLID gets no copy.
- The LLID 0 counts as none at the ONU (`EPON_ONU_vlanBridgeRelay.cc:59`), and
  LLIDs are drawn from a range that includes it: its frames go out with the
  broadcast LLID, and the OLT looks for the host behind the LLID 0 (`BridgeReaches`).
- A VLAN of no service, or one at a position equal to the number of an ONU's LLIDs,
  makes the OLT read outside a list (`EPON_OLT_vlanBridgeRelay.cc:104`), and the frame
  may leave on any link behind which its destination is known.
- `readAddressTable` rejects exactly the lines that have a port
  (`VlanMACRelayUnitBase.cc:272`).
- A VLAN not in use at the start gets no addresses (`VlanNetConfig.cc:139`), and
  the address freed last is given first, not the lowest (`:143`).

### Bounds

- Registration is finite: the registration GATE is sent once, so each ONU
  registers once. Three ONUs give every position of a vector (first, middle,
  last) to erase, and one with two LLIDs gives shares of different size. The
  super slot (240 ns, 15 units) is divided by 1 to 4 LLIDs, with remainder and
  without. Two LLID values are enough for ONUs to share one.
- `OnuMacCtl`: `MaxGates`, `MaxFrames` and `Horizon` (22 ticks, two super slots
  and three quarters) bound the run. Two frame sizes: one fits the shorter slot
  and one does not, so that it is discarded. A slot holds at most two frames, so
  the third one waits for the next. `QueueLimit` 1 makes queues drop. In
  `onu_transmission` the clock does not wrap (`ClockMax` 100); in
  `onu_clock_wrap` it wraps at 21, before the horizon, which therefore bounds
  nothing there.
- `NonPollingPon`: the horizon is two super slots, so that slots are shifted and
  the last slot of one super slot meets the first of the next. Frames: 5 of a
  slot of 7 ticks (one fits), or 3 (two fit).
- `OltPolling` and `PollingPon` have no horizon: they run for ever. `MaxOnus` bounds
  the registrations. The window holds two short frames and a REPORT, or one long
  frame. The guard of 9 ticks is the smallest for which `GuardCovers` holds: it
  covers the difference of the distances and what a transmitter is behind at the
  end of its slot, as 5 µs do in the code. With a guard of 6 or less TLC finds
  collisions, with 7 and 8 it finds none, so that the condition of the theorem
  asks for two ticks more than this instance needs.
- `OltDownstream`: 5 frames are enough for one on the line, two in `tmp_queue` and
  two on the link, of the same LLID or of different ones.
- Relays: tables of two or three entries for more keys than that, so that every
  learned key may evict another; an aging time of one to three ticks, so that
  entries age between any two frames. In `vlan_bridge` the LLIDs 0, `L1` and `L2` give
  each ONU the LLID 0 at each position or at none, and the two ONUs shared LLIDs or
  not; the VLAN 3 is at a position that is inside the list of one ONU and one past
  the end of the other's, the VLAN 4 is agreed on with one ONU and not with the
  other, and the VLAN 6 has no service. What a stray read yields is one of the LLIDs
  or another number; all other numbers are alike, as no key has them.
- `VlanNetConfig`: four addresses stand for 254; the hosts have more interfaces
  than there are addresses, so that a VLAN becomes full, one host has an
  interface in both VLANs and one has two in the same.

Deadlock is checked where the system never stops: `polling` and `polling_pon` (where
`NoSchedulingError` and `NoCollision` exclude the stop). Elsewhere time ends at a
horizon, the work is finite, or an error ends the simulation.

### Fairness

The simulation kernel executes every scheduled event and delivers every message.
`EponRegistration` assumes `WF_vars(Next)`, which is all that needs: it says that
the kernel goes on while anything is scheduled, and the system is finite.
`OltDownstream` assumes weak fairness of delivery on the link and of the end of a
transmission. `OltPolling` assumes it of `SendSingleGate` and `Tick`, `PollingPon` of
`Event` (what is due) and `Tick`. Nothing is assumed about hosts (`FrameArrives`,
`SendMpcp`), about registrations of the polling models (`Register`), about the
order of events or about choices of LLIDs. `Tick` waits for everything that is
due, so its fairness is only that simulated time goes on.

## 4. Proofs

Proved by TLAPS for every value of the constants, under the assumptions named
in the modules (`DBAParameters`, `RegistrationParameters`, `OnuParameters`, `OnuInputs`,
`DownstreamParameters`, `PollerParameters`, `PollingOnuParameters`,
`PonParameters`, `TableParameters`, `OltRelayParameters`,
`ConfiguratorParameters`), and those of the table:

| Theorem | States |
|---|---|
| `TypeCorrect` | `Spec => []TypeOK` (registration) |
| `PendingAlwaysAligned` | `Spec => []PendingAligned` |
| `SlotsAlwaysContiguous` | `Spec => []SlotsContiguous` |
| `AlwaysOneEntryPerOnu` | `Spec => []OneEntryPerOnu` |
| `LLIDsAlwaysAgreed` | `Spec => []LLIDsAgreed` |
| `GrantsAlwaysAnnounced` | `Spec => []GrantsAnnounced` |
| `QueuesAlwaysMatchTable` | `Spec => []QueuesMatchTable` |
| `SlotsAlwaysFillSuperSlot` | `Spec => []SlotsFillSuperSlot` |
| `RegistrationImplementsAdmission` | `EponRegistration` implements the safety part of `OnuAdmission` |
| `OnuTypes` | `Spec => []TypeOK` (ONU without polling) |
| `IdleTimersAgree` | `Spec => []IdleTimers` |
| `WakeUpsNeverLost` | `Spec => []NoLostWakeUp`, if the time stops before the clock wraps |
| `SendsOnlyInSlot` | `Spec => SendsInGrantedSlot`, if it stops two super slots and a slot before |
| `DownstreamTypes` | `Spec => []TypeOK` (downstream) |
| `IdleAlwaysMeansDone` | `Spec => []IdleMeansDone` (downstream) |
| `QueuesNeverUsed` | `Spec => []QueuesUnused` |
| `ImplementsChannel` | `OltDownstream` implements the safety part of `FifoChannel` |
| `PollerTypeCorrect` | `Spec => []TypeOK` (poller) |
| `GrantsAlwaysDisjoint` | `Spec => []GrantsDisjoint` |
| `PollingAlwaysFair` | `Spec => []FairPolling` |
| `PonTypeCorrect` | `Spec => []TypeOK` (PON under polling), with `PollingTimes` |
| `NeverSchedulesWrongly` | `Spec => []NoSchedulingError`, with `PollingTimes` |
| `SendsOnlyInAnnouncedSlot` | `Spec => SendsInAnnouncedSlot`, with `PollingTimes` |
| `FramesNeverCollide` | `Spec => []NoCollision`, with `PollingTimes` and `GuardCovers` |
| `FramesNeverLost` | `Spec => NoFrameLost`, with `PollingTimes` and `GuardCovers` |
| `TableTypeCorrect` | `Spec => []TypeOK` (OLT relay) |
| `TableRemembers` | `Spec => []Remembers` |
| `FramesReachHosts` | `Spec => []ReachesHost` |
| `ConfiguratorTypeCorrect` | `Spec => []TypeOK` (address pools) |
| `AddressesNeverShared` | `Spec => []NoSharedAddress` |
| `FailsOnlyWhenFull` | `Spec => []FailsOnlyFull` |

**Registration.** The inductive invariant `IInv` is

    TypeOK /\ PendingAligned /\ Len(oltQueues) >= 1 /\ SlotsContiguous /\ \A o : OneToken(o)

- `TypeOK` alone is not inductive: `OltRegTimeOut` erases from `temptbl` at the
  index it found in `pendingAck`, which is an index of `temptbl` because the two
  are aligned.
- `SlotsContiguous` is kept because the division is redone whenever the table
  changes. It needs that the divisor is not 0, i.e. that the broadcast queue is
  always there and each entry adds its queues (`CreateOltQueuesFacts`, whose
  recursion is unfolded with `IntervalRecursion` of `ProofBasics`).
- `OneEntryPerOnu` is far from inductive: a second REGREQ of an ONU in flight
  would break it. `OneToken` follows an ONU's turn through the system: the
  registration GATE on its way, `regSendMsg`, the REGREQ on its way, the entry
  of `temptbl`, the entry of `onutbl`; it is in one place at most.

**Admission** (also `EponRegistrationProofs`). `Staged` says where an ONU can be in its
registration, and all that is on its way in each stage: it `Asks` (registration
GATE, back-off or REGREQ), is `Answered` (REGISTER or REGACK, the request pending
or dropped by the OLT), is `TurnedAway`, or is `Entered`, with nothing but GATEs on its
way of which the last carries its entry's slot. It is stronger than `OneToken` in
that it names the content of the messages. `LLIDsAgreed` and `GrantsAnnounced` are
read off the stages, and each step of an ONU between them is a step of
`OnuAdmission` or a stutter. `QueuesMatchTable` compares queues with entries:
`QueuesOfTable` gives the number of queues as one more than the LLIDs of the
table. `SlotsFillSuperSlot` needs that the LLIDs of the entries add up to the
divisor, and that each truncated slot is within one unit of its share
(`SharesOfTable`); both sums are bounded with `IntervalInduction`, entry by entry.

**ONU without polling** (`OnuMacCtlProofs`). The functions of `ONUMacCtl_NP` are pure
operators, so each has a lemma that says what it returns: `StartTxFacts` shows that
`startTxOnPON` has five outcomes, `HigherLayerFacts` and `GateFacts` reduce the
handlers to it. On them rest three invariants.

- `IdleInv`: an idle ONU has at most one frame in its transmitter, no `startTxMsg`
  and a `stopTxMsg`. The first part makes it inductive: `startTxOnPON` keeps the state
  when it waits for a busy transmitter, and would otherwise set `startTxMsg` in
  `TX_IDLE`.
- `WakeInv`: an ONU that has a slot and no timer is asleep, and the queues have sent
  something or know that they are empty, so that the next frame makes them send
  a WAKE UP. The flag `allEmpty` and the state `sleep` are what `NoLostWakeUp` lacks.
- `SlotInv`: the registers hold the granted slot moved by whole super slots, at most
  two after the time (one by `startTxOnPON`, one more by `stopTxMsg`); `startTxMsg` is
  never before the start register, and an idle ONU is past it. So whenever
  `startTxOnPON` runs with a frame, the slot has begun, and its own check of what is
  left does the rest.

The last two hold while the clock registers do not wrap: `Horizon < ClockMax`, and
for `SlotInv` also `BeforeWrap`, that neither the time nor a granted slot comes
closer to the wrap than two super slots, so that no shift is reduced modulo
`ClockMax`. With 16 ns per tick the wrap is 68 seconds after the start; after it
`NoLostWakeUp` is false (`onu_clock_wrap`). `onu_transmission` is an instance of both.

**Downstream.** `DInv` says that what has been given is the concatenation of
what has been sent, what the MAC control holds and what is on the link, that an
idle MAC control holds nothing, and that the queues are empty. The
theorems follow from it; the refinement step reads the next message of the
channel off the concatenation.

**Poller.** `PInv` adds two facts to the type and to `GrantsDisjoint`. `Scheduled`:
while the poller runs, `expTxTime` is one guard and one window after the pending
GATE, the table holds the slot between them for `nextONU`, and every announced slot
ends before that GATE; so the slot that will be announced lies a guard after all
others. `Turns`: since a GATE to `j`, the ONUs that got one are exactly those between
`j` and `nextONU` around the table. `FairPolling` alone says nothing about whose turn
it is; `Turns` also holds when the table grows between the two, because new ONUs
are appended behind both indices.

**PON under polling** (`PollingPonProofs`). `PonInv` relates the poller, the GATEs on
their way and the ONUs. It needs no more than `PollingTimes`: a GATE arrives before
the slot it announces is over, early enough for its REPORT, and time differences
stay below half the range of the registers.

- `PollerInv` is the invariant of the poller, `Scheduled` and `GrantsDisjoint`.
- `Carried`: at most one GATE is on the trunk and one on each fibre, it brings the
  slot announced last to its ONU, it arrives in time, and the slot that this ONU
  had before is over. An ONU whose slot is not over has the one announced last.
- `Timed`: the timers of an ONU run only for such a slot and end within it, and a
  frame comes out of its queues only when the MAC control has asked for one (`Linked`).
- `Macs`: a transmitter holds at most two frames, because the MAC control waits
  while one is on the line and another behind it.

Each function of `ONUMacCtl_P` has a lemma that bounds what it returns, and they
add up to `OnuStep`: an event of an ONU leaves its transmitter alone, sends a REPORT,
or sends a frame that fits with the REPORT in what is left of the slot.
`SendsInAnnouncedSlot` is read off it.

`NoCollision` needs times on the line. `SafeInv(near, late)` adds to `PonInv`:

- `Passing`: every frame in a transmitter or on a fibre occupies an interval of time
  at the splitter. Those of one ONU follow each other (`LineOrdered`), those of
  two do not overlap (`LineApart`), and each is over before any slot begins that
  is announced to another ONU or will be announced by the next GATE (`LineClear`,
  `MacClear`, `BusyClear`).
- `LagBounded`: how far the transmitter is behind the MAC control. `EPON_mac` occupies
  the line for `Extra` ticks more than the MAC control counts, frame by frame; but
  a transmitter with one frame is behind by that frame at most. `late[e]` is a
  bound after `e` ticks of a slot.
- `PendingClear`: what is left of the last slot of an ONU is through when its next
  slot begins.

The step that matters is the one in which a frame is handed to the transmitter:
by `Timed` it fits in the slot, by `LagBounded` it is out at most `late[Window]` after
it, and by `GuardCovers` that, the REPORT and the longer fibre fit in the guard.

`GuardCovers` asks for some function `late`. In the code a tick of 16 ns is two
bytes, `Ifg` 6 ticks, `Extra` 4, a REPORT 36; the window of 0.5 ms has 31250 ticks and
the guard of 5 µs has 312. With frames of 64 and 1500 bytes
`late[e] = 46 + 4 * ceil(e / 765)` fulfils it, and ends at 210. For frames of 520 to
1120 bytes, roughly, it does not hold: a slot takes so many of them that
what they add exceeds the guard before it exceeds one frame. The theorem says
nothing about these.

`NoFrameLost` needs where the frames of an ONU wait. `Orderly`, on top of `SafeInv`,
says that `tmp_queue` has at most one frame, and that while the REPORT of a slot is
still scheduled a frame waits there only for a `startTxMsg` at which the transmitter
will be done. `Linked` says that a frame that was asked for finds `tmp_queue` empty,
in its slot, with a free transmitter or `Overtaken` by the REPORT of the same
instant; and that behind a WAKE UP no other frame can be asked for. So whatever
`sendReport` removes is the REPORT, and a frame that came after it waits for the
next slot. Each operation of an ONU has a lemma that the frames it holds
(`HeldBy`) become no fewer; only the end of a transmission takes one away. That
frames come one at a time is the guard of `FrameArrives`, which the theorem needs
(section 2). The guard between slots matters as well: with one ONU, a guard of 1 and
a window of 4, TLC finds a transmitter that is busy from the last slot when the
next begins. `startTxOnPON` waits for it with a frame in `tmp_queue`, and `sendReport`
removes that frame. `GuardCovers` with `PendingClear` excludes it.

**Address table.** `RInv` says that the table `Fits` the history `seen`: ages are those
of the history, the size keeps to the limit, and every kept key is there. The
step that matters is `UpdateFits`: if the table is full, the oldest entry is
removed; were it kept (among the `addressTableSize` most recent keys, the new one
included), all entries of the table and the new key would be as recent, one
more than the limit, which the cardinality of `AsRecent` excludes. For
`ReachesHost`, `Placed` says of a host that is never on the LAN that each of its
entries leads to the PON, with one of the LLIDs it has had; the entry of the
place where it is cannot be missing, by `Fits`.

**Address pools.** `CInv` says of each VLAN with a pool (`Sound`): stack and held
addresses are disjoint, without repetition, and together exactly the numbers 1 to
`numHosts` plus the length of the stack; the stack is empty only when `numHosts` is
`MaxHosts`; and before a failure each host has all its addresses or none
(`AllOrNone`). The address `numHosts+1` that is pushed on an empty stack is then
the first number not in the union. That a VLAN that fails is full follows by
cardinality. `HostAdded` runs over the interfaces of a host, by induction on
their number.

Not proved, only model-checked: the liveness properties and the fairness part of
the refinements (out of the prover's reach); `NoLostWakeUp` and
`SendsInGrantedSlot` at the wrap of the clock; and everything about `NonPollingPon`, `VlanBridge` and
`OnuRelay`. For the first of these the argument would be that of `PollingPon`, with
slots divided by a table instead of announced one by one and moved by whole super
slots at each ONU.

## 5. Not modelled, and why

- Reception in `EPON_mac`, which decapsulates and passes on; PAUSE frames, which
  nothing in the repository sends on the PON; its configuration with an external
  queue, which no network uses.
- The numbers in a REPORT: written to the ONU table and never read. Writing them
  (`handleMPCPReport`) exceeds `req[8]` with more than eight queues per ONU, more
  than any network has.
- Removal of ONUs (`ONUTable::removeONU`): nothing calls it.
- `VlanEtherEncap`, `VlanEtherMAC`, `VlanQ_mgmt_Per`, `VlanARP`: versions of modules
  of INET with no state of their own but parameters and counters.
- Parsing of `ServiceConfig`, statistics, display strings, NED files: no property
  depends on them. Priorities matter only as the order in which queues are
  inserted.
- Registrations in the middle of a super slot, with fibres of different length,
  in `NonPollingPon`; frames that reach an ONU in the same instant under polling,
  described under `PollingPon`; a start
  register that becomes 0 by a shift (`ONUMacCtl_NP.cc:572`); the growth of the
  OLT transmitter's queue under saturation. These are hazards without a property
  in `PROJECT.json`, with the reason.

## 6. Plan

1. Proofs: `SendsUpstream` of `OnuRelay`; `BridgeReaches` and `BridgeIsolates` of
   `VlanBridge`; `NoCollision` of `NonPollingPon`.
2. `NonPollingPon` with late registrations and fibres of different length.
3. The OLT's transmitter with `EponMac`, and the growth of its queue.
