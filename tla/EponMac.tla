------------------------------ MODULE EponMac ------------------------------
(***************************************************************************)
(* The transmitter of EPON_mac: the frame on the line, the queue behind    *)
(* it, and the inter-frame gap before each frame.  Nothing in the model    *)
(* sends PAUSE frames, and the interface is up.                            *)
(*                                                                         *)
(* The state is a record:                                                  *)
(*   state  transmitState: "idle", "ifg" or "tx"                           *)
(*   queue  curTxFrame followed by txQueue.innerQueue                      *)
(*   timer  ticks until endIFGMsg or endTxMsg, None when idle              *)
(* A frame is a record whose air field is the time its bytes, preamble and *)
(* SFD take on the line as the MAC control counts them.                    *)
(***************************************************************************)
EXTENDS Integers, Sequences

CONSTANTS
  Ifg,      \* the inter-frame gap, in ticks
  Extra,    \* ticks of a frame that the MAC control does not count: the MAC
            \* adds preamble and SFD both when it encapsulates and when it sends
  None      \* no timer

MacInit == [state |-> "idle", queue |-> <<>>, timer |-> None]

\* getQueueLength: the frames behind the one on the line.
MacBacklog(mac) == IF mac.queue = <<>> THEN 0 ELSE Len(mac.queue) - 1

\* processFrameFromUpperLayer: queue the frame, and begin if idle.
MacSend(mac, f) ==
  [mac EXCEPT !.queue = Append(@, f),
              !.state = IF @ = "idle" THEN "ifg" ELSE @,
              !.timer = IF mac.state = "idle" THEN Ifg ELSE @]

\* handleEndIFGPeriod: transmit the next frame, or go idle.
MacEndIFG(mac) ==
  IF mac.queue = <<>>
  THEN MacInit
  ELSE [mac EXCEPT !.state = "tx", !.timer = Head(mac.queue).air + Extra]

\* handleEndTxPeriod: the frame is gone, the next gap begins.
MacEndTx(mac) ==
  [state |-> "ifg", queue |-> Tail(mac.queue), timer |-> Ifg]
=============================================================================
