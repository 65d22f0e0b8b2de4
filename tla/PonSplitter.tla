---------------------------- MODULE PonSplitter ----------------------------
(***************************************************************************)
(* PON_Splitter: a frame that reaches the splitter while its output is     *)
(* busy is a collision.  The state is a record:                            *)
(*   busy  ticks until the frame on the uplink is through                  *)
(*   col   col_upstream                                                    *)
(*   down  the same as busy for each port towards an ONU                   *)
(***************************************************************************)
EXTENDS Integers, FiniteSets

CONSTANTS
  Ports,    \* the ports towards the ONUs, 0 .. n - 1
  HaltOn    \* haltOn: collisions at which the simulation is stopped

SplitterInit == [busy |-> 0, col |-> 0, down |-> [p \in Ports |-> 0]]

\* A frame of the given length from an ONU: forwarded, or counted and deleted.
Upstream(sp, air) ==
  IF sp.busy > 0
  THEN [sp EXCEPT !.col = IF @ < HaltOn THEN @ + 1 ELSE @]
  ELSE [sp EXCEPT !.busy = air]

Halted(sp) == sp.col >= HaltOn

\* A frame from the OLT is copied to the ports in turn, up to a busy one.
Reached(sp) == {p \in Ports : \A o \in Ports : o <= p => sp.down[o] = 0}
Downstream(sp, air) ==
  [sp EXCEPT !.down = [p \in Ports |-> IF p \in Reached(sp) THEN air ELSE sp.down[p]]]

Ahead(t) == IF t > 0 THEN t - 1 ELSE 0
SplitterTick(sp) ==
  [sp EXCEPT !.busy = Ahead(@), !.down = [p \in Ports |-> Ahead(sp.down[p])]]
=============================================================================
