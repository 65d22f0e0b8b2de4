---------------------------- MODULE VlanNetConfig ----------------------------
(***************************************************************************)
(* The address pools of VlanNetConfig.  Each VLAN has a subnet of its own  *)
(* with MaxHosts addresses; an address is its number in the subnet.  Hosts *)
(* are numbered in the order of the topology and have one or several       *)
(* interfaces, each in a VLAN.                                             *)
(***************************************************************************)
EXTENDS Integers, SequencesExt

CONSTANTS
  NumHosts,   \* the hosts that there may be
  Vlans,      \* the VLANs
  Ifs,        \* Ifs[h]: the VLANs of the interfaces of a host, loopback left out
  Starts,     \* the sets of hosts with which a simulation may start
  MaxHosts    \* 254: the addresses of a VLAN

Hosts == 1 .. NumHosts
Unset == 0   \* no address
None == -1   \* no VLAN

ASSUME ConfiguratorParameters ==
  /\ NumHosts \in Nat /\ MaxHosts \in Nat
  /\ Ifs \in [Hosts -> Seq(Vlans) \ {<<>>}]
  /\ Starts \subseteq SUBSET Hosts
  /\ None \notin Vlans

\* The interfaces, and the VLAN in the name of each (getVlanFromIfName).
Interfaces == UNION {{h} \X (1 .. Len(Ifs[h])) : h \in Hosts}
Vlan(i) == Ifs[i[1]][i[2]]

VARIABLES
  vlanInfo,   \* of each VLAN in use: number of hosts and stack of addresses, top last
  addr,       \* of each interface; Unset while its host is not there
  failed      \* the VLAN for which the configurator gave up, None before

vars == <<vlanInfo, addr, failed>>

\* The interfaces of VLAN v when the hosts of first are there.
Members(first, v) == {i \in Interfaces : i[1] \in first /\ Vlan(i) = v}
NotAfter(j, i) == j[1] < i[1] \/ (j[1] = i[1] /\ j[2] <= i[2])

\* assignAddresses numbers the interfaces of each VLAN in order.
Assigned(first) ==
  [i \in Interfaces |->
     IF i[1] \in first THEN Cardinality({j \in Members(first, Vlan(i)) : NotAfter(j, i)})
     ELSE Unset]

\* Mutant: the last address is not looked for.
NextAddressAlways(n) == <<n + 1>>

\* The address after the last one given, unless there is none any more.
NextAddress(n) == IF n = MaxHosts THEN <<>> ELSE <<n + 1>>

\* initializeNextAvailableIPz
Pools(first) ==
  [v \in {w \in Vlans : Members(first, w) # {}} |->
     LET n == Cardinality(Members(first, v))
     IN  [numHosts |-> n, nextAvailIP |-> NextAddress(n)]]

\* A simulation with too many nodes does not start.
Init ==
  /\ \E first \in Starts :
       /\ Cardinality(first) <= MaxHosts
       /\ \A v \in Vlans : Cardinality(Members(first, v)) <= MaxHosts
       /\ addr = Assigned(first)
       /\ vlanInfo = Pools(first)
  /\ failed = None

Present(h) == \A k \in 1 .. Len(Ifs[h]) : addr[<<h, k>>] # Unset

State == [info |-> vlanInfo, addr |-> addr, failed |-> failed]

\* Mutant: the stack is not refilled.
TakeOnly(e) == [numHosts |-> e.numHosts + 1, nextAvailIP |-> Front(e.nextAvailIP)]

\* The entry of a VLAN after its top address was taken.
Take(e) ==
  LET rest == Front(e.nextAvailIP)
  IN  [numHosts    |-> e.numHosts + 1,
       nextAvailIP |-> IF rest = <<>> THEN NextAddress(e.numHosts + 1) ELSE rest]

\* Mutant: the freed address is not remembered.
GiveLost(e, a) == [e EXCEPT !.numHosts = @ - 1]

\* The entry of a VLAN after address a was freed.
Give(e, a) == [numHosts |-> e.numHosts - 1, nextAvailIP |-> Append(e.nextAvailIP, a)]

\* hostAdded for interface i: the top of the stack, or an error, which ends it.
AddInterface(s, i) ==
  LET v == Vlan(i)
  IN  IF s.failed # None THEN s
      ELSE IF v \notin DOMAIN s.info \/ s.info[v].nextAvailIP = <<>>
      THEN [s EXCEPT !.failed = v]
      ELSE [s EXCEPT !.addr[i] = Last(s.info[v].nextAvailIP), !.info[v] = Take(@)]

\* hostRemoved for interface i.
RemoveInterface(s, i) ==
  [s EXCEPT !.info[Vlan(i)] = Give(@, s.addr[i]), !.addr[i] = Unset]

\* The state after the first k interfaces of a host.
Adding(h) ==
  LET after[k \in 0 .. Len(Ifs[h])] ==
        IF k = 0 THEN State ELSE AddInterface(after[k-1], <<h, k>>)
  IN  after
Removing(h) ==
  LET after[k \in 0 .. Len(Ifs[h])] ==
        IF k = 0 THEN State ELSE RemoveInterface(after[k-1], <<h, k>>)
  IN  after

Becomes(s) == vlanInfo' = s.info /\ addr' = s.addr /\ failed' = s.failed

HostAdded ==
  \E h \in Hosts : ~ Present(h) /\ Becomes(Adding(h)[Len(Ifs[h])])

HostRemoved ==
  \E h \in Hosts : Present(h) /\ Becomes(Removing(h)[Len(Ifs[h])])

Next == failed = None /\ (HostAdded \/ HostRemoved)

Spec == Init /\ [][Next]_vars

-----------------------------------------------------------------------------
(* Properties *)

Addresses == 1 .. MaxHosts
Holders(v) == {i \in Interfaces : Vlan(i) = v /\ addr[i] # Unset}

\* The shape of the state.
TypeOK ==
  /\ DOMAIN vlanInfo \subseteq Vlans
  /\ \A v \in DOMAIN vlanInfo :
       vlanInfo[v].numHosts \in 0 .. MaxHosts /\ vlanInfo[v].nextAvailIP \in Seq(Addresses)
  /\ addr \in [Interfaces -> Addresses \union {Unset}]
  /\ failed \in Vlans \union {None}

(***************************************************************************)
(* Two interfaces of a VLAN never have one address, in whatever order      *)
(* hosts come and go: the stack holds only free addresses, and the address *)
(* numHosts+1 that hostAdded pushes when it is empty is free too, although *)
(* hostRemoved has decreased numHosts before.                              *)
(***************************************************************************)
NoSharedAddress ==
  \A i, j \in Interfaces :
    Vlan(i) = Vlan(j) /\ i # j /\ addr[i] # Unset => addr[i] # addr[j]

(***************************************************************************)
(* hostAdded says "No more IPs" only when a VLAN has given away all its    *)
(* addresses: none is lost between the stack and the count.                *)
(***************************************************************************)
FailsOnlyFull ==
  failed \in DOMAIN vlanInfo => Cardinality(Holders(failed)) = MaxHosts
=============================================================================
