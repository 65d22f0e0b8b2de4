--------------------------- MODULE MCVlanNetConfig ---------------------------
(***************************************************************************)
(* Six hosts in two VLANs of four addresses each; host 4 has an interface  *)
(* in both VLANs, host 5 two in the same one.                              *)
(***************************************************************************)
EXTENDS VlanNetConfig

McVlans == {10, 20}
McIfs == <<<<10>>, <<10>>, <<10>>, <<10, 20>>, <<20, 20>>, <<10>>>>

\* Both VLANs are in use from the start, VLAN 10 with half of its
\* addresses given or with all; or no host of VLAN 20 is there yet.
McStarts == {{1, 4}, {2, 3, 5}, {1, 2, 3, 4}, {1, 2}}
=============================================================================
