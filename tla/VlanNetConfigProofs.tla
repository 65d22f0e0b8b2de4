------------------------- MODULE VlanNetConfigProofs -------------------------
(***************************************************************************)
(* Proofs about the address pools, for any hosts, VLANs and subnets.       *)
(***************************************************************************)
EXTENDS VlanNetConfig, ProofBasics

Entry == [numHosts : Nat, nextAvailIP : Seq(Addresses)]

(***************************************************************************)
(* The pool of a VLAN whose interfaces hold the addresses in H.  Stack and *)
(* holders together have the first addresses of the subnet, each once; how *)
(* many these are follows from the count and the height of the stack.      *)
(***************************************************************************)
PoolOK(e, H) ==
  LET stack == e.nextAvailIP
  IN  /\ e \in Entry /\ H \subseteq Addresses
      /\ \A k, l \in 1 .. Len(stack) : stack[k] = stack[l] => k = l
      /\ \A k \in 1 .. Len(stack) : stack[k] \notin H
      /\ e.numHosts + Len(stack) <= MaxHosts
      /\ \A a \in Addresses :
           a <= e.numHosts + Len(stack) <=> a \in H \/ \E k \in 1 .. Len(stack) : stack[k] = a
      /\ stack = <<>> => e.numHosts = MaxHosts

\* The front of a sequence that is not empty.
LEMMA FrontFacts ==
  ASSUME NEW T, NEW s \in Seq(T), s # <<>>
  PROVE  /\ Len(s) \in Nat \ {0}
         /\ Front(s) \in Seq(T) /\ Len(Front(s)) = Len(s) - 1
         /\ \A k \in 1 .. Len(s) - 1 : Front(s)[k] = s[k]
         /\ Last(s) = s[Len(s)] /\ Last(s) \in T
<1>1. Len(s) \in Nat \ {0}
  BY EmptySeq, LenProperties
<1>2. \A k \in 1 .. Len(s) - 1 : s[k] \in T
  BY <1>1, ElementOfSeq
<1> DEFINE m == Len(s) - 1
           f == SubSeq(s, 1, m)
<1>3. /\ f \in Seq(T) /\ Len(f) = IF 1 <= m THEN m - 1 + 1 ELSE 0
      /\ \A k \in 1 .. m - 1 + 1 : f[k] = s[1 + k - 1]
  <2>1. m \in Int /\ 1 \in Int /\ \A k \in 1 .. m : s[k] \in T
    BY <1>1, <1>2
  <2> HIDE DEF m
  <2> QED BY <2>1, SubSeqProperties
<1>4. Last(s) \in T
  BY <1>1, ElementOfSeq DEF Last
<1>5. Front(s) = f
  BY DEF Front
<1> HIDE DEF f
<1>6. /\ f \in Seq(T) /\ Len(f) = Len(s) - 1
      /\ \A k \in 1 .. Len(s) - 1 : f[k] = s[k]
  <2>1. \A k \in 1 .. m : 1 + k - 1 = k /\ k \in 1 .. m - 1 + 1
    BY <1>1
  <2>2. m \in Nat /\ (IF 1 <= m THEN m - 1 + 1 ELSE 0) = m
    <3> DEFINE n == Len(s)
    <3>1. n \in Nat /\ n # 0
      BY <1>1
    <3> HIDE DEF n
    <3>2. n - 1 \in Nat /\ (IF 1 <= n - 1 THEN (n - 1) - 1 + 1 ELSE 0) = n - 1
      BY <3>1
    <3> QED BY <3>2 DEF n
  <2> HIDE DEF m
  <2>3. Len(f) = m /\ \A k \in 1 .. m : f[k] = s[k]
    BY <1>3, <2>1, <2>2
  <2> QED BY <1>3, <2>3 DEF m
<1> QED BY <1>1, <1>4, <1>5, <1>6 DEF Last

\* Taking an address from a pool: it was free, and the pool stays sound.
LEMMA TakeFacts ==
  ASSUME NEW e, NEW H, PoolOK(e, H), e.nextAvailIP # <<>>
  PROVE  LET a == Last(e.nextAvailIP)
         IN  a \in Addresses /\ a \notin H /\ PoolOK(Take(e), H \union {a})
<1> DEFINE stack == e.nextAvailIP
           n == e.numHosts
           a == Last(stack)
           rest == Front(stack)
<1>1. e \in Entry /\ n \in Nat /\ stack \in Seq(Addresses) /\ MaxHosts \in Nat
  BY ConfiguratorParameters DEF PoolOK, Entry
<1>2. /\ Len(stack) \in Nat \ {0}
      /\ rest \in Seq(Addresses) /\ Len(rest) = Len(stack) - 1
      /\ \A k \in 1 .. Len(stack) - 1 : rest[k] = stack[k]
      /\ a = stack[Len(stack)] /\ a \in Addresses
  BY <1>1, FrontFacts
<1>3. /\ \A k, l \in 1 .. Len(stack) : stack[k] = stack[l] => k = l
      /\ \A k \in 1 .. Len(stack) : stack[k] \notin H
      /\ n + Len(stack) <= MaxHosts
      /\ \A b \in Addresses :
           b <= n + Len(stack) <=> b \in H \/ \E k \in 1 .. Len(stack) : stack[k] = b
      /\ H \subseteq Addresses
  BY DEF PoolOK
<1>4. a \notin H
  BY <1>2, <1>3
<1> HIDE DEF n, a, rest, stack
<1>5. CASE rest # <<>>
  <2>1. Take(e) = [numHosts |-> n + 1, nextAvailIP |-> rest]
    BY <1>5 DEF Take, n, rest, stack
  <2>2. Take(e) \in Entry /\ H \union {a} \subseteq Addresses
    BY <1>1, <1>2, <1>3, <2>1 DEF Entry
  <2>3. \A k, l \in 1 .. Len(rest) : rest[k] = rest[l] => k = l
    BY <1>2, <1>3
  <2>4. \A k \in 1 .. Len(rest) : rest[k] \notin H \union {a}
    <3>1. ASSUME NEW k \in 1 .. Len(rest) PROVE rest[k] = stack[k] /\ k # Len(stack) /\ k \in 1 .. Len(stack)
      BY <1>2
    <3> QED BY <1>2, <1>3, <3>1
  <2>5. n + 1 + Len(rest) = n + Len(stack)
    BY <1>1, <1>2
  <2>6. ASSUME NEW b \in Addresses
        PROVE  b <= n + 1 + Len(rest) <=> b \in H \union {a} \/ \E k \in 1 .. Len(rest) : rest[k] = b
    <3>1. (\E k \in 1 .. Len(stack) : stack[k] = b) <=> b = a \/ \E k \in 1 .. Len(rest) : rest[k] = b
      BY <1>2
    <3> QED BY <1>3, <2>5, <3>1
  <2>7. PoolOK(Take(e), H \union {a})
    <3>1. Take(e).numHosts = n + 1 /\ Take(e).nextAvailIP = rest
      BY <2>1
    <3>2. n + 1 + Len(rest) <= MaxHosts
      BY <1>3, <2>5
    <3> QED BY <1>5, <2>2, <2>3, <2>4, <2>6, <3>1, <3>2 DEF PoolOK
  <2> QED BY <1>2, <1>4, <2>7 DEF a, stack
<1>6. CASE rest = <<>>
  <2>1. Len(stack) = 1 /\ a = stack[1]
    <3> DEFINE m == Len(stack)
    <3>1. Len(rest) = 0
      BY <1>6
    <3>2. m \in Nat /\ m - 1 = 0
      BY <1>2, <3>1
    <3> HIDE DEF m
    <3>3. m = 1
      BY <3>2
    <3> QED BY <1>2, <3>3 DEF m
  <2>2. \A b \in Addresses : b <= n + 1 <=> b \in H \union {a}
    BY <1>3, <2>1
  <2>3. Take(e) = [numHosts |-> n + 1, nextAvailIP |-> NextAddress(n + 1)]
    BY <1>6 DEF Take, n, rest, stack
  <2>4. H \union {a} \subseteq Addresses /\ n + 1 <= MaxHosts
    BY <1>2, <1>3, <2>1
  <2>5. CASE n + 1 = MaxHosts
    <3>1. Take(e) = [numHosts |-> n + 1, nextAvailIP |-> <<>>]
      BY <2>3, <2>5 DEF NextAddress
    <3>2. Take(e) \in Entry
      BY <1>1, <3>1 DEF Entry
    <3>3. Take(e).numHosts = n + 1 /\ Take(e).nextAvailIP = <<>> /\ Len(<<>>) = 0
      BY <3>1
    <3>4. PoolOK(Take(e), H \union {a})
      BY <1>1, <2>2, <2>4, <2>5, <3>2, <3>3 DEF PoolOK
    <3> QED BY <1>2, <1>4, <3>4 DEF a, stack
  <2>6. CASE n + 1 # MaxHosts
    <3> DEFINE next == <<n + 2>>
    <3>1. n + 2 \in Addresses /\ n + 2 \notin H \union {a}
      BY <1>1, <2>2, <2>4, <2>6 DEF Addresses
    <3>2. next \in Seq(Addresses) /\ Len(next) = 1 /\ next[1] = n + 2 /\ next # <<>>
      BY <3>1
    <3>3. Take(e) = [numHosts |-> n + 1, nextAvailIP |-> next]
      BY <1>1, <2>3, <2>6 DEF NextAddress
    <3>4. Take(e) \in Entry
      BY <1>1, <3>2, <3>3 DEF Entry
    <3>5. ASSUME NEW b \in Addresses
          PROVE  b <= n + 1 + 1 <=> b \in H \union {a} \/ \E k \in 1 .. 1 : next[k] = b
      <4>1. b <= n + 1 + 1 <=> b <= n + 1 \/ b = n + 2
        BY <1>1 DEF Addresses
      <4> QED BY <2>2, <3>2, <4>1
    <3>6. n + 1 + 1 <= MaxHosts
      BY <1>1, <2>4, <2>6
    <3>7. \A k, l \in 1 .. 1 : k = l
      OBVIOUS
    <3> HIDE DEF next
    <3>8. Take(e).numHosts = n + 1 /\ Take(e).nextAvailIP = next
      BY <3>3
    <3>9. PoolOK(Take(e), H \union {a})
      <4>1. \A k, l \in 1 .. Len(next) : next[k] = next[l] => k = l
        BY <3>2, <3>7
      <4>2. \A k \in 1 .. Len(next) : next[k] \notin H \union {a}
        BY <3>1, <3>2
      <4>3. n + 1 + Len(next) <= MaxHosts
        BY <3>2, <3>6
      <4>4. \A b \in Addresses :
              b <= n + 1 + Len(next) <=> b \in H \union {a} \/ \E k \in 1 .. Len(next) : next[k] = b
        BY <3>2, <3>5
      <4> QED BY <2>4, <3>2, <3>4, <3>8, <4>1, <4>2, <4>3, <4>4 DEF PoolOK
    <3> QED BY <1>2, <1>4, <3>9 DEF a, stack
  <2> QED BY <2>5, <2>6
<1> QED BY <1>5, <1>6

\* A VLAN of which an address is held counts a host: the stack has the other
\* addresses at most.
LEMMA HeldIsCounted ==
  ASSUME NEW e, NEW H, PoolOK(e, H), NEW a \in H
  PROVE  e.numHosts >= 1
<1> DEFINE stack == e.nextAvailIP
           m == Len(stack)
<1>1. e \in Entry /\ e.numHosts \in Nat /\ stack \in Seq(Addresses) /\ m \in Nat
  BY LenProperties DEF PoolOK, Entry
<1>2. /\ \A k, l \in 1 .. m : stack[k] = stack[l] => k = l
      /\ \A k \in 1 .. m : stack[k] # a /\ stack[k] \in Addresses
      /\ \A b \in Addresses : b <= e.numHosts + m <=> b \in H \/ \E k \in 1 .. m : stack[k] = b
      /\ a \in Addresses
  BY <1>1, ElementOfSeq DEF PoolOK
<1> HIDE DEF m, stack
<1> SUFFICES ASSUME e.numHosts = 0 PROVE FALSE
  BY <1>1
<1> DEFINE left == (1 .. m) \ {a}
           f == [k \in 1 .. m |-> stack[k]]
<1>3. a \in 1 .. m
  BY <1>1, <1>2 DEF Addresses
<1>4. \A k \in 1 .. m : stack[k] \in left
  <2> SUFFICES ASSUME NEW k \in 1 .. m PROVE stack[k] \in left
    OBVIOUS
  <2>1. stack[k] \in Addresses /\ stack[k] # a /\ stack[k] <= 0 + m
    BY <1>2
  <2> QED BY <1>1, <2>1 DEF Addresses
<1>5. IsFiniteSet(1 .. m) /\ Cardinality(1 .. m) = m
  BY <1>1, FS_Interval
<1>6. IsFiniteSet(left) /\ Cardinality(left) = m - 1
  BY <1>3, <1>5, FS_RemoveElement
<1>7. f \in Injection(1 .. m, left)
  BY <1>2, <1>4 DEF Injection, IsInjective
<1> HIDE DEF left, f
<1>8. Cardinality(1 .. m) <= Cardinality(left)
  BY <1>6, <1>7, FS_Injection
<1> QED BY <1>1, <1>5, <1>6, <1>8

\* Giving an address back to a pool.
LEMMA GiveFacts ==
  ASSUME NEW e, NEW H, PoolOK(e, H), NEW a \in H
  PROVE  PoolOK(Give(e, a), H \ {a})
<1> DEFINE stack == e.nextAvailIP
           m == Len(stack)
           n == e.numHosts
           new == Append(stack, a)
<1>1. e \in Entry /\ n \in Nat /\ stack \in Seq(Addresses) /\ m \in Nat
      /\ a \in Addresses /\ H \subseteq Addresses
  BY LenProperties DEF PoolOK, Entry
<1>2. /\ \A k, l \in 1 .. m : stack[k] = stack[l] => k = l
      /\ \A k \in 1 .. m : stack[k] \notin H
      /\ n + m <= MaxHosts
      /\ \A b \in Addresses : b <= n + m <=> b \in H \/ \E k \in 1 .. m : stack[k] = b
  BY DEF PoolOK
<1>3. n >= 1
  BY HeldIsCounted
<1>4. /\ new \in Seq(Addresses) /\ Len(new) = m + 1
      /\ \A k \in 1 .. m : new[k] = stack[k]
      /\ new[m + 1] = a
  BY <1>1, AppendProperties
<1>5. Give(e, a).numHosts = n - 1 /\ Give(e, a).nextAvailIP = new /\ Give(e, a) \in Entry
  BY <1>1, <1>3, <1>4 DEF Give, Entry
<1> HIDE DEF stack, m, n, new
<1>6. new # <<>>
  <2> SUFFICES ASSUME new = <<>> PROVE FALSE
    OBVIOUS
  <2>1. Len(new) = 0
    OBVIOUS
  <2> QED BY <1>1, <1>4, <2>1
<1>7. \A k \in 1 .. m + 1 : k = m + 1 \/ k \in 1 .. m
  BY <1>1
<1>8. \A k, l \in 1 .. m + 1 : new[k] = new[l] => k = l
  BY <1>2, <1>4, <1>7
<1>9. \A k \in 1 .. m + 1 : new[k] \notin H \ {a}
  BY <1>2, <1>4, <1>7
<1>10. (n - 1) + (m + 1) = n + m
  BY <1>1
<1>11. ASSUME NEW b \in Addresses
       PROVE  b <= n + m <=> b \in H \ {a} \/ \E k \in 1 .. m + 1 : new[k] = b
  <2>1. (\E k \in 1 .. m + 1 : new[k] = b) <=> b = a \/ \E k \in 1 .. m : stack[k] = b
    <3>1. m + 1 \in 1 .. m + 1 /\ \A k \in 1 .. m : k \in 1 .. m + 1
      BY <1>1
    <3> QED BY <1>4, <1>7, <3>1
  <2> QED BY <1>2, <2>1
<1> QED BY <1>1, <1>2, <1>4, <1>5, <1>6, <1>8, <1>9, <1>10, <1>11 DEF PoolOK

\* All addresses of a VLAN with an empty stack are held.
LEMMA EmptyIsFull ==
  ASSUME NEW e, NEW H, PoolOK(e, H), e.nextAvailIP = <<>>
  PROVE  H = Addresses
<1>1. Len(e.nextAvailIP) = 0 /\ e.numHosts = MaxHosts /\ MaxHosts \in Nat
  BY ConfiguratorParameters DEF PoolOK
<1>2. \A a \in Addresses : a <= MaxHosts + 0 <=> a \in H \/ \E k \in 1 .. 0 : e.nextAvailIP[k] = a
  BY <1>1 DEF PoolOK
<1>3. \A a \in Addresses : a <= MaxHosts + 0
  BY <1>1 DEF Addresses
<1>4. Addresses \subseteq H
  BY <1>2, <1>3
<1> QED BY <1>4 DEF PoolOK

-----------------------------------------------------------------------------
(* One interface *)

Wide(D) ==
  [info   : [D -> [numHosts : Int, nextAvailIP : Seq(Int)]],
   addr   : [Interfaces -> Int],
   failed : Vlans \union {None}]

Held(s, v) == {s.addr[i] : i \in {j \in Interfaces : Vlan(j) = v /\ s.addr[j] # Unset}}

\* The states in which addresses are held once, by interfaces of VLANs in use,
\* and every pool is sound; D are the VLANs in use.
Sound(s, D) ==
  /\ s \in Wide(D) /\ D \subseteq Vlans
  /\ \A i \in Interfaces : s.addr[i] \in Addresses \union {Unset}
  /\ \A i, j \in Interfaces :
       Vlan(i) = Vlan(j) /\ i # j /\ s.addr[i] # Unset => s.addr[i] # s.addr[j]
  /\ \A i \in Interfaces : s.addr[i] # Unset => Vlan(i) \in D
  /\ \A v \in D : PoolOK(s.info[v], Held(s, v))
  /\ s.failed \in D => s.info[s.failed].nextAvailIP = <<>>

LEMMA InterfaceFacts ==
  /\ \A i \in Interfaces : \E h \in Hosts : \E k \in 1 .. Len(Ifs[h]) : i = <<h, k>>
  /\ \A h \in Hosts : \A k \in 1 .. Len(Ifs[h]) : <<h, k>> \in Interfaces
  /\ \A i \in Interfaces : Vlan(i) \in Vlans
  /\ \A h \in Hosts : Len(Ifs[h]) \in Nat
<1>1. \A h \in Hosts : Ifs[h] \in Seq(Vlans) /\ Len(Ifs[h]) \in Nat
  BY ConfiguratorParameters, LenProperties
<1>2. \A i \in Interfaces : \E h \in Hosts : \E k \in 1 .. Len(Ifs[h]) : i = <<h, k>>
  BY DEF Interfaces
<1>3. \A h \in Hosts : \A k \in 1 .. Len(Ifs[h]) : <<h, k>> \in Interfaces
  BY DEF Interfaces
<1>4. \A h \in Hosts : \A k \in 1 .. Len(Ifs[h]) : Ifs[h][k] \in Vlans
  BY <1>1, ElementOfSeq
<1> QED BY <1>1, <1>2, <1>3, <1>4 DEF Vlan

\* hostAdded for one interface.
LEMMA AddKeeps ==
  ASSUME NEW D, NEW s, Sound(s, D), NEW i \in Interfaces, s.addr[i] = Unset
  PROVE  LET t == AddInterface(s, i)
         IN  /\ Sound(t, D)
             /\ \A j \in Interfaces : j # i => t.addr[j] = s.addr[j]
             /\ t.failed = None => s.failed = None /\ t.addr[i] # Unset
<1> DEFINE t == AddInterface(s, i)
           v == Vlan(i)
<1>1. s \in Wide(D) /\ DOMAIN s.info = D /\ v \in Vlans
  BY InterfaceFacts DEF Sound, Wide
<1>2. CASE s.failed # None
  BY <1>2 DEF AddInterface
<1>3. CASE s.failed = None /\ (v \notin D \/ s.info[v].nextAvailIP = <<>>)
  <2>1. t = [s EXCEPT !.failed = v]
    BY <1>1, <1>3 DEF AddInterface
  <2>2. t \in Wide(D) /\ t.info = s.info /\ t.addr = s.addr /\ t.failed = v
    BY <1>1, <2>1 DEF Wide
  <2>3. \A w : Held(t, w) = Held(s, w)
    BY <2>2 DEF Held
  <2>4. v # None
    BY <1>1, ConfiguratorParameters
  <2> HIDE DEF t
  <2>5. Sound(t, D)
    BY <1>3, <2>2, <2>3 DEF Sound
  <2> QED BY <2>2, <2>4, <2>5 DEF t
<1>4. CASE s.failed = None /\ v \in D /\ s.info[v].nextAvailIP # <<>>
  <2> DEFINE e == s.info[v]
             a == Last(e.nextAvailIP)
  <2>1. PoolOK(e, Held(s, v))
    BY <1>4 DEF Sound
  <2>2. a \in Addresses /\ a \notin Held(s, v) /\ PoolOK(Take(e), Held(s, v) \union {a})
    BY <1>4, <2>1, TakeFacts
  <2>3. t = [s EXCEPT !.addr[i] = a, !.info[v] = Take(e)]
    BY <1>1, <1>4 DEF AddInterface
  <2>4. Take(e) \in [numHosts : Int, nextAvailIP : Seq(Int)] /\ a \in Int /\ a # Unset
    BY <2>2, ConfiguratorParameters DEF PoolOK, Entry, Addresses, Unset
  <2> HIDE DEF e, a
  <2> DEFINE info == [s.info EXCEPT ![v] = Take(e)]
             addrs == [s.addr EXCEPT ![i] = a]
  <2>5. /\ t \in Wide(D) /\ t.failed = s.failed
        /\ t.addr = addrs /\ t.info = info
    <3>1. info \in [D -> [numHosts : Int, nextAvailIP : Seq(Int)]] /\ addrs \in [Interfaces -> Int]
      BY <1>1, <2>4 DEF Wide
    <3>2. t = [info |-> info, addr |-> addrs, failed |-> s.failed]
      BY <1>1, <2>3 DEF Wide
    <3>3. s.failed \in Vlans \union {None}
      BY <1>1 DEF Wide
    <3> HIDE DEF t, info, addrs
    <3> QED BY <3>1, <3>2, <3>3 DEF Wide
  <2> HIDE DEF t
  <2>6. s.addr \in [Interfaces -> Int] /\ s.info \in [D -> [numHosts : Int, nextAvailIP : Seq(Int)]]
    BY <1>1 DEF Wide
  <2>7. /\ t.addr[i] = a
        /\ \A j \in Interfaces : j # i => t.addr[j] = s.addr[j]
    BY <2>5, <2>6
  <2>8. Held(t, v) = Held(s, v) \union {a}
    BY <2>4, <2>7 DEF Held
  <2>9. \A w \in D : w # v => Held(t, w) = Held(s, w)
    BY <2>7 DEF Held
  <2>10. \A w \in D : PoolOK(t.info[w], Held(t, w))
    <3> SUFFICES ASSUME NEW w \in D PROVE PoolOK(t.info[w], Held(t, w))
      OBVIOUS
    <3>1. CASE w = v
      <4>1. t.info[v] = Take(e)
        BY <1>4, <2>5, <2>6
      <4> QED BY <2>2, <2>8, <3>1, <4>1
    <3>2. CASE w # v
      <4>1. t.info[w] = s.info[w]
        BY <2>5, <2>6, <3>2
      <4> QED BY <2>9, <3>2, <4>1 DEF Sound
    <3> QED BY <3>1, <3>2
  <2>11. \A j \in Interfaces : j # i /\ Vlan(j) = v => s.addr[j] # a
    BY <2>2, <2>4 DEF Held
  <2>12. \A j, k \in Interfaces :
           Vlan(j) = Vlan(k) /\ j # k /\ t.addr[j] # Unset => t.addr[j] # t.addr[k]
    BY <2>7, <2>11 DEF Sound
  <2>13. /\ \A j \in Interfaces : t.addr[j] \in Addresses \union {Unset}
         /\ \A j \in Interfaces : t.addr[j] # Unset => Vlan(j) \in D
    BY <1>4, <2>2, <2>7 DEF Sound
  <2>14. t.failed \notin D
    BY <1>4, <2>5, ConfiguratorParameters DEF Sound
  <2>15. Sound(t, D)
    BY <2>5, <2>10, <2>12, <2>13, <2>14 DEF Sound
  <2> QED BY <1>4, <2>4, <2>5, <2>7, <2>15 DEF t
<1> QED BY <1>2, <1>3, <1>4

\* hostRemoved for one interface.
LEMMA RemoveKeeps ==
  ASSUME NEW D, NEW s, Sound(s, D), s.failed = None, NEW i \in Interfaces, s.addr[i] # Unset
  PROVE  LET t == RemoveInterface(s, i)
         IN  /\ Sound(t, D)
             /\ \A j \in Interfaces : j # i => t.addr[j] = s.addr[j]
             /\ t.addr[i] = Unset /\ t.failed = None
<1> DEFINE t == RemoveInterface(s, i)
           v == Vlan(i)
           e == s.info[v]
           a == s.addr[i]
<1>1. s \in Wide(D) /\ DOMAIN s.info = D /\ v \in D
  BY InterfaceFacts DEF Sound, Wide
<1>2. PoolOK(e, Held(s, v)) /\ a \in Held(s, v)
  BY <1>1 DEF Sound, Held
<1>3. PoolOK(Give(e, a), Held(s, v) \ {a})
  BY <1>2, GiveFacts
<1>4. t = [s EXCEPT !.info[v] = Give(e, a), !.addr[i] = Unset]
  BY <1>1 DEF RemoveInterface
<1> HIDE DEF e, a
<1>5. Give(e, a) \in [numHosts : Int, nextAvailIP : Seq(Int)] /\ Unset \in Int
  <2>1. Give(e, a) \in Entry
    BY <1>3 DEF PoolOK
  <2>2. Addresses \subseteq Int
    BY ConfiguratorParameters DEF Addresses
  <2>3. \A q \in Seq(Addresses) : q \in Seq(Int)
    BY <2>2, SeqMonotonic
  <2> QED BY <2>1, <2>3 DEF Entry, Unset
<1> DEFINE info == [s.info EXCEPT ![v] = Give(e, a)]
           addrs == [s.addr EXCEPT ![i] = Unset]
<1>6. /\ t \in Wide(D) /\ t.failed = s.failed
      /\ t.addr = addrs /\ t.info = info
  <2>1. info \in [D -> [numHosts : Int, nextAvailIP : Seq(Int)]] /\ addrs \in [Interfaces -> Int]
    BY <1>1, <1>5 DEF Wide
  <2>2. t = [info |-> info, addr |-> addrs, failed |-> s.failed]
    BY <1>1, <1>4 DEF Wide
  <2>3. s.failed \in Vlans \union {None}
    BY <1>1 DEF Wide
  <2> HIDE DEF t, info, addrs
  <2> QED BY <2>1, <2>2, <2>3 DEF Wide
<1> HIDE DEF t
<1>7. s.addr \in [Interfaces -> Int] /\ s.info \in [D -> [numHosts : Int, nextAvailIP : Seq(Int)]]
  BY <1>1 DEF Wide
<1>8. /\ t.addr[i] = Unset
      /\ \A j \in Interfaces : j # i => t.addr[j] = s.addr[j]
  BY <1>6, <1>7
<1>9. Held(t, v) = Held(s, v) \ {a}
  <2>1. \A j \in Interfaces : j # i /\ Vlan(j) = v => s.addr[j] # a
    BY DEF Sound, a
  <2> QED BY <1>8, <2>1 DEF Held, a
<1>10. \A w \in D : w # v => Held(t, w) = Held(s, w)
  BY <1>8 DEF Held
<1>11. \A w \in D : PoolOK(t.info[w], Held(t, w))
  <2> SUFFICES ASSUME NEW w \in D PROVE PoolOK(t.info[w], Held(t, w))
    OBVIOUS
  <2>1. CASE w = v
    <3>1. t.info[v] = Give(e, a)
      BY <1>1, <1>6, <1>7
    <3> QED BY <1>3, <1>9, <2>1, <3>1
  <2>2. CASE w # v
    <3>1. t.info[w] = s.info[w]
      BY <1>6, <1>7, <2>2
    <3> QED BY <1>10, <2>2, <3>1 DEF Sound
  <2> QED BY <2>1, <2>2
<1>12. /\ \A j, k \in Interfaces :
            Vlan(j) = Vlan(k) /\ j # k /\ t.addr[j] # Unset => t.addr[j] # t.addr[k]
       /\ \A j \in Interfaces : t.addr[j] \in Addresses \union {Unset}
       /\ \A j \in Interfaces : t.addr[j] # Unset => Vlan(j) \in D
  BY <1>8 DEF Sound
<1>13. t.failed \notin D
  BY <1>6, ConfiguratorParameters DEF Sound
<1>14. Sound(t, D)
  BY <1>6, <1>11, <1>12, <1>13 DEF Sound
<1> QED BY <1>6, <1>8, <1>14 DEF t

-----------------------------------------------------------------------------
(* One host *)

\* AddInterface and RemoveInterface are total.
LEMMA StepsAreTotal ==
  ASSUME NEW D, D \subseteq Vlans, NEW s \in Wide(D), NEW i \in Interfaces
  PROVE  AddInterface(s, i) \in Wide(D) /\ RemoveInterface(s, i) \in Wide(D)
<1> DEFINE E == [numHosts : Int, nextAvailIP : Seq(Int)]
           v == Vlan(i)
<1>1. /\ s.info \in [D -> E] /\ s.addr \in [Interfaces -> Int] /\ s.failed \in Vlans \union {None}
      /\ DOMAIN s.info = D /\ v \in Vlans
      /\ s = [info |-> s.info, addr |-> s.addr, failed |-> s.failed]
  BY InterfaceFacts DEF Wide
<1>2. ASSUME NEW e \in E, e.nextAvailIP # <<>>
      PROVE  Take(e) \in E /\ Last(e.nextAvailIP) \in Int
  <2>1. /\ e.numHosts \in Int /\ e.nextAvailIP \in Seq(Int)
        /\ Front(e.nextAvailIP) \in Seq(Int) /\ Last(e.nextAvailIP) \in Int
    BY <1>2, FrontFacts
  <2>2. NextAddress(e.numHosts + 1) \in Seq(Int)
    BY <2>1 DEF NextAddress
  <2> QED BY <2>1, <2>2 DEF Take
<1>3. ASSUME NEW e \in E, NEW a \in Int PROVE Give(e, a) \in E
  <2>1. e.numHosts \in Int /\ Append(e.nextAvailIP, a) \in Seq(Int)
    BY AppendProperties
  <2> QED BY <2>1 DEF Give
<1> HIDE DEF E
<1>4. AddInterface(s, i) \in Wide(D)
  <2>1. CASE s.failed # None
    BY <2>1 DEF AddInterface
  <2>2. CASE s.failed = None /\ (v \notin D \/ s.info[v].nextAvailIP = <<>>)
    <3>1. AddInterface(s, i) = [info |-> s.info, addr |-> s.addr, failed |-> v]
      BY <1>1, <2>2 DEF AddInterface
    <3> QED BY <1>1, <3>1 DEF Wide, E
  <2>3. CASE s.failed = None /\ v \in D /\ s.info[v].nextAvailIP # <<>>
    <3> DEFINE info == [s.info EXCEPT ![v] = Take(s.info[v])]
               addrs == [s.addr EXCEPT ![i] = Last(s.info[v].nextAvailIP)]
    <3>1. s.info[v] \in E
      BY <1>1, <2>3
    <3>2. info \in [D -> E] /\ addrs \in [Interfaces -> Int]
      BY <1>1, <1>2, <2>3, <3>1
    <3>3. AddInterface(s, i) = [info |-> info, addr |-> addrs, failed |-> s.failed]
      BY <1>1, <2>3 DEF AddInterface
    <3> HIDE DEF info, addrs
    <3> QED BY <1>1, <3>2, <3>3 DEF Wide, E
  <2> QED BY <2>1, <2>2, <2>3
<1>5. RemoveInterface(s, i) \in Wide(D)
  <2> DEFINE e == Give(s.info[v], s.addr[i])
             info == [s.info EXCEPT ![v] = e]
             addrs == [s.addr EXCEPT ![i] = Unset]
  <2>1. info \in [D -> E]
    <3>1. CASE v \in D
      <4>1. e \in E
        BY <1>1, <1>3, <3>1
      <4> HIDE DEF e
      <4> QED BY <1>1, <4>1
    <3>2. CASE v \notin D
      <4> HIDE DEF e
      <4> QED BY <1>1, <3>2
    <3> QED BY <3>1, <3>2
  <2>2. addrs \in [Interfaces -> Int]
    BY <1>1 DEF Unset
  <2>3. RemoveInterface(s, i) = [info |-> info, addr |-> addrs, failed |-> s.failed]
    <3>1. RemoveInterface(s, i) = [s EXCEPT !.info[v] = e, !.addr[i] = Unset]
      BY DEF RemoveInterface
    <3> HIDE DEF e, v
    <3> QED BY <1>1, <3>1
  <2> HIDE DEF info, addrs
  <2> QED BY <1>1, <2>1, <2>2, <2>3 DEF Wide, E
<1> QED BY <1>4, <1>5

\* Adding a host is adding its interfaces one after the other.
LEMMA AddingFacts ==
  ASSUME NEW D, D \subseteq Vlans, State \in Wide(D), NEW h \in Hosts
  PROVE  /\ Adding(h)[0] = State
         /\ \A k \in 1 .. Len(Ifs[h]) : Adding(h)[k] = AddInterface(Adding(h)[k-1], <<h, k>>)
<1> DEFINE n == Len(Ifs[h])
           Rec(f) == f = [k \in 0 .. n |-> IF k = 0 THEN State ELSE AddInterface(f[k-1], <<h, k>>)]
           step == [k \in 1 .. n |-> [s \in Wide(D) |-> AddInterface(s, <<h, k>>)]]
<1>1. n \in Nat /\ \A k \in 1 .. n : <<h, k>> \in Interfaces
  BY InterfaceFacts
<1>2. Adding(h) = CHOOSE f : Rec(f)
  BY DEF Adding
<1>3. \E f : Rec(f)
  <2>1. step \in Steps(n, Wide(D))
    BY <1>1, StepsAreTotal DEF Steps
  <2>2. PICK f \in [0 .. n -> Wide(D)] :
          f[0] = State /\ \A k \in 1 .. n : f[k] = step[k][f[k-1]]
    <3> HIDE DEF step, n
    <3>1. PICK f : f \in Runs(n, Wide(D), State, step)
      BY <1>1, <2>1, IntervalRecursion
    <3> QED BY <3>1 DEF Runs
  <2>3. ASSUME NEW k \in 1 .. n PROVE f[k] = AddInterface(f[k-1], <<h, k>>)
    <3>1. k - 1 \in 0 .. n /\ f[k-1] \in Wide(D)
      BY <1>1, <2>2
    <3>2. step[k] = [s \in Wide(D) |-> AddInterface(s, <<h, k>>)]
      OBVIOUS
    <3> HIDE DEF step
    <3> QED BY <2>2, <3>1, <3>2
  <2>4. Rec(f)
    <3> SUFFICES ASSUME NEW k \in 0 .. n
                 PROVE  f[k] = IF k = 0 THEN State ELSE AddInterface(f[k-1], <<h, k>>)
      BY <2>2
    <3> QED BY <1>1, <2>2, <2>3
  <2> QED BY <2>4
<1>4. Rec(Adding(h))
  BY <1>2, <1>3
<1> QED BY <1>1, <1>4

\* Removing a host is removing its interfaces one after the other.
LEMMA RemovingFacts ==
  ASSUME NEW D, D \subseteq Vlans, State \in Wide(D), NEW h \in Hosts
  PROVE  /\ Removing(h)[0] = State
         /\ \A k \in 1 .. Len(Ifs[h]) : Removing(h)[k] = RemoveInterface(Removing(h)[k-1], <<h, k>>)
<1> DEFINE n == Len(Ifs[h])
           Rec(f) == f = [k \in 0 .. n |-> IF k = 0 THEN State ELSE RemoveInterface(f[k-1], <<h, k>>)]
           step == [k \in 1 .. n |-> [s \in Wide(D) |-> RemoveInterface(s, <<h, k>>)]]
<1>1. n \in Nat /\ \A k \in 1 .. n : <<h, k>> \in Interfaces
  BY InterfaceFacts
<1>2. Removing(h) = CHOOSE f : Rec(f)
  BY DEF Removing
<1>3. \E f : Rec(f)
  <2>1. step \in Steps(n, Wide(D))
    BY <1>1, StepsAreTotal DEF Steps
  <2>2. PICK f \in [0 .. n -> Wide(D)] :
          f[0] = State /\ \A k \in 1 .. n : f[k] = step[k][f[k-1]]
    <3> HIDE DEF step, n
    <3>1. PICK f : f \in Runs(n, Wide(D), State, step)
      BY <1>1, <2>1, IntervalRecursion
    <3> QED BY <3>1 DEF Runs
  <2>3. ASSUME NEW k \in 1 .. n PROVE f[k] = RemoveInterface(f[k-1], <<h, k>>)
    <3>1. k - 1 \in 0 .. n /\ f[k-1] \in Wide(D)
      BY <1>1, <2>2
    <3>2. step[k] = [s \in Wide(D) |-> RemoveInterface(s, <<h, k>>)]
      OBVIOUS
    <3> HIDE DEF step
    <3> QED BY <2>2, <3>1, <3>2
  <2>4. Rec(f)
    <3> SUFFICES ASSUME NEW k \in 0 .. n
                 PROVE  f[k] = IF k = 0 THEN State ELSE RemoveInterface(f[k-1], <<h, k>>)
      BY <2>2
    <3> QED BY <1>1, <2>2, <2>3
  <2> QED BY <2>4
<1>4. Rec(Removing(h))
  BY <1>2, <1>3
<1> QED BY <1>1, <1>4

\* Between two events a host has addresses for all its interfaces or for none.
AllOrNone == \A h \in Hosts :
               \/ \A k \in 1 .. Len(Ifs[h]) : addr[<<h, k>>] # Unset
               \/ \A k \in 1 .. Len(Ifs[h]) : addr[<<h, k>>] = Unset

CInv == Sound(State, DOMAIN vlanInfo) /\ (failed = None => AllOrNone)

LEMMA StateFacts ==
  /\ State.info = vlanInfo /\ State.addr = addr /\ State.failed = failed
  /\ \A s : Becomes(s) => State' = [info |-> s.info, addr |-> s.addr, failed |-> s.failed]
BY DEF State, Becomes

\* hostAdded: one interface after the other, until one gets no address.
LEMMA AddedKeeps == CInv /\ failed = None /\ HostAdded => CInv'
<1> SUFFICES ASSUME CInv, failed = None,
                    NEW h \in Hosts, ~ Present(h), Becomes(Adding(h)[Len(Ifs[h])])
             PROVE  CInv'
  BY DEF HostAdded
<1> DEFINE D == DOMAIN vlanInfo
           n == Len(Ifs[h])
           after == Adding(h)
           t == after[n]
<1>1. n \in Nat /\ \A k \in 1 .. n : <<h, k>> \in Interfaces
  BY InterfaceFacts
<1>2. Sound(State, D) /\ State.failed = None /\ \A k \in 1 .. n : State.addr[<<h, k>>] = Unset
  BY StateFacts DEF CInv, AllOrNone, Present
<1>3. after[0] = State /\ \A k \in 1 .. n : after[k] = AddInterface(after[k-1], <<h, k>>)
  BY <1>2, AddingFacts DEF Sound
<1> HIDE DEF after, n, D
<1> DEFINE T == {k \in 0 .. n :
                   /\ Sound(after[k], D)
                   /\ \A j \in Interfaces : j[1] # h => after[k].addr[j] = State.addr[j]
                   /\ \A m \in k + 1 .. n : after[k].addr[<<h, m>>] = Unset
                   /\ after[k].failed = None => \A m \in 1 .. k : after[k].addr[<<h, m>>] # Unset}
<1>4. 0 \in T
  BY <1>1, <1>2, <1>3
<1>5. ASSUME NEW k \in 1 .. n, k - 1 \in T PROVE k \in T
  <2> DEFINE s == after[k-1]
             i == <<h, k>>
  <2>1. /\ Sound(s, D)
        /\ \A j \in Interfaces : j[1] # h => s.addr[j] = State.addr[j]
        /\ \A m \in k .. n : s.addr[<<h, m>>] = Unset
        /\ s.failed = None => \A m \in 1 .. k - 1 : s.addr[<<h, m>>] # Unset
    BY <1>1, <1>5
  <2>2. i \in Interfaces /\ s.addr[i] = Unset /\ after[k] = AddInterface(s, i)
    BY <1>1, <1>3, <2>1
  <2> HIDE DEF s
  <2>3. /\ Sound(after[k], D)
        /\ \A j \in Interfaces : j # i => after[k].addr[j] = s.addr[j]
        /\ after[k].failed = None => s.failed = None /\ after[k].addr[i] # Unset
    BY <2>1, <2>2, AddKeeps
  <2>4. \A j \in Interfaces : j[1] # h => j # i
    OBVIOUS
  <2>5. \A m \in 1 .. n : m # k => <<h, m>> # i /\ <<h, m>> \in Interfaces
    BY <1>1
  <2>6. \A m \in k + 1 .. n : m \in k .. n /\ m \in 1 .. n /\ m # k
    BY <1>1
  <2>7. \A m \in 1 .. k : m = k \/ (m \in 1 .. k - 1 /\ m \in 1 .. n /\ m # k)
    BY <1>1
  <2>8. \A j \in Interfaces : j[1] # h => after[k].addr[j] = State.addr[j]
    BY <2>1, <2>3, <2>4
  <2>9. \A m \in k + 1 .. n : after[k].addr[<<h, m>>] = Unset
    BY <2>1, <2>3, <2>5, <2>6
  <2>10. after[k].failed = None => \A m \in 1 .. k : after[k].addr[<<h, m>>] # Unset
    BY <2>1, <2>3, <2>5, <2>7
  <2> QED BY <1>1, <2>3, <2>8, <2>9, <2>10
<1> HIDE DEF T
<1>6. \A k \in 0 .. n : k \in T
  BY <1>1, <1>4, <1>5, IntervalInduction
<1>7. n \in T
  BY <1>1, <1>6
<1>8. /\ Sound(t, D)
      /\ \A j \in Interfaces : j[1] # h => t.addr[j] = addr[j]
      /\ t.failed = None => \A m \in 1 .. n : t.addr[<<h, m>>] # Unset
  BY <1>7, StateFacts DEF T
<1>9. State' = t /\ vlanInfo' = t.info /\ addr' = t.addr /\ failed' = t.failed
  <2>1. t = [info |-> t.info, addr |-> t.addr, failed |-> t.failed]
    BY <1>8 DEF Sound, Wide
  <2> HIDE DEF t
  <2>2. Becomes(t)
    BY DEF t, after, n
  <2> QED BY <2>1, <2>2, StateFacts DEF Becomes
<1> HIDE DEF t
<1>10. DOMAIN vlanInfo' = D
  BY <1>8, <1>9 DEF Sound, Wide
<1>11. ASSUME failed' = None PROVE AllOrNone'
  <2> SUFFICES ASSUME NEW g \in Hosts
               PROVE  \/ \A k \in 1 .. Len(Ifs[g]) : addr'[<<g, k>>] # Unset
                      \/ \A k \in 1 .. Len(Ifs[g]) : addr'[<<g, k>>] = Unset
    BY DEF AllOrNone
  <2>1. CASE g = h
    BY <1>8, <1>9, <1>11, <2>1 DEF n
  <2>2. CASE g # h
    <3>1. \A k \in 1 .. Len(Ifs[g]) : addr'[<<g, k>>] = addr[<<g, k>>]
      <4>1. \A k \in 1 .. Len(Ifs[g]) : <<g, k>> \in Interfaces /\ <<g, k>>[1] # h
        BY <2>2, InterfaceFacts
      <4> QED BY <1>8, <1>9, <4>1
    <3> QED BY <3>1 DEF CInv, AllOrNone
  <2> QED BY <2>1, <2>2
<1> QED BY <1>8, <1>9, <1>10, <1>11 DEF CInv

\* hostRemoved: every interface gives its address back.
LEMMA RemovedKeeps == CInv /\ failed = None /\ HostRemoved => CInv'
<1> SUFFICES ASSUME CInv, failed = None,
                    NEW h \in Hosts, Present(h), Becomes(Removing(h)[Len(Ifs[h])])
             PROVE  CInv'
  BY DEF HostRemoved
<1> DEFINE D == DOMAIN vlanInfo
           n == Len(Ifs[h])
           after == Removing(h)
           t == after[n]
<1>1. n \in Nat /\ \A k \in 1 .. n : <<h, k>> \in Interfaces
  BY InterfaceFacts
<1>2. Sound(State, D) /\ State.failed = None /\ \A k \in 1 .. n : State.addr[<<h, k>>] # Unset
  BY StateFacts DEF CInv, Present
<1>3. after[0] = State /\ \A k \in 1 .. n : after[k] = RemoveInterface(after[k-1], <<h, k>>)
  BY <1>2, RemovingFacts DEF Sound
<1> HIDE DEF after, n, D
<1> DEFINE T == {k \in 0 .. n :
                   /\ Sound(after[k], D) /\ after[k].failed = None
                   /\ \A j \in Interfaces : j[1] # h => after[k].addr[j] = State.addr[j]
                   /\ \A m \in k + 1 .. n : after[k].addr[<<h, m>>] # Unset
                   /\ \A m \in 1 .. k : after[k].addr[<<h, m>>] = Unset}
<1>4. 0 \in T
  BY <1>1, <1>2, <1>3
<1>5. ASSUME NEW k \in 1 .. n, k - 1 \in T PROVE k \in T
  <2> DEFINE s == after[k-1]
             i == <<h, k>>
  <2>1. /\ Sound(s, D) /\ s.failed = None
        /\ \A j \in Interfaces : j[1] # h => s.addr[j] = State.addr[j]
        /\ \A m \in k .. n : s.addr[<<h, m>>] # Unset
        /\ \A m \in 1 .. k - 1 : s.addr[<<h, m>>] = Unset
    BY <1>1, <1>5
  <2>2. i \in Interfaces /\ s.addr[i] # Unset /\ after[k] = RemoveInterface(s, i)
    BY <1>1, <1>3, <2>1
  <2> HIDE DEF s
  <2>3. /\ Sound(after[k], D) /\ after[k].failed = None
        /\ \A j \in Interfaces : j # i => after[k].addr[j] = s.addr[j]
        /\ after[k].addr[i] = Unset
    BY <2>1, <2>2, RemoveKeeps
  <2>4. \A j \in Interfaces : j[1] # h => j # i
    OBVIOUS
  <2>5. \A m \in 1 .. n : m # k => <<h, m>> # i /\ <<h, m>> \in Interfaces
    BY <1>1
  <2>6. \A m \in k + 1 .. n : m \in k .. n /\ m \in 1 .. n /\ m # k
    BY <1>1
  <2>7. \A m \in 1 .. k : m = k \/ (m \in 1 .. k - 1 /\ m \in 1 .. n /\ m # k)
    BY <1>1
  <2>8. \A j \in Interfaces : j[1] # h => after[k].addr[j] = State.addr[j]
    BY <2>1, <2>3, <2>4
  <2>9. \A m \in k + 1 .. n : after[k].addr[<<h, m>>] # Unset
    BY <2>1, <2>3, <2>5, <2>6
  <2>10. \A m \in 1 .. k : after[k].addr[<<h, m>>] = Unset
    BY <2>1, <2>3, <2>5, <2>7
  <2> QED BY <1>1, <2>3, <2>8, <2>9, <2>10
<1> HIDE DEF T
<1>6. \A k \in 0 .. n : k \in T
  BY <1>1, <1>4, <1>5, IntervalInduction
<1>7. n \in T
  BY <1>1, <1>6
<1>8. /\ Sound(t, D)
      /\ \A j \in Interfaces : j[1] # h => t.addr[j] = addr[j]
      /\ \A m \in 1 .. n : t.addr[<<h, m>>] = Unset
  BY <1>7, StateFacts DEF T
<1>9. State' = t /\ vlanInfo' = t.info /\ addr' = t.addr
  <2>1. t = [info |-> t.info, addr |-> t.addr, failed |-> t.failed]
    BY <1>8 DEF Sound, Wide
  <2> HIDE DEF t
  <2>2. Becomes(t)
    BY DEF t, after, n
  <2> QED BY <2>1, <2>2, StateFacts DEF Becomes
<1> HIDE DEF t
<1>10. DOMAIN vlanInfo' = D
  BY <1>8, <1>9 DEF Sound, Wide
<1>11. AllOrNone'
  <2> SUFFICES ASSUME NEW g \in Hosts
               PROVE  \/ \A k \in 1 .. Len(Ifs[g]) : addr'[<<g, k>>] # Unset
                      \/ \A k \in 1 .. Len(Ifs[g]) : addr'[<<g, k>>] = Unset
    BY DEF AllOrNone
  <2>1. CASE g = h
    BY <1>8, <1>9, <2>1 DEF n
  <2>2. CASE g # h
    <3>1. \A k \in 1 .. Len(Ifs[g]) : addr'[<<g, k>>] = addr[<<g, k>>]
      <4>1. \A k \in 1 .. Len(Ifs[g]) : <<g, k>> \in Interfaces /\ <<g, k>>[1] # h
        BY <2>2, InterfaceFacts
      <4> QED BY <1>8, <1>9, <4>1
    <3> QED BY <3>1 DEF CInv, AllOrNone
  <2> QED BY <2>1, <2>2
<1> QED BY <1>8, <1>9, <1>10, <1>11 DEF CInv

-----------------------------------------------------------------------------
(* The first addresses *)

LEMMA InterfacesFinite == IsFiniteSet(Interfaces)
<1> DEFINE T == {{h} \X (1 .. Len(Ifs[h])) : h \in Hosts}
           f == [h \in Hosts |-> {h} \X (1 .. Len(Ifs[h]))]
<1>1. IsFiniteSet(Hosts)
  BY ConfiguratorParameters, FS_Interval DEF Hosts
<1>2. \A h \in Hosts : IsFiniteSet({h} \X (1 .. Len(Ifs[h])))
  <2> SUFFICES ASSUME NEW h \in Hosts PROVE IsFiniteSet({h} \X (1 .. Len(Ifs[h])))
    OBVIOUS
  <2>1. IsFiniteSet({h}) /\ IsFiniteSet(1 .. Len(Ifs[h]))
    <3>1. Len(Ifs[h]) \in Int /\ 1 \in Int
      BY InterfaceFacts
    <3> QED BY <3>1, FS_Singleton, FS_Interval
  <2> QED BY <2>1, FS_Product
<1>3. f \in Surjection(Hosts, T)
  BY DEF Surjection
<1>4. IsFiniteSet(T)
  <2> HIDE DEF f, T
  <2> QED BY <1>1, <1>3, FS_Surjection
<1>5. \A x \in T : IsFiniteSet(x)
  BY <1>2
<1>6. IsFiniteSet(UNION T)
  <2> HIDE DEF T
  <2> QED BY <1>4, <1>5, FS_UNION
<1> QED BY <1>6 DEF Interfaces

\* The interfaces of a set are numbered from 1 to their number, each once.
LEMMA RankFacts ==
  ASSUME NEW M, M \subseteq Interfaces
  PROVE  LET rank(i) == Cardinality({j \in M : NotAfter(j, i)})
         IN  /\ Cardinality(M) \in Nat
             /\ \A i \in M : rank(i) \in 1 .. Cardinality(M)
             /\ \A i, j \in M : i # j => rank(i) # rank(j)
             /\ \A a \in 1 .. Cardinality(M) : \E i \in M : rank(i) = a
<1> DEFINE low(i) == {j \in M : NotAfter(j, i)}
           rank(i) == Cardinality(low(i))
           n == Cardinality(M)
<1>1. IsFiniteSet(M) /\ n \in Nat
  BY InterfacesFinite, FS_Subset, FS_CardinalityType
<1>2. \A i \in Interfaces : i[1] \in Int /\ i[2] \in Int /\ i = <<i[1], i[2]>>
  <2> SUFFICES ASSUME NEW i \in Interfaces
               PROVE  i[1] \in Int /\ i[2] \in Int /\ i = <<i[1], i[2]>>
    OBVIOUS
  <2>1. PICK h \in Hosts : \E k \in 1 .. Len(Ifs[h]) : i = <<h, k>>
    BY InterfaceFacts
  <2>2. PICK k \in 1 .. Len(Ifs[h]) : i = <<h, k>>
    BY <2>1
  <2>3. h \in Int /\ k \in Int
    BY ConfiguratorParameters, InterfaceFacts DEF Hosts
  <2> QED BY <2>2, <2>3
<1>3. /\ \A i \in M : NotAfter(i, i)
      /\ \A i, j \in M : NotAfter(i, j) \/ NotAfter(j, i)
      /\ \A i, j \in M : NotAfter(i, j) /\ NotAfter(j, i) => i = j
      /\ \A i, j, k \in M : NotAfter(i, j) /\ NotAfter(j, k) => NotAfter(i, k)
  <2>1. \A i \in M : i[1] \in Int /\ i[2] \in Int /\ i = <<i[1], i[2]>>
    BY <1>2
  <2>2. \A i, j \in M : i[1] = j[1] /\ i[2] = j[2] => i = j
    BY <2>1
  <2> QED BY <2>1, <2>2 DEF NotAfter
<1>4. ASSUME NEW i \in M
      PROVE  /\ i \in low(i) /\ low(i) \subseteq M /\ IsFiniteSet(low(i))
             /\ rank(i) \in 1 .. n
  <2>1. i \in low(i) /\ low(i) \in SUBSET M
    BY <1>3
  <2> HIDE DEF low
  <2>2. IsFiniteSet(low(i)) /\ rank(i) <= n /\ rank(i) \in Nat
    BY <1>1, <2>1, FS_Subset, FS_CardinalityType
  <2>3. rank(i) # 0
    BY <2>1, <2>2, FS_EmptySet
  <2> QED BY <1>1, <2>1, <2>2, <2>3
<1>5. ASSUME NEW i \in M, NEW j \in M, i # j, NotAfter(i, j) PROVE rank(i) # rank(j)
  <2>1. low(i) \in SUBSET low(j) /\ j \in low(j) /\ j \notin low(i)
    BY <1>3, <1>5
  <2> HIDE DEF low
  <2> QED BY <1>4, <2>1, FS_Subset
<1>6. \A i, j \in M : i # j => rank(i) # rank(j)
  BY <1>3, <1>5
<1> HIDE DEF low
<1> DEFINE f == [i \in M |-> rank(i)]
<1>7. f \in Injection(M, 1 .. n)
  BY <1>4, <1>6 DEF Injection, IsInjective
<1>8. IsFiniteSet(1 .. n) /\ Cardinality(1 .. n) = n
  BY <1>1, FS_Interval
<1>9. f \in Surjection(M, 1 .. n)
  <2> HIDE DEF f
  <2> QED BY <1>7, <1>8, FS_Injection
<1>10. \A a \in 1 .. n : \E i \in M : rank(i) = a
  BY <1>9 DEF Surjection
<1> QED BY <1>1, <1>4, <1>6, <1>10 DEF low

\* The addresses and pools with which a simulation starts.
LEMMA InitKeeps == Init => CInv
<1> SUFFICES ASSUME NEW first \in Starts,
                    \A v \in Vlans : Cardinality(Members(first, v)) <= MaxHosts,
                    addr = Assigned(first), vlanInfo = Pools(first), failed = None
             PROVE  CInv
  BY DEF Init
<1> DEFINE M(v) == Members(first, v)
           n(v) == Cardinality(M(v))
           rank(i) == Cardinality({j \in M(Vlan(i)) : NotAfter(j, i)})
           D == {w \in Vlans : M(w) # {}}
<1>1. \A v \in Vlans : M(v) \subseteq Interfaces
  BY DEF Members
<1>2. ASSUME NEW v \in Vlans
      PROVE  /\ n(v) \in 0 .. MaxHosts
             /\ \A i \in M(v) : rank(i) \in 1 .. n(v)
             /\ \A i, j \in M(v) : i # j => rank(i) # rank(j)
             /\ \A a \in 1 .. n(v) : \E i \in M(v) : rank(i) = a
  <2>1. \A i \in M(v) : Vlan(i) = v
    BY DEF Members
  <2> DEFINE rk(i) == Cardinality({j \in M(v) : NotAfter(j, i)})
  <2>2. \A i \in M(v) : rank(i) = rk(i)
    BY <2>1
  <2>3. n(v) <= MaxHosts
    OBVIOUS
  <2>4. /\ n(v) \in Nat
        /\ \A i \in M(v) : rk(i) \in 1 .. n(v)
        /\ \A i, j \in M(v) : i # j => rk(i) # rk(j)
        /\ \A a \in 1 .. n(v) : \E i \in M(v) : rk(i) = a
    <3> HIDE DEF M
    <3> QED BY <1>1, RankFacts
  <2> HIDE DEF M, n, rank, rk
  <2> QED BY <2>2, <2>3, <2>4, ConfiguratorParameters
<1>3. ASSUME NEW i \in Interfaces
      PROVE  /\ Vlan(i) \in Vlans
             /\ i[1] \in first => i \in M(Vlan(i)) /\ addr[i] = rank(i)
             /\ i[1] \notin first => addr[i] = Unset
             /\ \A v \in Vlans : i \in M(v) <=> i[1] \in first /\ v = Vlan(i)
  BY InterfaceFacts DEF Members, Assigned
<1> HIDE DEF M, n, rank
<1>4. ASSUME NEW i \in Interfaces
      PROVE  /\ addr[i] \in Addresses \union {Unset}
             /\ addr[i] # Unset <=> i[1] \in first
             /\ addr[i] # Unset => Vlan(i) \in D
  <2>1. CASE i[1] \in first
    <3>1. addr[i] \in 1 .. n(Vlan(i)) /\ n(Vlan(i)) \in 0 .. MaxHosts
      BY <1>2, <1>3, <2>1
    <3> QED BY <1>3, <2>1, <3>1, ConfiguratorParameters DEF Addresses, Unset
  <2>2. CASE i[1] \notin first
    BY <1>3, <2>2
  <2> QED BY <2>1, <2>2
<1>5. ASSUME NEW i \in Interfaces, NEW j \in Interfaces,
             Vlan(i) = Vlan(j), i # j, addr[i] # Unset
      PROVE  addr[i] # addr[j]
  <2>1. CASE j[1] \in first
    BY <1>2, <1>3, <1>4, <1>5, <2>1
  <2>2. CASE j[1] \notin first
    BY <1>3, <1>5, <2>2
  <2> QED BY <2>1, <2>2
<1>6. ASSUME NEW v \in D PROVE PoolOK(vlanInfo[v], Held(State, v))
  <2> DEFINE e == vlanInfo[v]
             H == Held(State, v)
  <2>1. n(v) \in 0 .. MaxHosts /\ n(v) \in Nat /\ MaxHosts \in Nat
    BY <1>2, ConfiguratorParameters
  <2>2. H = 1 .. n(v)
    <3>1. \A i \in Interfaces : Vlan(i) = v /\ addr[i] # Unset => i \in M(v)
      BY <1>3, <1>4
    <3>2. \A i \in M(v) : i \in Interfaces /\ Vlan(i) = v /\ addr[i] = rank(i)
      BY <1>3 DEF Members, M
    <3>3. \A i \in M(v) : addr[i] # Unset
      BY <1>2, <3>2 DEF Unset
    <3>4. H = {addr[i] : i \in M(v)}
      BY <3>1, <3>2, <3>3, StateFacts DEF Held
    <3>5. \A i \in M(v) : addr[i] \in 1 .. n(v)
      BY <1>2, <3>2
    <3>6. \A a \in 1 .. n(v) : \E i \in M(v) : addr[i] = a
      BY <1>2, <3>2
    <3> HIDE DEF H
    <3> QED BY <3>4, <3>5, <3>6
  <2>3. e = [numHosts |-> n(v), nextAvailIP |-> NextAddress(n(v))]
    BY DEF Pools, M, n
  <2> HIDE DEF H, D, e
  <2>4. CASE n(v) = MaxHosts
    <3>1. e.numHosts = n(v) /\ e.nextAvailIP = <<>> /\ Len(<<>>) = 0 /\ e \in Entry
      BY <2>1, <2>3, <2>4 DEF NextAddress, Entry
    <3> QED BY <2>1, <2>2, <2>4, <3>1 DEF PoolOK, Addresses, e, H
  <2>5. CASE n(v) # MaxHosts
    <3> DEFINE next == <<n(v) + 1>>
    <3>1. n(v) + 1 \in Addresses /\ n(v) + 1 \notin H
      BY <2>1, <2>2, <2>5 DEF Addresses
    <3>2. next \in Seq(Addresses) /\ Len(next) = 1 /\ next[1] = n(v) + 1 /\ next # <<>>
      BY <3>1
    <3>3. e = [numHosts |-> n(v), nextAvailIP |-> next]
      BY <2>3, <2>5 DEF NextAddress
    <3>4. e \in Entry /\ e.numHosts = n(v) /\ e.nextAvailIP = next
      BY <2>1, <3>2, <3>3 DEF Entry
    <3> HIDE DEF next
    <3>5. ASSUME NEW b \in Addresses
          PROVE  b <= n(v) + 1 <=> b \in H \/ \E k \in 1 .. 1 : next[k] = b
      BY <2>1, <2>2, <3>2 DEF Addresses
    <3>6. H \subseteq Addresses
      BY <2>1, <2>2 DEF Addresses
    <3>7. PoolOK(e, H)
      <4>1. \A k, l \in 1 .. Len(next) : next[k] = next[l] => k = l
        BY <3>2
      <4>2. \A k \in 1 .. Len(next) : next[k] \notin H
        BY <3>1, <3>2
      <4>3. n(v) + Len(next) <= MaxHosts
        BY <2>1, <2>5, <3>2
      <4>4. \A b \in Addresses : b <= n(v) + Len(next) <=> b \in H \/ \E k \in 1 .. Len(next) : next[k] = b
        BY <3>2, <3>5
      <4> QED BY <3>2, <3>4, <3>6, <4>1, <4>2, <4>3, <4>4 DEF PoolOK
    <3> QED BY <3>7 DEF e, H
  <2> QED BY <2>4, <2>5
<1>7. vlanInfo = [v \in D |-> vlanInfo[v]] /\ DOMAIN vlanInfo = D
  BY DEF Pools, M
<1>8. State \in Wide(D)
  <2>1. ASSUME NEW v \in D PROVE vlanInfo[v] \in [numHosts : Int, nextAvailIP : Seq(Int)]
    <3>1. vlanInfo[v] \in Entry
      BY <1>6 DEF PoolOK
    <3>2. Addresses \subseteq Int
      BY ConfiguratorParameters DEF Addresses
    <3>3. \A q \in Seq(Addresses) : q \in Seq(Int)
      BY <3>2, SeqMonotonic
    <3> QED BY <3>1, <3>3 DEF Entry
  <2>2. vlanInfo \in [D -> [numHosts : Int, nextAvailIP : Seq(Int)]]
    BY <1>7, <2>1
  <2>3. addr \in [Interfaces -> Int]
    <3>1. addr = [i \in Interfaces |-> addr[i]]
      BY DEF Assigned
    <3>2. \A i \in Interfaces : addr[i] \in Int
      BY <1>4, ConfiguratorParameters DEF Addresses, Unset
    <3> QED BY <3>1, <3>2
  <2> HIDE DEF D
  <2> QED BY <2>2, <2>3 DEF State, Wide
<1>9. D \subseteq Vlans /\ failed \notin D
  BY ConfiguratorParameters
<1>10. Sound(State, D)
  <2> HIDE DEF D
  <2> QED BY <1>4, <1>5, <1>6, <1>8, <1>9, StateFacts DEF Sound
<1>11. AllOrNone
  <2> SUFFICES ASSUME NEW h \in Hosts
               PROVE  \/ \A k \in 1 .. Len(Ifs[h]) : addr[<<h, k>>] # Unset
                      \/ \A k \in 1 .. Len(Ifs[h]) : addr[<<h, k>>] = Unset
    BY DEF AllOrNone
  <2>1. \A k \in 1 .. Len(Ifs[h]) : <<h, k>> \in Interfaces /\ <<h, k>>[1] = h
    BY InterfaceFacts
  <2>2. \A k \in 1 .. Len(Ifs[h]) : addr[<<h, k>>] # Unset <=> h \in first
    BY <1>4, <2>1
  <2> QED BY <2>2
<1> QED BY <1>7, <1>10, <1>11 DEF CInv

-----------------------------------------------------------------------------
(* Theorems *)

LEMMA AlwaysCInv == Spec => []CInv
<1>1. CInv /\ [Next]_vars => CInv'
  <2> SUFFICES ASSUME CInv, [Next]_vars PROVE CInv'
    OBVIOUS
  <2>1. CASE Next
    BY <2>1, AddedKeeps, RemovedKeeps DEF Next
  <2>2. CASE UNCHANGED vars
    BY <2>2 DEF vars, CInv, Sound, AllOrNone, State, Held
  <2> QED BY <2>1, <2>2
<1> QED BY <1>1, InitKeeps, PTL DEF Spec

(***************************************************************************)
(* Counts and addresses stay within the subnet of their VLAN, through any  *)
(* sequence of hostAdded and hostRemoved.                                  *)
(***************************************************************************)
THEOREM ConfiguratorTypeCorrect == Spec => []TypeOK
<1>1. CInv => TypeOK
  <2> SUFFICES ASSUME CInv PROVE TypeOK
    OBVIOUS
  <2> DEFINE D == DOMAIN vlanInfo
  <2>1. Sound(State, D) /\ State.info = vlanInfo /\ State.addr = addr /\ State.failed = failed
    BY StateFacts DEF CInv
  <2>2. ASSUME NEW v \in D
        PROVE  vlanInfo[v].numHosts \in 0 .. MaxHosts /\ vlanInfo[v].nextAvailIP \in Seq(Addresses)
    <3>1. PoolOK(vlanInfo[v], Held(State, v))
      BY <2>1 DEF Sound
    <3>2. /\ vlanInfo[v].numHosts \in Nat /\ vlanInfo[v].nextAvailIP \in Seq(Addresses)
          /\ vlanInfo[v].numHosts + Len(vlanInfo[v].nextAvailIP) <= MaxHosts
      BY <3>1 DEF PoolOK, Entry
    <3>3. Len(vlanInfo[v].nextAvailIP) \in Nat
      BY <3>2, LenProperties
    <3> QED BY <3>2, <3>3, ConfiguratorParameters
  <2>3. addr \in [Interfaces -> Addresses \union {Unset}]
    <3>1. addr \in [Interfaces -> Int] /\ \A i \in Interfaces : addr[i] \in Addresses \union {Unset}
      BY <2>1 DEF Sound, Wide
    <3> QED BY <3>1
  <2>4. D \subseteq Vlans /\ failed \in Vlans \union {None}
    BY <2>1 DEF Sound, Wide
  <2> QED BY <2>2, <2>3, <2>4 DEF TypeOK
<1> QED BY <1>1, AlwaysCInv, PTL

(***************************************************************************)
(* No two interfaces of a VLAN are ever given one address by hostAdded,    *)
(* for any hosts, any number of VLANs and any size of the subnets.         *)
(***************************************************************************)
THEOREM AddressesNeverShared == Spec => []NoSharedAddress
<1>1. CInv => NoSharedAddress
  BY StateFacts DEF CInv, Sound, NoSharedAddress
<1> QED BY <1>1, AlwaysCInv, PTL

(***************************************************************************)
(* hostAdded finds no address in a VLAN that is in use only when the whole *)
(* subnet has been given away.                                             *)
(***************************************************************************)
THEOREM FailsOnlyWhenFull == Spec => []FailsOnlyFull
<1>1. CInv => FailsOnlyFull
  <2> SUFFICES ASSUME CInv, failed \in DOMAIN vlanInfo
               PROVE  Cardinality(Holders(failed)) = MaxHosts
    BY DEF FailsOnlyFull
  <2> DEFINE S == Holders(failed)
             f == [i \in S |-> addr[i]]
  <2>1. PoolOK(vlanInfo[failed], Held(State, failed)) /\ vlanInfo[failed].nextAvailIP = <<>>
    BY StateFacts DEF CInv, Sound
  <2>2. Held(State, failed) = Addresses
    BY <2>1, EmptyIsFull
  <2>3. Held(State, failed) = {addr[i] : i \in S}
    BY StateFacts DEF Held, Holders
  <2>4. S \subseteq Interfaces /\ \A i, j \in S : i # j => addr[i] # addr[j]
    BY StateFacts DEF CInv, Sound, Holders
  <2> HIDE DEF S
  <2>5. f \in Bijection(S, Addresses)
    <3>1. \A i \in S : addr[i] \in Addresses
      BY <2>2, <2>3
    <3>2. \A a \in Addresses : \E i \in S : addr[i] = a
      BY <2>2, <2>3
    <3> QED BY <2>4, <3>1, <3>2 DEF Bijection, Injection, Surjection, IsInjective
  <2>6. IsFiniteSet(S)
    BY <2>4, InterfacesFinite, FS_Subset
  <2>7. Cardinality(Addresses) = Cardinality(S)
    <3>1. ExistsBijection(S, Addresses)
      BY <2>5 DEF ExistsBijection
    <3> QED BY <2>6, <3>1, FS_Bijection
  <2>8. Cardinality(Addresses) = MaxHosts
    <3>1. 1 \in Int /\ MaxHosts \in Int /\ MaxHosts \in Nat
      BY ConfiguratorParameters
    <3>2. Cardinality(1 .. MaxHosts) = IF 1 > MaxHosts THEN 0 ELSE MaxHosts - 1 + 1
      BY <3>1, FS_Interval
    <3> QED BY <3>1, <3>2 DEF Addresses
  <2> QED BY <2>7, <2>8 DEF S
<1> QED BY <1>1, AlwaysCInv, PTL
=============================================================================
