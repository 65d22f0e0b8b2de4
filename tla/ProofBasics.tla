---------------------------- MODULE ProofBasics ----------------------------
(***************************************************************************)
(* Facts the proofs share: induction on the natural numbers, recursion     *)
(* along an interval, what the operators on sequences that the models use  *)
(* return, and queues that are served in turn.                             *)
(***************************************************************************)
EXTENDS Integers, FiniteSetTheorems, WellFoundedInduction, SequenceTheorems,
        SequencesExt, RoundRobin, TLAPS

-----------------------------------------------------------------------------
(* Induction *)

(***************************************************************************)
(* A set of natural numbers with 0 and the successor of each member is     *)
(* Nat: otherwise the shortest of the intervals from 0 to a number outside *)
(* it could be shortened.                                                  *)
(***************************************************************************)
THEOREM SetInduction ==
  ASSUME NEW T \in SUBSET Nat, 0 \in T, \A n \in T : n + 1 \in T
  PROVE  T = Nat
<1>1. SUFFICES ASSUME Nat \ T # {} PROVE FALSE
  OBVIOUS
<1> DEFINE I == {0 .. m : m \in Nat \ T}
<1>2. I \subseteq FiniteSubsetsOf(Nat) /\ I # {}
  <2>1. \A m \in Nat \ T : 0 .. m \in SUBSET Nat /\ IsFiniteSet(0 .. m)
    BY FS_Interval
  <2> QED BY <1>1, <2>1 DEF FiniteSubsetsOf
<1>3. PICK x \in I : \A y \in I : ~ (<<y, x>> \in StrictSubsetOrdering(Nat))
  BY <1>2, FS_StrictSubsetOrderingWellFounded, WFMin
<1>4. PICK m \in Nat \ T : x = 0 .. m
  OBVIOUS
<1>5. m - 1 \in Nat /\ m - 1 \notin T
  OBVIOUS
<1>6. 0 .. (m - 1) \in I
  BY <1>5
<1>7. 0 .. (m-1) \subseteq 0 .. m /\ m \notin 0 .. (m-1) /\ m \in 0 .. m
  BY <1>5
<1>8. <<0 .. (m - 1), 0 .. m>> \in StrictSubsetOrdering(Nat)
  <2>1. 0 .. (m-1) \in SUBSET Nat /\ 0 .. m \in SUBSET Nat
    BY <1>5
  <2> QED BY <1>7, <2>1 DEF StrictSubsetOrdering
<1> QED BY <1>3, <1>4, <1>6, <1>8

\* Induction along the interval 0 .. n.
THEOREM IntervalInduction ==
  ASSUME NEW n \in Nat, NEW T, 0 \in T, \A i \in 1 .. n : i - 1 \in T => i \in T
  PROVE  \A i \in 0 .. n : i \in T
<1> DEFINE U == {i \in Nat : i <= n => i \in T}
<1>1. 0 \in U /\ \A i \in U : i + 1 \in U
  <2>1. \A i \in Nat : i + 1 <= n => i <= n /\ i + 1 \in 1 .. n /\ (i + 1) - 1 = i
    OBVIOUS
  <2> QED BY <2>1
<1>2. U = Nat
  BY <1>1, SetInduction
<1> QED BY <1>2

\* A set of natural numbers that is not empty has a least member.
THEOREM LeastMember ==
  ASSUME NEW S \in SUBSET Nat, S # {}
  PROVE  \E i \in S : \A j \in S : i <= j
<1> DEFINE Least == \E i \in S : \A j \in S : i <= j
           T == {n \in Nat : (\E i \in S : i <= n) => Least}
<1>1. 0 \in T
  <2>1. \A i \in S : i <= 0 => \A j \in S : i <= j
    OBVIOUS
  <2> QED BY <2>1
<1>2. \A n \in T : n + 1 \in T
  <2> SUFFICES ASSUME NEW n \in T, NEW i \in S, i <= n + 1 PROVE Least
    OBVIOUS
  <2>1. CASE \E j \in S : j <= n
    BY <2>1
  <2>2. CASE \A j \in S : ~ (j <= n)
    BY <2>2
  <2> QED BY <2>1, <2>2
<1>3. T = Nat
  BY <1>1, <1>2, SetInduction
<1>4. PICK n \in S : TRUE
  OBVIOUS
<1> QED BY <1>3, <1>4

(***************************************************************************)
(* The functions that run from base through the given steps, step[i]       *)
(* leading from the value at i-1 to the value at i.                        *)
(***************************************************************************)
Steps(n, S) == [1 .. n -> [S -> S]]
Runs(n, S, base, step) ==
  {f \in [0 .. n -> S] : f[0] = base /\ \A i \in 1 .. n : f[i] = step[i][f[i-1]]}

\* A function on 0 .. n may be defined by its value at 0 and, at i, from its
\* value at i-1.
THEOREM IntervalRecursion ==
  ASSUME NEW n \in Nat, NEW S, NEW base \in S, NEW step \in Steps(n, S)
  PROVE  Runs(n, S, base, step) # {}
<1> USE DEF Steps
<1> DEFINE Up(k) == {f \in [0 .. k -> S] :
                       f[0] = base /\ \A i \in 1 .. k : f[i] = step[i][f[i-1]]}
           T == {k \in 0 .. n : Up(k) # {}}
<1>1. 0 \in T
  <2>1. [i \in 0 .. 0 |-> base] \in Up(0)
    OBVIOUS
  <2> QED BY <2>1
<1>2. \A k \in 1 .. n : k - 1 \in T => k \in T
  <2> HIDE DEF Up
  <2> SUFFICES ASSUME NEW k \in 1 .. n, k - 1 \in T PROVE Up(k) # {}
    OBVIOUS
  <2> USE DEF Up
  <2>1. PICK f : f \in Up(k-1)
    OBVIOUS
  <2>2. f \in [0 .. k-1 -> S] /\ f[0] = base /\ \A i \in 1 .. k-1 : f[i] = step[i][f[i-1]]
    BY <2>1
  <2> DEFINE g == [i \in 0 .. k |-> IF i = k THEN step[k][f[k-1]] ELSE f[i]]
  <2>3. f[k-1] \in S /\ step[k] \in [S -> S]
    BY <2>2
  <2>4. g \in [0 .. k -> S]
    <3>1. \A i \in 0 .. k : i # k => i \in 0 .. k-1
      OBVIOUS
    <3> QED BY <2>2, <2>3, <3>1
  <2>5. g[0] = base
    BY <2>2
  <2>6. \A i \in 1 .. k : g[i] = step[i][g[i-1]]
    <3> SUFFICES ASSUME NEW i \in 1 .. k PROVE g[i] = step[i][g[i-1]]
      OBVIOUS
    <3>1. i - 1 \in 0 .. k /\ i - 1 # k /\ g[i-1] = f[i-1]
      OBVIOUS
    <3>2. CASE i = k
      BY <3>1, <3>2
    <3>3. CASE i # k
      <4>1. i \in 1 .. k-1 /\ g[i] = f[i]
        BY <3>3
      <4> QED BY <2>2, <3>1, <4>1
    <3> QED BY <3>2, <3>3
  <2>7. g \in Up(k)
    BY <2>4, <2>5, <2>6
  <2> QED BY <2>7
<1> HIDE DEF Up
<1>3. \A k \in 0 .. n : k \in T
  BY <1>1, <1>2, IntervalInduction
<1>4. PICK f : f \in Up(n)
  BY <1>3
<1> QED BY <1>4 DEF Up, Runs

-----------------------------------------------------------------------------
(* Division *)

\* Division truncates: it loses less than one divisor.
THEOREM DivisionFacts ==
  ASSUME NEW a \in Nat, NEW b \in Nat \ {0}
  PROVE  a \div b \in Nat /\ b * (a \div b) <= a /\ a < b * (a \div b) + b
OBVIOUS

-----------------------------------------------------------------------------
(* Sequences *)

\* The tail of a sequence that is not empty.
THEOREM TailFacts ==
  ASSUME NEW T, NEW s \in Seq(T), s # <<>>
  PROVE  /\ Tail(s) \in Seq(T)
         /\ Len(Tail(s)) = Len(s) - 1
         /\ Len(s) \in Nat \ {0}
         /\ \A j \in 1 .. Len(s) - 1 : Tail(s)[j] = s[j+1]
         /\ Head(s) = s[1] /\ Head(s) \in T
<1>1. Len(s) \in Nat \ {0}
  BY EmptySeq
<1> QED BY <1>1, HeadTailProperties, ElementOfSeq

\* The sequence without its i-th element.
THEOREM RemoveAtFacts ==
  ASSUME NEW T, NEW s \in Seq(T), NEW i \in 1 .. Len(s)
  PROVE  /\ RemoveAt(s, i) \in Seq(T)
         /\ Len(RemoveAt(s, i)) = Len(s) - 1
         /\ \A j \in 1 .. Len(s) - 1 :
              RemoveAt(s, i)[j] = IF j < i THEN s[j] ELSE s[j+1]
<1> DEFINE a == SubSeq(s, 1, i-1)
           b == SubSeq(s, i+1, Len(s))
<1>1. Len(s) \in Nat
  BY LenProperties
<1>2. /\ a \in Seq(T) /\ Len(a) = i - 1
      /\ \A j \in 1 .. i - 1 : a[j] = s[j]
  <2>1. \A j \in 1 .. i-1 : s[j] \in T
    BY <1>1, ElementOfSeq
  <2> QED BY <1>1, <2>1, SubSeqProperties
<1>3. /\ b \in Seq(T) /\ Len(b) = Len(s) - i
      /\ \A j \in 1 .. Len(s) - i : b[j] = s[i+j]
  <2>1. \A j \in i+1 .. Len(s) : s[j] \in T
    BY <1>1, ElementOfSeq
  <2> QED BY <1>1, <2>1, SubSeqProperties
<1> HIDE DEF a, b
<1>4. /\ a \o b \in Seq(T)
      /\ Len(a \o b) = Len(s) - 1
      /\ \A j \in 1 .. Len(s) - 1 : (a \o b)[j] = IF j <= i - 1 THEN a[j] ELSE b[j - (i-1)]
  <2>1. a \in Seq(T) /\ b \in Seq(T)
    BY <1>2, <1>3
  <2>2. /\ a \o b \in Seq(T) /\ Len(a \o b) = Len(a) + Len(b)
        /\ \A j \in 1 .. Len(a) + Len(b) :
             (a \o b)[j] = IF j <= Len(a) THEN a[j] ELSE b[j - Len(a)]
    BY <2>1, ConcatProperties
  <2>3. Len(a) = i - 1 /\ Len(a) + Len(b) = Len(s) - 1
    BY <1>1, <1>2, <1>3
  <2> QED BY <2>2, <2>3
<1>5. RemoveAt(s, i) = a \o b
  BY DEF RemoveAt, a, b
<1>6. ASSUME NEW j \in 1 .. Len(s) - 1
      PROVE  (a \o b)[j] = IF j < i THEN s[j] ELSE s[j+1]
  <2>1. CASE j < i
    BY <1>1, <1>2, <1>4, <2>1
  <2>2. CASE ~ (j < i)
    <3>1. j - (i-1) \in 1 .. Len(s) - i /\ i + (j - (i-1)) = j + 1 /\ ~ (j <= i - 1)
      BY <1>1, <2>2
    <3> QED BY <1>3, <1>4, <2>2, <3>1
  <2> QED BY <2>1, <2>2
<1> QED BY <1>4, <1>5, <1>6

\* The elements of a concatenation, and of a sequence with an element appended.
THEOREM ToSetFacts ==
  /\ ToSet(<<>>) = {}
  /\ \A e : ToSet(<<e>>) = {e}
  /\ \A T : \A s, t \in Seq(T) : ToSet(s \o t) = ToSet(s) \union ToSet(t)
  /\ \A T : \A s \in Seq(T), e \in T : ToSet(Append(s, e)) = ToSet(s) \union {e}
<1>1. ToSet(<<>>) = {} /\ \A e : ToSet(<<e>>) = {e}
  BY DEF ToSet
<1>2. ASSUME NEW T, NEW s \in Seq(T), NEW t \in Seq(T)
      PROVE  ToSet(s \o t) = ToSet(s) \union ToSet(t)
  <2>1. Range(s \o t) = Range(s) \union Range(t)
    BY RangeConcatenation
  <2> QED BY <2>1 DEF Range, ToSet
<1>3. ASSUME NEW T, NEW s \in Seq(T), NEW e \in T
      PROVE  ToSet(Append(s, e)) = ToSet(s) \union {e}
  <2>1. <<e>> \in Seq(T) /\ Append(s, e) = s \o <<e>>
    BY AppendIsConcat
  <2>2. ToSet(s \o <<e>>) = ToSet(s) \union ToSet(<<e>>)
    BY <1>2, <2>1
  <2> QED BY <1>1, <2>1, <2>2
<1> QED BY <1>1, <1>2, <1>3

\* A sequence with an element inserted at i.
THEOREM InsertAtFacts ==
  ASSUME NEW T, NEW s \in Seq(T), NEW e \in T, NEW i \in 1 .. Len(s)
  PROVE  /\ InsertAt(s, i, e) \in Seq(T) /\ Len(InsertAt(s, i, e)) = Len(s) + 1
         /\ ToSet(InsertAt(s, i, e)) = ToSet(s) \union {e}
<1> DEFINE a == SubSeq(s, 1, i-1)
           b == SubSeq(s, i, Len(s))
<1>1. Len(s) \in Nat
  BY LenProperties
<1>2. a \in Seq(T) /\ Len(a) = i - 1
  <2>1. \A j \in 1 .. i-1 : s[j] \in T
    BY <1>1, ElementOfSeq
  <2> QED BY <1>1, <2>1, SubSeqProperties
<1>3. b \in Seq(T) /\ Len(b) = Len(s) - i + 1
  <2>1. \A j \in i .. Len(s) : s[j] \in T
    BY <1>1, ElementOfSeq
  <2> QED BY <1>1, <2>1, SubSeqProperties
<1>4. <<e>> \in Seq(T) /\ Len(<<e>>) = 1
  OBVIOUS
<1>5. a \o b = s
  <2>1. i - 1 \in 0 .. Len(s) /\ Len(s) \in i - 1 .. Len(s) /\ 1 \in 1 .. Len(s) + 1 /\ (i - 1) + 1 = i
    BY <1>1
  <2>2. \A k \in 0 .. Len(s) : SubSeq(s, 1, k) \o SubSeq(s, k + 1, Len(s)) = SubSeq(s, 1, Len(s))
    <3> TAKE k \in 0 .. Len(s)
    <3>1. 1 \in 1 .. Len(s) + 1 /\ k \in 1 - 1 .. Len(s) /\ Len(s) \in k .. Len(s)
      BY <1>1
    <3> QED BY <3>1, ConcatAdjacentSubSeq
  <2>3. SubSeq(s, 1, i - 1) \o SubSeq(s, i, Len(s)) = SubSeq(s, 1, Len(s))
    BY <2>1, <2>2
  <2> QED BY <2>3, SubSeqFull
<1> HIDE DEF a, b
<1> DEFINE c == a \o <<e>>
<1>6. c \in Seq(T) /\ Len(c) = i /\ ToSet(c) = ToSet(a) \union {e}
  <2>1. ToSet(c) = ToSet(a) \union ToSet(<<e>>)
    <3>1. a \in Seq(T) /\ <<e>> \in Seq(T)
      BY <1>2, <1>4
    <3>2. \A t \in Seq(T) : ToSet(a \o t) = ToSet(a) \union ToSet(t)
      BY <3>1, ToSetFacts
    <3> QED BY <3>1, <3>2
  <2>2. ToSet(<<e>>) = {e}
    BY ToSetFacts
  <2> QED BY <1>1, <1>2, <1>4, <2>1, <2>2, ConcatProperties
<1> HIDE DEF c
<1>7. /\ c \o b \in Seq(T) /\ Len(c \o b) = Len(s) + 1
      /\ ToSet(c \o b) = ToSet(c) \union ToSet(b)
  <2>1. c \in Seq(T) /\ b \in Seq(T)
    BY <1>3, <1>6
  <2>2. c \o b \in Seq(T) /\ Len(c \o b) = Len(c) + Len(b)
    BY <2>1, ConcatProperties
  <2> QED BY <1>1, <1>3, <1>6, <2>1, <2>2, ToSetFacts
<1>8. ToSet(s) = ToSet(a) \union ToSet(b)
  <2>1. ToSet(a \o b) = ToSet(a) \union ToSet(b)
    BY <1>2, <1>3, ToSetFacts
  <2> QED BY <1>5, <2>1
<1>9. InsertAt(s, i, e) = c \o b
  BY DEF InsertAt, a, b, c
<1>10. ToSet(c \o b) = ToSet(s) \union {e}
  BY <1>6, <1>7, <1>8
<1> QED BY <1>7, <1>9, <1>10

\* An element moved from the front of a sequence to the end of the one before.
THEOREM MoveHead ==
  ASSUME NEW T, NEW s \in Seq(T), NEW t \in Seq(T), t # <<>>
  PROVE  Append(s, Head(t)) \o Tail(t) = s \o t
<1>1. Head(t) \in T /\ Tail(t) \in Seq(T) /\ <<Head(t)>> \in Seq(T)
  BY TailFacts
<1>2. Append(s, Head(t)) = s \o <<Head(t)>>
  BY <1>1, AppendIsConcat
<1>3. (s \o <<Head(t)>>) \o Tail(t) = s \o (<<Head(t)>> \o Tail(t))
  BY <1>1, ConcatAssociative
<1>4. <<Head(t)>> \o Tail(t) = t
  BY HeadTailProperties
<1> QED BY <1>2, <1>3, <1>4

\* Two sequences of one element.
THEOREM TwoOf ==
  ASSUME NEW a, NEW b
  PROVE  <<a>> \o <<b>> = <<a, b>>
<1> DEFINE S == {a, b}
<1>0. a \in S /\ b \in S
  OBVIOUS
<1> HIDE DEF S
<1>1. <<a>> \in Seq(S) /\ <<b>> \in Seq(S) /\ <<a, b>> \in Seq(S) /\ Len(<<a, b>>) = 2
  BY <1>0
<1>2. <<a>> \o <<b>> = Append(<<a>>, b)
  BY <1>0, <1>1, AppendIsConcat
<1>3. Append(<<a>>, b) \in Seq(S) /\ Len(Append(<<a>>, b)) = 2 /\ Append(<<a>>, b)[1] = a /\ Append(<<a>>, b)[2] = b
  BY <1>0, <1>1, AppendProperties
<1>4. \A i \in 1 .. 2 : Append(<<a>>, b)[i] = <<a, b>>[i]
  BY <1>3
<1> QED BY <1>1, <1>2, <1>3, <1>4, SeqEqual

\* Appending to the second of two sequences appends to both together.
THEOREM AppendConcat ==
  ASSUME NEW T, NEW s \in Seq(T), NEW t \in Seq(T), NEW e \in T
  PROVE  s \o Append(t, e) = Append(s \o t, e)
<1>1. <<e>> \in Seq(T) /\ s \o t \in Seq(T)
  BY ConcatProperties
<1>2. Append(t, e) = t \o <<e>> /\ Append(s \o t, e) = (s \o t) \o <<e>>
  BY <1>1, AppendIsConcat
<1>3. (s \o t) \o <<e>> = s \o (t \o <<e>>)
  BY <1>1, ConcatAssociative
<1> QED BY <1>2, <1>3

\* The element of a concatenation that follows the first sequence.
THEOREM NextOfConcat ==
  ASSUME NEW T, NEW s \in Seq(T), NEW t \in Seq(T), t # <<>>
  PROVE  /\ Len(s) < Len(s \o t)
         /\ (s \o t)[Len(s) + 1] = Head(t)
<1>1. Len(t) \in Nat \ {0} /\ Head(t) = t[1] /\ Len(s) \in Nat
  BY TailFacts, LenProperties
<1>2. /\ Len(s \o t) = Len(s) + Len(t)
      /\ \A i \in 1 .. Len(s) + Len(t) :
           (s \o t)[i] = IF i <= Len(s) THEN s[i] ELSE t[i - Len(s)]
  BY ConcatProperties
<1>3. /\ Len(s) + 1 \in 1 .. Len(s) + Len(t)
      /\ ~ (Len(s) + 1 <= Len(s)) /\ (Len(s) + 1) - Len(s) = 1
  BY <1>1
<1>4. (s \o t)[Len(s) + 1] = t[1]
  BY <1>2, <1>3
<1> QED BY <1>1, <1>2, <1>4

-----------------------------------------------------------------------------
(* Sequences in which a kind of element occurs never, or at most once.     *)
(* A kind is a set of elements.                                            *)

Absent(s, M) == \A i \in 1 .. Len(s) : s[i] \notin M
Unique(s, M) == \A i, j \in 1 .. Len(s) : s[i] \in M /\ s[j] \in M => i = j

\* Appending an element.
THEOREM AppendOccurs ==
  ASSUME NEW T, NEW s \in Seq(T), NEW e \in T, NEW M
  PROVE  /\ Absent(s, M) /\ e \notin M => Absent(Append(s, e), M)
         /\ Unique(s, M) /\ e \notin M => Unique(Append(s, e), M)
         /\ Absent(s, M) => Unique(Append(s, e), M)
<1>1. /\ Append(s, e) \in Seq(T) /\ Len(Append(s, e)) = Len(s) + 1
      /\ \A i \in 1 .. Len(s) : Append(s, e)[i] = s[i]
      /\ Append(s, e)[Len(s) + 1] = e
  BY AppendProperties
<1>2. Len(s) \in Nat
  BY LenProperties
<1> DEFINE a == Append(s, e)
<1> HIDE DEF a
<1>3. \A i \in 1 .. Len(a) : i = Len(s) + 1 \/ (i \in 1 .. Len(s) /\ a[i] = s[i])
  BY <1>1, <1>2 DEF a
<1>4. a[Len(s) + 1] = e
  BY <1>1 DEF a
<1>5. Absent(s, M) /\ e \notin M => Absent(a, M)
  BY <1>3, <1>4 DEF Absent
<1>6. Unique(s, M) /\ e \notin M => Unique(a, M)
  BY <1>3, <1>4 DEF Unique
<1>7. Absent(s, M) => Unique(a, M)
  BY <1>3, <1>4 DEF Absent, Unique
<1> QED BY <1>5, <1>6, <1>7 DEF a

\* Removing an element.
THEOREM RemoveAtOccurs ==
  ASSUME NEW T, NEW s \in Seq(T), NEW k \in 1 .. Len(s), NEW M
  PROVE  /\ Absent(s, M) => Absent(RemoveAt(s, k), M)
         /\ Unique(s, M) => Unique(RemoveAt(s, k), M)
         /\ Unique(s, M) /\ s[k] \in M => Absent(RemoveAt(s, k), M)
<1> DEFINE r == RemoveAt(s, k)
<1>1. /\ Len(r) = Len(s) - 1
      /\ \A j \in 1 .. Len(s) - 1 : r[j] = IF j < k THEN s[j] ELSE s[j+1]
  BY RemoveAtFacts
<1>2. Len(s) \in Nat
  BY LenProperties
<1> HIDE DEF r
<1> DEFINE at == [j \in 1 .. Len(r) |-> IF j < k THEN j ELSE j + 1]
<1>3. \A j \in 1 .. Len(r) : at[j] \in 1 .. Len(s) /\ at[j] # k /\ r[j] = s[at[j]]
  BY <1>1, <1>2
<1>4. \A i, j \in 1 .. Len(r) : at[i] = at[j] => i = j
  BY <1>1, <1>2
<1> HIDE DEF at
<1>5. Absent(s, M) => Absent(r, M)
  BY <1>3 DEF Absent
<1>6. Unique(s, M) => Unique(r, M)
  BY <1>3, <1>4 DEF Unique
<1>7. Unique(s, M) /\ s[k] \in M => Absent(r, M)
  BY <1>3 DEF Unique, Absent
<1> QED BY <1>5, <1>6, <1>7 DEF r

\* The tail is the sequence without its first element.
THEOREM TailIsRemoveAt ==
  ASSUME NEW T, NEW s \in Seq(T), s # <<>>
  PROVE  RemoveAt(s, 1) = Tail(s)
<1>1. Len(s) \in Nat \ {0} /\ 1 \in 1 .. Len(s)
  BY TailFacts
<1>2. Len(RemoveAt(s, 1)) = Len(s) - 1 /\ RemoveAt(s, 1) \in Seq(T)
  BY <1>1, RemoveAtFacts
<1>3. \A j \in 1 .. Len(s) - 1 : RemoveAt(s, 1)[j] = s[j+1]
  <2>1. \A j \in 1 .. Len(s) - 1 : ~ (j < 1)
    BY <1>1
  <2> QED BY <1>1, <2>1, RemoveAtFacts
<1>4. /\ Tail(s) \in Seq(T) /\ Len(Tail(s)) = Len(s) - 1
      /\ \A j \in 1 .. Len(s) - 1 : Tail(s)[j] = s[j+1]
  BY TailFacts
<1>5. Len(RemoveAt(s, 1)) = Len(Tail(s)) /\ \A j \in 1 .. Len(Tail(s)) : RemoveAt(s, 1)[j] = Tail(s)[j]
  BY <1>2, <1>3, <1>4
<1> QED BY <1>2, <1>4, <1>5, SeqEqual

\* Taking the first element.
THEOREM TailOccurs ==
  ASSUME NEW T, NEW s \in Seq(T), s # <<>>, NEW M
  PROVE  /\ Absent(s, M) => Absent(Tail(s), M)
         /\ Unique(s, M) => Unique(Tail(s), M)
         /\ Unique(s, M) /\ Head(s) \in M => Absent(Tail(s), M)
         /\ Head(s) \in M => ~ Absent(s, M)
<1>1. 1 \in 1 .. Len(s) /\ Head(s) = s[1]
  BY TailFacts
<1>2. Head(s) \in M => ~ Absent(s, M)
  BY <1>1 DEF Absent
<1> QED BY <1>1, <1>2, RemoveAtOccurs, TailIsRemoveAt

(***************************************************************************)
(* One element of a kind occurs, and it is e; and what a step from s to t  *)
(* keeps of a kind.                                                        *)
(***************************************************************************)
Once(s, M, e) == Unique(s, M) /\ e \in M /\ \E i \in 1 .. Len(s) : s[i] = e
Kept(s, t, M) ==
  /\ Absent(s, M) => Absent(t, M)
  /\ \A e : Once(s, M, e) => Once(t, M, e)

\* The only element of its kind is found wherever the kind is.
THEOREM OnceFacts ==
  ASSUME NEW s, NEW M, NEW e, Once(s, M, e)
  PROVE  ~ Absent(s, M) /\ \A i \in 1 .. Len(s) : s[i] \in M => s[i] = e
BY DEF Once, Unique, Absent

\* Appending an element of another kind, or the first of its kind.
THEOREM AppendOnce ==
  ASSUME NEW T, NEW s \in Seq(T), NEW e \in T, NEW M
  PROVE  /\ e \notin M => Kept(s, Append(s, e), M)
         /\ Absent(s, M) /\ e \in M => Once(Append(s, e), M, e)
<1>1. /\ Len(Append(s, e)) = Len(s) + 1
      /\ \A i \in 1 .. Len(s) : Append(s, e)[i] = s[i]
      /\ Append(s, e)[Len(s) + 1] = e
  BY AppendProperties
<1>2. \A i \in 1 .. Len(s) : i \in 1 .. Len(s) + 1
  BY LenProperties
<1>3. Len(s) + 1 \in 1 .. Len(s) + 1
  BY LenProperties
<1>4. /\ Absent(s, M) /\ e \notin M => Absent(Append(s, e), M)
      /\ Unique(s, M) /\ e \notin M => Unique(Append(s, e), M)
      /\ Absent(s, M) => Unique(Append(s, e), M)
  BY AppendOccurs
<1> DEFINE a == Append(s, e)
<1> HIDE DEF a
<1>5. \A f : (\E i \in 1 .. Len(s) : s[i] = f) => \E i \in 1 .. Len(a) : a[i] = f
  BY <1>1, <1>2 DEF a
<1>6. \E i \in 1 .. Len(a) : a[i] = e
  BY <1>1, <1>3 DEF a
<1> QED BY <1>4, <1>5, <1>6 DEF Kept, Once, a

\* Removing an element of another kind, or the only one of its kind.
THEOREM RemoveAtOnce ==
  ASSUME NEW T, NEW s \in Seq(T), NEW k \in 1 .. Len(s), NEW M
  PROVE  /\ s[k] \notin M => Kept(s, RemoveAt(s, k), M)
         /\ \A e : Once(s, M, e) /\ s[k] \in M => Absent(RemoveAt(s, k), M)
<1> DEFINE r == RemoveAt(s, k)
<1>1. /\ Len(r) = Len(s) - 1
      /\ \A j \in 1 .. Len(s) - 1 : r[j] = IF j < k THEN s[j] ELSE s[j+1]
  BY RemoveAtFacts
<1>2. Len(s) \in Nat
  BY LenProperties
<1>3. /\ Absent(s, M) => Absent(r, M)
      /\ Unique(s, M) => Unique(r, M)
      /\ Unique(s, M) /\ s[k] \in M => Absent(r, M)
  BY RemoveAtOccurs
<1> HIDE DEF r
<1>4. ASSUME NEW e, NEW i \in 1 .. Len(s), s[i] = e, i # k
      PROVE  \E j \in 1 .. Len(r) : r[j] = e
  <2>1. CASE i < k
    <3>1. i \in 1 .. Len(s) - 1
      BY <1>2, <2>1
    <3> QED BY <1>1, <1>4, <2>1, <3>1
  <2>2. CASE ~ (i < k)
    <3>1. i - 1 \in 1 .. Len(s) - 1 /\ ~ (i - 1 < k) /\ (i - 1) + 1 = i
      BY <1>2, <1>4, <2>2
    <3> QED BY <1>1, <1>4, <3>1
  <2> QED BY <2>1, <2>2
<1>5. ASSUME NEW e, Once(s, M, e), s[k] \notin M PROVE Once(r, M, e)
  <2>1. PICK i \in 1 .. Len(s) : s[i] = e /\ e \in M
    BY <1>5 DEF Once
  <2>2. \E j \in 1 .. Len(r) : r[j] = e
    BY <1>4, <1>5, <2>1
  <2> QED BY <1>3, <1>5, <2>1, <2>2 DEF Once
<1> QED BY <1>3, <1>5 DEF Kept, Once, r

\* Taking the first element.
THEOREM TailOnce ==
  ASSUME NEW T, NEW s \in Seq(T), s # <<>>, NEW M
  PROVE  /\ Head(s) \notin M => Kept(s, Tail(s), M)
         /\ \A e : Once(s, M, e) /\ Head(s) \in M => Head(s) = e /\ Absent(Tail(s), M)
         /\ Head(s) \in M => ~ Absent(s, M)
<1>1. 1 \in 1 .. Len(s) /\ Head(s) = s[1]
  BY TailFacts
<1>2. Tail(s) = RemoveAt(s, 1)
  BY TailIsRemoveAt
<1>3. /\ s[1] \notin M => Kept(s, RemoveAt(s, 1), M)
      /\ \A e : Once(s, M, e) /\ s[1] \in M => Absent(RemoveAt(s, 1), M)
  BY <1>1, RemoveAtOnce
<1>4. \A e : Once(s, M, e) /\ s[1] \in M => s[1] = e
  BY <1>1, OnceFacts
<1>5. s[1] \in M => ~ Absent(s, M)
  BY <1>1 DEF Absent
<1> QED BY <1>1, <1>2, <1>3, <1>4, <1>5
-----------------------------------------------------------------------------
(* Queues that are served in turn *)

\* N queues of elements of T.
RoundRobins(N, T) == [pon : [1 .. N -> Seq(T)], next : 1 .. N, allEmpty : BOOLEAN]

THEOREM Around ==
  ASSUME NEW N \in Nat \ {0}, NEW x \in 0 .. N - 1
  PROVE  x % N = x /\ (x + N) % N = x
OBVIOUS

\* Every queue has its turn, and only queues have.
THEOREM TurnFacts ==
  ASSUME NEW N \in Nat \ {0}, NEW T, NEW q \in RoundRobins(N, T)
  PROVE  /\ Len(q.pon) = N
         /\ \A k \in 0 .. N - 1 : Turn(q, k) \in 1 .. N
         /\ \A i \in 1 .. N : \E k \in 0 .. N - 1 : Turn(q, k) = i
<1>1. Len(q.pon) = N
  <2>1. q.pon \in [1 .. N -> Seq(T)]
    BY DEF RoundRobins
  <2> QED BY <2>1, LenProperties
<1>2. q.next \in 1 .. N
  BY DEF RoundRobins
<1>3. \A k \in 0 .. N - 1 : Turn(q, k) \in 1 .. N
  BY <1>1, <1>2 DEF Turn
<1>4. ASSUME NEW i \in 1 .. N
      PROVE  \E k \in 0 .. N - 1 : Turn(q, k) = i
  <2>1. i - 1 \in 0 .. N - 1
    OBVIOUS
  <2>2. (i - 1) % N = i - 1 /\ ((i - 1) + N) % N = i - 1
    BY <2>1, Around
  <2>3. CASE i >= q.next
    <3>1. i - q.next \in 0 .. N - 1 /\ q.next + (i - q.next) - 1 = i - 1
      BY <1>2, <2>3
    <3>2. Turn(q, i - q.next) = ((i - 1) % N) + 1
      BY <1>1, <3>1 DEF Turn
    <3>3. Turn(q, i - q.next) = i
      BY <2>2, <3>2
    <3> QED BY <3>1, <3>3
  <2>4. CASE i < q.next
    <3>1. /\ i - q.next + N \in 0 .. N - 1
          /\ q.next + (i - q.next + N) - 1 = (i - 1) + N
      BY <1>2, <2>4
    <3>2. Turn(q, i - q.next + N) = (((i - 1) + N) % N) + 1
      BY <1>1, <3>1 DEF Turn
    <3>3. Turn(q, i - q.next + N) = i
      BY <2>2, <3>2
    <3> QED BY <3>1, <3>3
  <2> QED BY <1>2, <2>3, <2>4
<1> QED BY <1>1, <1>3, <1>4

\* The queue that is served has a frame.
THEOREM ServedFacts ==
  ASSUME NEW N \in Nat \ {0}, NEW T, NEW q \in RoundRobins(N, T), ~ NoFrame(q.pon)
  PROVE  Served(q) \in 1 .. N /\ q.pon[Served(q)] # <<>>
<1> DEFINE ahead == {k \in 0 .. Len(q.pon) - 1 : q.pon[Turn(q, k)] # <<>>}
<1>0. /\ Len(q.pon) = N
      /\ \A k \in 0 .. N - 1 : Turn(q, k) \in 1 .. N
      /\ \A i \in 1 .. N : \E k \in 0 .. N - 1 : Turn(q, k) = i
  BY TurnFacts
<1>1. PICK i \in 1 .. N : q.pon[i] # <<>>
  BY <1>0 DEF NoFrame
<1>2. PICK k \in 0 .. N - 1 : Turn(q, k) = i
  BY <1>0
<1>3. k \in ahead /\ ahead \in SUBSET Nat
  BY <1>0, <1>1, <1>2
<1>4. \E m \in ahead : \A j \in ahead : m <= j
  <2> HIDE DEF ahead
  <2> QED BY <1>3, LeastMember
<1>5. PICK m \in ahead : Served(q) = Turn(q, m)
  BY <1>4 DEF Served
<1> QED BY <1>0, <1>5

(***************************************************************************)
(* requestPacket: it returns a frame unless there is none, and notes when  *)
(* there is none; no queue grows.                                          *)
(***************************************************************************)
THEOREM RequestFacts ==
  ASSUME NEW N \in Nat \ {0}, NEW T, NEW q \in RoundRobins(N, T)
  PROVE  /\ RequestPacket(q) \in RoundRobins(N, T)
         /\ PacketFor(q) = <<>> \/ \E f \in T : PacketFor(q) = <<f>>
         /\ PacketFor(q) # <<>> \/ (NoFrame(RequestPacket(q).pon) /\ RequestPacket(q).allEmpty)
         /\ \A i \in 1 .. N : Len(RequestPacket(q).pon[i]) <= Len(q.pon[i])
<1>0. /\ q.pon \in [1 .. N -> Seq(T)]
      /\ \A i \in 1 .. N : Len(q.pon[i]) \in Nat
  <2>1. q.pon \in [1 .. N -> Seq(T)]
    BY DEF RoundRobins
  <2> QED BY <2>1, LenProperties
<1>1. CASE NoFrame(q.pon)
  <2>1. RequestPacket(q) = [q EXCEPT !.allEmpty = TRUE] /\ PacketFor(q) = <<>>
    BY <1>1 DEF RequestPacket, PacketFor
  <2>2. /\ [q EXCEPT !.allEmpty = TRUE] \in RoundRobins(N, T)
        /\ [q EXCEPT !.allEmpty = TRUE].pon = q.pon
        /\ [q EXCEPT !.allEmpty = TRUE].allEmpty
    BY DEF RoundRobins
  <2> QED BY <1>0, <1>1, <2>1, <2>2
<1>2. CASE ~ NoFrame(q.pon)
  <2> DEFINE i == Served(q)
             pon == [q.pon EXCEPT ![i] = Tail(@)]
             next == (i % Len(pon)) + 1
  <2>1. i \in 1 .. N /\ q.pon[i] # <<>>
    BY <1>2, ServedFacts
  <2> HIDE DEF i
  <2>2. q.pon[i] \in Seq(T)
    BY <1>0, <2>1
  <2>3. /\ Tail(q.pon[i]) \in Seq(T) /\ Head(q.pon[i]) \in T
        /\ Len(Tail(q.pon[i])) <= Len(q.pon[i])
    BY <2>1, <2>2, TailFacts
  <2>4. /\ pon \in [1 .. N -> Seq(T)]
        /\ \A j \in 1 .. N : Len(pon[j]) <= Len(q.pon[j])
    BY <1>0, <2>1, <2>3
  <2> HIDE DEF pon
  <2>5. Len(pon) = N
    BY <2>4, LenProperties
  <2>6. next \in 1 .. N
    BY <2>1, <2>5
  <2> HIDE DEF next
  <2>7. NoFrame(pon) \in BOOLEAN
    BY DEF NoFrame
  <2>8. /\ [q EXCEPT !.pon = pon, !.next = next, !.allEmpty = NoFrame(pon)] \in RoundRobins(N, T)
        /\ [q EXCEPT !.pon = pon, !.next = next, !.allEmpty = NoFrame(pon)].pon = pon
    BY <2>4, <2>6, <2>7 DEF RoundRobins
  <2>9. RequestPacket(q) = [q EXCEPT !.pon = pon, !.next = next, !.allEmpty = NoFrame(pon)]
    BY <1>2 DEF RequestPacket, pon, next, i
  <2>10. PacketFor(q) = <<Head(q.pon[i])>>
    BY <1>2 DEF PacketFor, i
  <2> QED BY <2>3, <2>4, <2>8, <2>9, <2>10
<1> QED BY <1>1, <1>2

(***************************************************************************)
(* requestPacket knows whether it leaves a frame, and leaves none when     *)
(* there was one at most.                                                  *)
(***************************************************************************)
THEOREM RequestLeaves ==
  ASSUME NEW N \in Nat \ {0}, NEW T, NEW q \in RoundRobins(N, T)
  PROVE  /\ NoFrame(q.pon) => PacketFor(q) = <<>> /\ RequestPacket(q).pon = q.pon
         /\ RequestPacket(q).allEmpty => NoFrame(RequestPacket(q).pon)
<1>1. CASE NoFrame(q.pon)
  <2>1. RequestPacket(q) = [q EXCEPT !.allEmpty = TRUE] /\ PacketFor(q) = <<>>
    BY <1>1 DEF RequestPacket, PacketFor
  <2>2. [q EXCEPT !.allEmpty = TRUE].pon = q.pon
    BY DEF RoundRobins
  <2> QED BY <1>1, <2>1, <2>2
<1>2. CASE ~ NoFrame(q.pon)
  <2> PICK pon : pon = [q.pon EXCEPT ![Served(q)] = Tail(@)]
    OBVIOUS
  <2> PICK next : next = (Served(q) % Len(pon)) + 1
    OBVIOUS
  <2>1. RequestPacket(q) = [q EXCEPT !.pon = pon, !.next = next, !.allEmpty = NoFrame(pon)]
    BY <1>2 DEF RequestPacket
  <2>2. RequestPacket(q).pon = pon /\ RequestPacket(q).allEmpty = NoFrame(pon)
    BY <2>1 DEF RoundRobins
  <2> QED BY <1>2, <2>2
<1> QED BY <1>1, <1>2

THEOREM OneFrameLeft ==
  ASSUME NEW N \in Nat \ {0}, NEW T, NEW q \in RoundRobins(N, T), NEW i \in 1 .. N,
         \A j \in 1 .. N : j # i => q.pon[j] = <<>>,
         Len(q.pon[i]) <= 1
  PROVE  NoFrame(RequestPacket(q).pon)
<1>0. q.pon \in [1 .. N -> Seq(T)] /\ Len(q.pon) = N
  <2>1. q.pon \in [1 .. N -> Seq(T)]
    BY DEF RoundRobins
  <2> QED BY <2>1, LenProperties
<1>1. CASE NoFrame(q.pon)
  BY <1>1, RequestLeaves
<1>2. CASE ~ NoFrame(q.pon)
  <2>1. Served(q) = i /\ q.pon[i] # <<>>
    BY <1>2, ServedFacts
  <2> PICK pon : pon = [q.pon EXCEPT ![i] = Tail(q.pon[i])]
    OBVIOUS
  <2> PICK next : next = (i % Len(pon)) + 1
    OBVIOUS
  <2>2. RequestPacket(q) = [q EXCEPT !.pon = pon, !.next = next, !.allEmpty = NoFrame(pon)]
    BY <1>2, <2>1 DEF RequestPacket
  <2>3. RequestPacket(q).pon = pon
    BY <2>2 DEF RoundRobins
  <2>4. Tail(q.pon[i]) = <<>>
    <3>1. Tail(q.pon[i]) \in Seq(T) /\ Len(Tail(q.pon[i])) = Len(q.pon[i]) - 1 /\ Len(q.pon[i]) \in Nat \ {0}
      BY <1>0, <2>1, TailFacts
    <3>2. \A n \in Nat \ {0} : n <= 1 => n - 1 = 0
      OBVIOUS
    <3>3. Len(Tail(q.pon[i])) = 0
      BY <3>1, <3>2
    <3> QED BY <3>1, <3>3, EmptySeq
  <2>5. \A j \in 1 .. N : pon[j] = <<>>
    BY <1>0, <2>4
  <2>6. Len(pon) = N
    <3>1. pon \in [1 .. N -> Seq(T)]
      BY <1>0, <2>4, EmptySeq
    <3> QED BY <3>1, LenProperties
  <2>7. NoFrame(pon)
    BY <2>5, <2>6 DEF NoFrame
  <2> QED BY <2>3, <2>7
<1> QED BY <1>1, <1>2
=============================================================================
