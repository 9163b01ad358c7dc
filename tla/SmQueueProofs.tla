---------------------------- MODULE SmQueueProofs ----------------------------
(***************************************************************************)
(* Proofs about the queue, for every number of nodes and every value. What *)
(* its list is, is computed by the recursive function Walk. The proofs are *)
(* about a sequence of nodes that the pointers follow: that there is one   *)
(* is the inductive invariant, and Walk then goes along it.                *)
(***************************************************************************)
EXTENDS SmQueue, TLAPS, WellFoundedInduction, SequenceTheorems, FiniteSetTheorems

(***************************************************************************)
(* Numbers: induction, over a set instead of a predicate.                  *)
(***************************************************************************)

\* A nonempty set of naturals has a least element, and Min is it.
LEMMA LeastNumber ==
  ASSUME NEW T, T \subseteq Nat, T # {}
  PROVE  Min(T) \in T /\ \A k \in T : Min(T) <= k
<1> DEFINE R == OpToRel(<, Nat)
<1>1. IsWellFoundedOn(R, Nat)
  BY NatLessThanWellFounded
<1>2. \A j, k \in Nat : j < k => <<j, k>> \in R
  BY DEF OpToRel
<1> HIDE DEF R
<1>3. PICK x \in T : \A y \in T : ~ (<<y, x>> \in R)
  BY <1>1, WFMin
<1>4. \A y \in T : x <= y
  <2> TAKE y \in T
  <2>1. ~ (y < x)
    BY <1>2, <1>3
  <2> QED
    BY <2>1
<1> QED
  BY <1>4 DEF Min

\* A set that holds 0 and the successor of each natural in it holds them all.
LEMMA Induction ==
  ASSUME NEW S, 0 \in S, \A n \in Nat : n \in S => n + 1 \in S
  PROVE  Nat \subseteq S
<1> SUFFICES ASSUME Nat \ S # {} PROVE FALSE
  OBVIOUS
<1> DEFINE m == Min(Nat \ S)
<1>1. m \in Nat \ S /\ \A k \in Nat \ S : m <= k
  BY LeastNumber
<1> HIDE DEF m
<1>2. m # 0
  BY <1>1
<1>3. m - 1 \in Nat /\ m - 1 \in S
  BY <1>1, <1>2
<1> QED
  BY <1>1, <1>3

(***************************************************************************)
(* Sequences.                                                              *)
(***************************************************************************)

\* No node twice.
Distinct(s) == \A i, j \in 1 .. Len(s) : s[i] = s[j] => i = j

\* Two sequences of nodes without a node in common.
Apart(s, t) == \A i \in 1 .. Len(s), j \in 1 .. Len(t) : s[i] # t[j]

\* Taking away the i-th element shifts what follows it.
LEMMA RemoveAtIs ==
  ASSUME NEW S, NEW s \in Seq(S), NEW i \in 1 .. Len(s)
  PROVE  /\ RemoveAt(s, i) \in Seq(S)
         /\ Len(RemoveAt(s, i)) = Len(s) - 1
         /\ \A k \in 1 .. Len(s) - 1 :
              RemoveAt(s, i)[k] = IF k < i THEN s[k] ELSE s[k + 1]
<1> DEFINE a == SubSeq(s, 1, i - 1)
           b == SubSeq(s, i + 1, Len(s))
<1>0. Len(s) \in Nat /\ \A k \in 1 .. Len(s) : s[k] \in S
  BY LenProperties, ElementOfSeq
<1>1. a \in Seq(S) /\ Len(a) = i - 1 /\ \A k \in 1 .. i - 1 : a[k] = s[k]
  <2>1. \A k \in 1 .. i - 1 : s[k] \in S
    BY <1>0
  <2> QED
    BY <1>0, <2>1, SubSeqProperties, Z3
<1>2. b \in Seq(S) /\ Len(b) = Len(s) - i /\ \A k \in 1 .. Len(s) - i : b[k] = s[k + i]
  <2>1. \A k \in i + 1 .. Len(s) : s[k] \in S
    BY <1>0
  <2> QED
    BY <1>0, <2>1, SubSeqProperties, Z3
<1> HIDE DEF a, b
<1>3. /\ a \o b \in Seq(S) /\ Len(a \o b) = Len(a) + Len(b)
      /\ \A k \in 1 .. Len(a) + Len(b) : (a \o b)[k] = IF k <= Len(a) THEN a[k] ELSE b[k - Len(a)]
  BY <1>1, <1>2, ConcatProperties
<1>4. RemoveAt(s, i) = a \o b
  BY DEF RemoveAt, a, b
<1>5. \A k \in 1 .. Len(s) - 1 : (a \o b)[k] = IF k < i THEN s[k] ELSE s[k + 1]
  <2> TAKE k \in 1 .. Len(s) - 1
  <2>1. CASE k < i
    BY <1>0, <1>1, <1>2, <1>3, <2>1
  <2>2. CASE ~ (k < i)
    <3>1. k - (i - 1) \in 1 .. Len(s) - i
      BY <1>0, <2>2
    <3>2. (a \o b)[k] = b[k - (i - 1)]
      BY <1>0, <1>1, <1>2, <1>3, <2>2
    <3>3. b[k - (i - 1)] = s[(k - (i - 1)) + i]
      BY <1>2, <3>1
    <3>4. (k - (i - 1)) + i = k + 1
      BY <1>0
    <3> QED
      BY <2>2, <3>2, <3>3, <3>4
  <2> QED
    BY <2>1, <2>2
<1> QED
  BY <1>0, <1>1, <1>2, <1>3, <1>4, <1>5

LEMMA ReverseIs ==
  ASSUME NEW S, NEW s \in Seq(S)
  PROVE  /\ Reverse(s) \in Seq(S)
         /\ Len(Reverse(s)) = Len(s)
         /\ \A k \in 1 .. Len(s) : Reverse(s)[k] = s[(Len(s) - k) + 1]
<1>1. Len(s) \in Nat /\ \A k \in 1 .. Len(s) : s[k] \in S
  BY LenProperties, ElementOfSeq
<1>2. Reverse(s) \in [1 .. Len(s) -> S]
  BY <1>1 DEF Reverse
<1> QED
  BY <1>1, <1>2 DEF Reverse

\* Two sequences of different nodes, with none in common, one after the other.
LEMMA ConcatIs ==
  ASSUME NEW s \in Seq(Nodes), NEW t \in Seq(Nodes), Distinct(s), Distinct(t), Apart(s, t)
  PROVE  /\ s \o t \in Seq(Nodes) /\ Distinct(s \o t)
         /\ Range(s \o t) = Range(s) \cup Range(t)
<1> DEFINE u == s \o t
<1>1. Len(s) \in Nat /\ Len(t) \in Nat
  BY LenProperties
<1>2. /\ u \in Seq(Nodes) /\ Len(u) = Len(s) + Len(t)
      /\ \A k \in 1 .. Len(s) + Len(t) : u[k] = IF k <= Len(s) THEN s[k] ELSE t[k - Len(s)]
  BY ConcatProperties
<1>3. Range(u) = Range(s) \cup Range(t)
  BY RangeConcatenation
<1> HIDE DEF u
<1>4. ASSUME NEW j \in 1 .. Len(u), NEW k \in 1 .. Len(u), u[j] = u[k]
      PROVE  j = k
  <2>1. CASE j <= Len(s) /\ k <= Len(s)
    BY <1>1, <1>2, <1>4, <2>1 DEF Distinct
  <2>2. ASSUME NEW a \in 1 .. Len(u), NEW b \in 1 .. Len(u), a <= Len(s), ~ (b <= Len(s))
        PROVE  u[a] # u[b]
    <3>1. a \in 1 .. Len(s) /\ u[a] = s[a]
      BY <1>1, <1>2, <2>2
    <3>2. b - Len(s) \in 1 .. Len(t) /\ u[b] = t[b - Len(s)]
      BY <1>1, <1>2, <2>2
    <3> QED
      BY <3>1, <3>2 DEF Apart
  <2>3. CASE ~ (j <= Len(s)) /\ ~ (k <= Len(s))
    <3>1. /\ j - Len(s) \in 1 .. Len(t) /\ u[j] = t[j - Len(s)]
          /\ k - Len(s) \in 1 .. Len(t) /\ u[k] = t[k - Len(s)]
      BY <1>1, <1>2, <2>3
    <3>2. j - Len(s) = k - Len(s)
      BY <1>4, <3>1 DEF Distinct
    <3> QED
      BY <1>1, <1>2, <3>2
  <2> QED
    BY <1>4, <2>1, <2>2, <2>3
<1> QED
  BY <1>2, <1>3, <1>4 DEF u, Distinct

\* As many different nodes as a sequence is long.
LEMMA PigeonHole ==
  ASSUME NEW s \in Seq(Nodes), Distinct(s)
  PROVE  Len(s) \in Nat /\ Len(s) <= Cardinality(Nodes) /\ Len(s) < SizeRange
<1>1. Len(s) \in Nat /\ s \in [1 .. Len(s) -> Nodes]
  BY LenProperties
<1>2. IsFiniteSet(1 .. Len(s)) /\ Cardinality(1 .. Len(s)) = Len(s)
  BY <1>1, FS_Interval
<1>3. Cardinality(Nodes) \in Nat
  BY QueueAssumption, FS_CardinalityType
<1>4. ~ (Cardinality(Nodes) < Cardinality(1 .. Len(s)))
  BY <1>1, <1>2, QueueAssumption, FS_PigeonHole DEF Distinct
<1> QED
  BY <1>1, <1>2, <1>3, <1>4, QueueAssumption

(***************************************************************************)
(* Walk satisfies the equation it is defined by.                           *)
(***************************************************************************)

\* The first n steps of the walk.
Steps(g, n) == g = [k \in 0 .. n |-> IF k = 0 THEN m_Head ELSE next[g[k - 1]]]

LEMMA StepsExist == \A n \in Nat : \E g : Steps(g, n)
<1> DEFINE S == {n \in Nat : \E g : Steps(g, n)}
<1>1. 0 \in S
  <2> DEFINE g == [k \in 0 .. 0 |-> m_Head]
  <2>1. Steps(g, 0)
    BY DEF Steps
  <2> QED
    BY <2>1
<1>2. ASSUME NEW n \in Nat, n \in S
      PROVE  n + 1 \in S
  <2>1. PICK g : Steps(g, n)
    BY <1>2
  <2> DEFINE h == [k \in 0 .. n + 1 |-> IF k = n + 1 THEN next[g[n]] ELSE g[k]]
  <2>2. \A k \in 0 .. n : h[k] = g[k]
    OBVIOUS
  <2>3. \A k \in 0 .. n : g[k] = IF k = 0 THEN m_Head ELSE next[g[k - 1]]
    BY <2>1 DEF Steps
  <2>4. \A k \in 0 .. n + 1 : h[k] = IF k = 0 THEN m_Head ELSE next[h[k - 1]]
    <3> TAKE k \in 0 .. n + 1
    <3>1. CASE k = n + 1
      BY <3>1
    <3>2. CASE k \in 0 .. n
      <4>1. k # 0 => k - 1 \in 0 .. n
        BY <3>2
      <4> HIDE DEF h
      <4> QED
        BY <2>2, <2>3, <3>2, <4>1
    <3> QED
      BY <3>1, <3>2
  <2>5. h = [k \in 0 .. n + 1 |-> h[k]]
    OBVIOUS
  <2> HIDE DEF h
  <2>6. Steps(h, n + 1)
    BY <2>4, <2>5 DEF Steps
  <2> QED
    BY <2>6
<1> HIDE DEF S
<1>3. Nat \subseteq S
  BY <1>1, <1>2, Induction
<1> QED
  BY <1>3 DEF S

LEMMA StepsAgree ==
  ASSUME NEW m \in Nat, NEW n \in Nat, NEW g, NEW h, Steps(g, m), Steps(h, n)
  PROVE  \A k \in Nat : k <= m /\ k <= n => g[k] = h[k]
<1> DEFINE S == {k \in Nat : k <= m /\ k <= n => g[k] = h[k]}
<1>1. /\ \A k \in 0 .. m : g[k] = IF k = 0 THEN m_Head ELSE next[g[k - 1]]
      /\ \A k \in 0 .. n : h[k] = IF k = 0 THEN m_Head ELSE next[h[k - 1]]
  BY DEF Steps
<1>2. 0 \in S
  BY <1>1
<1>3. \A k \in Nat : k \in S => k + 1 \in S
  <2> SUFFICES ASSUME NEW k \in Nat, k \in S, k + 1 <= m, k + 1 <= n
               PROVE  g[k + 1] = h[k + 1]
    OBVIOUS
  <2>1. g[k] = h[k]
    OBVIOUS
  <2>2. g[k + 1] = next[g[k]] /\ h[k + 1] = next[h[k]]
    BY <1>1
  <2> QED
    BY <2>1, <2>2
<1> HIDE DEF S
<1>4. Nat \subseteq S
  BY <1>2, <1>3, Induction
<1> QED
  BY <1>4 DEF S

LEMMA WalkIs == Walk[0] = m_Head /\ \A k \in Nat : Walk[k + 1] = next[Walk[k]]
<1> DEFINE G(n) == CHOOSE g : Steps(g, n)
           f == [n \in Nat |-> G(n)[n]]
<1>1. \A n \in Nat : Steps(G(n), n)
  BY StepsExist
<1> HIDE DEF G
<1>2. \A n \in Nat : f[n] = IF n = 0 THEN m_Head ELSE next[f[n - 1]]
  <2> TAKE n \in Nat
  <2>1. f[n] = IF n = 0 THEN m_Head ELSE next[G(n)[n - 1]]
    BY <1>1 DEF Steps
  <2>2. n # 0 => G(n)[n - 1] = G(n - 1)[n - 1]
    <3> SUFFICES ASSUME n # 0 PROVE G(n)[n - 1] = G(n - 1)[n - 1]
      OBVIOUS
    <3>1. n - 1 \in Nat /\ Steps(G(n), n) /\ Steps(G(n - 1), n - 1)
      BY <1>1
    <3> QED
      BY <3>1, StepsAgree
  <2>3. n # 0 => f[n - 1] = G(n - 1)[n - 1]
    OBVIOUS
  <2> QED
    BY <2>1, <2>2, <2>3
<1>3. f = [n \in Nat |-> f[n]]
  OBVIOUS
<1> HIDE DEF f
<1>4. f = [n \in Nat |-> IF n = 0 THEN m_Head ELSE next[f[n - 1]]]
  BY <1>2, <1>3
<1>5. Walk = [n \in Nat |-> IF n = 0 THEN m_Head ELSE next[Walk[n - 1]]]
  BY <1>4 DEF Walk
<1>6. \A n \in Nat : Walk[n] = IF n = 0 THEN m_Head ELSE next[Walk[n - 1]]
  BY <1>5
<1> QED
  BY <1>6

(***************************************************************************)
(* Rings.                                                                  *)
(***************************************************************************)

\* The cells of a ring in turn: the sentinel, the nodes of s, the sentinel again.
CellAt(s, k) == IF k \in 1 .. Len(s) THEN s[k] ELSE m_Head

\* The pointers nx and pv lead along s and back, through the sentinel.
Linked(s, nx, pv) ==
  \A k \in 0 .. Len(s) : /\ nx[CellAt(s, k)] = CellAt(s, k + 1)
                         /\ pv[CellAt(s, k + 1)] = CellAt(s, k)

\* The cells of one turn are different.
LEMMA CellsDiffer ==
  ASSUME NEW s \in Seq(Nodes), Distinct(s)
  PROVE  /\ Len(s) \in Nat
         /\ CellAt(s, 0) = m_Head /\ CellAt(s, Len(s) + 1) = m_Head
         /\ \A k \in 1 .. Len(s) : CellAt(s, k) = s[k] /\ s[k] \in Nodes /\ s[k] # m_Head
         /\ \A k \in Nat : CellAt(s, k) \in Cells
         /\ \A j, k \in 0 .. Len(s) : CellAt(s, j) = CellAt(s, k) => j = k
<1>1. Len(s) \in Nat
  BY LenProperties
<1>2. \A k \in 1 .. Len(s) : s[k] \in Nodes /\ s[k] # m_Head
  BY ElementOfSeq, QueueAssumption
<1>3. \A k \in 1 .. Len(s) : CellAt(s, k) = s[k]
  BY DEF CellAt
<1>4. CellAt(s, 0) = m_Head /\ CellAt(s, Len(s) + 1) = m_Head
  BY <1>1 DEF CellAt
<1>5. \A k \in Nat : CellAt(s, k) \in Cells
  BY <1>2 DEF CellAt, Cells
<1>6. ASSUME NEW j \in 0 .. Len(s), NEW k \in 0 .. Len(s), CellAt(s, j) = CellAt(s, k)
      PROVE  j = k
  <2>1. CASE j = 0 /\ k # 0
    BY <1>1, <1>2, <1>3, <1>4, <1>6, <2>1
  <2>2. CASE j # 0 /\ k = 0
    BY <1>1, <1>2, <1>3, <1>4, <1>6, <2>2
  <2>3. CASE j # 0 /\ k # 0
    BY <1>1, <1>3, <1>6, <2>3 DEF Distinct
  <2> QED
    BY <2>1, <2>2, <2>3
<1> QED
  BY <1>1, <1>2, <1>3, <1>4, <1>5, <1>6

\* The walk from the sentinel goes along the ring.
LEMMA WalkAlong ==
  ASSUME NEW s \in Seq(Nodes), Distinct(s), Linked(s, next, prev)
  PROVE  \A k \in 0 .. Len(s) + 1 : Walk[k] = CellAt(s, k)
<1> DEFINE S == {k \in Nat : k <= Len(s) + 1 => Walk[k] = CellAt(s, k)}
<1>1. Len(s) \in Nat
  BY CellsDiffer
<1>2. 0 \in S
  BY CellsDiffer, WalkIs
<1>3. \A k \in Nat : k \in S => k + 1 \in S
  <2> SUFFICES ASSUME NEW k \in Nat, k \in S, k + 1 <= Len(s) + 1
               PROVE  Walk[k + 1] = CellAt(s, k + 1)
    OBVIOUS
  <2>1. k \in 0 .. Len(s) /\ Walk[k] = CellAt(s, k)
    BY <1>1
  <2> QED
    BY <2>1, WalkIs DEF Linked
<1> HIDE DEF S
<1>4. Nat \subseteq S
  BY <1>2, <1>3, Induction
<1> QED
  BY <1>1, <1>4 DEF S

\* So Chain, which is computed from next alone, is the sequence of the ring's nodes.
LEMMA ChainIs == \A s \in Seq(Nodes) :
  Distinct(s) /\ Linked(s, next, prev) => Ends # {} /\ Chain = s
<1> SUFFICES ASSUME NEW s \in Seq(Nodes), Distinct(s), Linked(s, next, prev)
             PROVE  Ends # {} /\ Chain = s
  OBVIOUS
<1>1. Len(s) \in Nat /\ s \in [1 .. Len(s) -> Nodes]
  BY LenProperties
<1>2. Len(s) + 1 <= Cardinality(Cells) /\ Cardinality(Cells) \in Nat
  <2>1. Cardinality(Cells) = Cardinality(Nodes) + 1
    BY QueueAssumption, FS_AddElement DEF Cells
  <2>2. Cardinality(Nodes) \in Nat
    BY QueueAssumption, FS_CardinalityType
  <2> QED
    BY <1>1, <2>1, <2>2, PigeonHole
<1>3. \A k \in 1 .. Len(s) : Walk[k] = s[k] /\ s[k] # m_Head
  BY <1>1, WalkAlong, CellsDiffer
<1>4. Walk[Len(s) + 1] = m_Head
  BY <1>1, WalkAlong, CellsDiffer
<1>5. Len(s) + 1 \in Ends /\ \A j \in Ends : Len(s) + 1 <= j
  BY <1>1, <1>2, <1>3, <1>4 DEF Ends
<1>6. (CHOOSE k \in Ends : \A j \in Ends : k <= j) = Len(s) + 1
  <2>1. \A k \in Ends : (\A j \in Ends : k <= j) => k = Len(s) + 1
    BY <1>1, <1>2, <1>5 DEF Ends
  <2> QED
    BY <1>5, <2>1
<1>7. Chain = [k \in 1 .. Len(s) |-> Walk[k]]
  <2>1. (Len(s) + 1) - 1 = Len(s)
    BY <1>1
  <2> QED
    BY <1>6, <2>1 DEF Chain
<1> QED
  BY <1>1, <1>3, <1>5, <1>7

\* What push does to the pointers: its node goes before the sentinel.
LEMMA PushLinks ==
  ASSUME NEW s \in Seq(Nodes), Distinct(s),
         NEW nx \in [Cells -> Cells], NEW pv \in [Cells -> Cells], Linked(s, nx, pv),
         NEW node \in Nodes, \A k \in 1 .. Len(s) : s[k] # node
  PROVE  /\ Append(s, node) \in Seq(Nodes) /\ Distinct(Append(s, node))
         /\ Linked(Append(s, node), [nx EXCEPT ![node] = m_Head, ![pv[m_Head]] = node],
                   [pv EXCEPT ![node] = pv[m_Head], ![m_Head] = node])
<1> DEFINE t == Append(s, node)
           last == CellAt(s, Len(s))
<1>1. /\ Len(s) \in Nat /\ t \in Seq(Nodes) /\ Len(t) = Len(s) + 1
      /\ \A k \in 1 .. Len(s) : t[k] = s[k]
      /\ t[Len(s) + 1] = node
  BY LenProperties, AppendProperties
<1> HIDE DEF t
<1>2. Distinct(t)
  BY <1>1 DEF Distinct
<1>3. \A k \in 0 .. Len(s) : CellAt(t, k) = CellAt(s, k)
  BY <1>1 DEF CellAt
<1>4. CellAt(t, Len(s) + 1) = node /\ CellAt(t, Len(s) + 2) = m_Head
  BY <1>1 DEF CellAt
<1>5. pv[m_Head] = last
  BY <1>1, CellsDiffer DEF Linked
<1>6. last \in Cells /\ node \in Cells /\ m_Head \in Cells /\ node # m_Head /\ node # last
  BY <1>1, CellsDiffer, QueueAssumption DEF Cells, CellAt
<1> DEFINE nx2 == [nx EXCEPT ![node] = m_Head, ![last] = node]
           pv2 == [pv EXCEPT ![node] = last, ![m_Head] = node]
<1>7. /\ nx2[node] = m_Head /\ nx2[last] = node
      /\ \A c \in Cells : c # node /\ c # last => nx2[c] = nx[c]
  BY <1>6
<1>8. /\ pv2[node] = last /\ pv2[m_Head] = node
      /\ \A c \in Cells : c # node /\ c # m_Head => pv2[c] = pv[c]
  BY <1>6
<1> HIDE DEF nx2, pv2
<1>9. ASSUME NEW k \in 0 .. Len(t)
      PROVE  nx2[CellAt(t, k)] = CellAt(t, k + 1) /\ pv2[CellAt(t, k + 1)] = CellAt(t, k)
  <2>1. CASE k \in 0 .. Len(s) - 1
    <3>1. /\ CellAt(t, k) = CellAt(s, k) /\ CellAt(t, k + 1) = CellAt(s, k + 1)
          /\ CellAt(s, k) \in Cells /\ CellAt(s, k + 1) \in Cells
      BY <1>1, <1>3, <2>1, CellsDiffer
    <3>2. CellAt(s, k) # last /\ CellAt(s, k + 1) # m_Head
      BY <1>1, <2>1, CellsDiffer
    <3>3. CellAt(s, k) # node /\ CellAt(s, k + 1) # node
      BY <1>1, <1>6, <2>1 DEF CellAt
    <3>4. nx[CellAt(s, k)] = CellAt(s, k + 1) /\ pv[CellAt(s, k + 1)] = CellAt(s, k)
      BY <1>1, <2>1 DEF Linked
    <3> QED
      BY <1>7, <1>8, <3>1, <3>2, <3>3, <3>4
  <2>2. CASE k = Len(s)
    <3>1. CellAt(t, k) = last /\ CellAt(t, k + 1) = node
      BY <1>1, <1>3, <1>4, <2>2
    <3> QED
      BY <1>7, <1>8, <3>1
  <2>3. CASE k = Len(s) + 1
    <3>1. CellAt(t, k) = node /\ CellAt(t, k + 1) = m_Head
      <4>1. (Len(s) + 1) + 1 = Len(s) + 2
        BY <1>1
      <4> QED
        BY <1>4, <2>3, <4>1
    <3> QED
      BY <1>7, <1>8, <3>1
  <2> QED
    BY <1>1, <2>1, <2>2, <2>3
<1>10. Linked(t, nx2, pv2)
  BY <1>9 DEF Linked
<1> QED
  BY <1>1, <1>2, <1>5, <1>10 DEF t, nx2, pv2

\* What erase does to the pointers: its node is passed over.
LEMMA EraseLinks ==
  ASSUME NEW s \in Seq(Nodes), Distinct(s),
         NEW nx \in [Cells -> Cells], NEW pv \in [Cells -> Cells], Linked(s, nx, pv),
         NEW i \in 1 .. Len(s)
  PROVE  /\ RemoveAt(s, i) \in Seq(Nodes) /\ Distinct(RemoveAt(s, i))
         /\ Linked(RemoveAt(s, i), [nx EXCEPT ![pv[s[i]]] = nx[s[i]]],
                   [pv EXCEPT ![nx[s[i]]] = pv[s[i]]])
<1> DEFINE t == RemoveAt(s, i)
           a == CellAt(s, i - 1)
           b == CellAt(s, i + 1)
<1>1. /\ Len(s) \in Nat /\ t \in Seq(Nodes) /\ Len(t) = Len(s) - 1
      /\ \A k \in 1 .. Len(s) - 1 : t[k] = IF k < i THEN s[k] ELSE s[k + 1]
  BY LenProperties, RemoveAtIs
<1> HIDE DEF t
<1>2. Distinct(t)
  BY <1>1 DEF Distinct
<1>3. \A k \in 0 .. Len(s) : CellAt(t, k) = IF k < i THEN CellAt(s, k) ELSE CellAt(s, k + 1)
  BY <1>1 DEF CellAt
<1>4. pv[s[i]] = a /\ nx[s[i]] = b
  <2>1. s[i] = CellAt(s, i) /\ i - 1 \in 0 .. Len(s) /\ i \in 0 .. Len(s) /\ (i - 1) + 1 = i
    BY <1>1, CellsDiffer
  <2> QED
    BY <2>1 DEF Linked
<1>5. a \in Cells /\ b \in Cells
  BY <1>1, CellsDiffer
<1> DEFINE nx2 == [nx EXCEPT ![a] = b]
           pv2 == [pv EXCEPT ![b] = a]
<1>6. /\ nx2[a] = b /\ pv2[b] = a
      /\ \A c \in Cells : (c # a => nx2[c] = nx[c]) /\ (c # b => pv2[c] = pv[c])
  BY <1>5
<1> HIDE DEF nx2, pv2
<1>7. ASSUME NEW k \in 0 .. Len(s) - 1
      PROVE  nx2[CellAt(t, k)] = CellAt(t, k + 1) /\ pv2[CellAt(t, k + 1)] = CellAt(t, k)
  <2>0. k \in 0 .. Len(s) /\ k + 1 \in 0 .. Len(s) /\ (k + 1) + 1 = k + 2
    BY <1>1
  <2>1. CASE k = i - 1
    <3>1. CellAt(t, k) = a /\ CellAt(t, k + 1) = b
      <4>1. k < i /\ ~ (k + 1 < i) /\ (k + 1) + 1 = i + 1
        BY <2>1
      <4> QED
        BY <1>3, <2>0, <2>1, <4>1
    <3> QED
      BY <1>6, <3>1
  <2>2. CASE k < i - 1
    <3>1. CellAt(t, k) = CellAt(s, k) /\ CellAt(t, k + 1) = CellAt(s, k + 1)
      BY <1>3, <2>0, <2>2
    <3>2. CellAt(s, k) # a
      BY <1>1, <2>0, <2>2, CellsDiffer
    <3>3. CellAt(s, k + 1) # b
      BY <1>1, <2>0, <2>2, CellsDiffer DEF CellAt
    <3>4. nx[CellAt(s, k)] = CellAt(s, k + 1) /\ pv[CellAt(s, k + 1)] = CellAt(s, k)
      BY <2>0 DEF Linked
    <3> QED
      BY <1>6, <2>0, <3>1, <3>2, <3>3, <3>4, CellsDiffer
  <2>3. CASE k > i - 1
    <3>1. CellAt(t, k) = CellAt(s, k + 1) /\ CellAt(t, k + 1) = CellAt(s, k + 2)
      BY <1>3, <2>0, <2>3
    <3>2. CellAt(s, k + 1) # a
      BY <1>1, <2>0, <2>3, CellsDiffer
    <3>3. CellAt(s, k + 2) # b
      BY <1>1, <2>0, <2>3, CellsDiffer DEF CellAt, Distinct
    <3>4. nx[CellAt(s, k + 1)] = CellAt(s, k + 2) /\ pv[CellAt(s, k + 2)] = CellAt(s, k + 1)
      BY <2>0 DEF Linked
    <3> QED
      BY <1>6, <2>0, <3>1, <3>2, <3>3, <3>4, CellsDiffer
  <2> QED
    BY <2>1, <2>2, <2>3
<1>8. Linked(t, nx2, pv2)
  BY <1>1, <1>7 DEF Linked
<1> QED
  BY <1>1, <1>2, <1>4, <1>8 DEF t, nx2, pv2

(***************************************************************************)
(* The inductive invariant.                                                *)
(***************************************************************************)

\* The kept nodes are different, none is in the ring, and there is no third
\* place a node got from malloc could be.
Kept(s, free, hp) ==
  /\ free \in Seq(Nodes) /\ Distinct(free) /\ Apart(s, free)
  /\ hp = {m_Head} \cup Range(s) \cup Range(free)

\* The ring holds the nodes of s, in that order.
Holds(s) ==
  /\ Distinct(s) /\ Linked(s, next, prev)
  /\ m_Size = Len(s)
  /\ Kept(s, m_FreeNodes, heap)

FieldTypes ==
  /\ next \in [Cells -> Cells] /\ prev \in [Cells -> Cells]
  /\ obj \in [Cells -> Values \cup {Garbage}]
  /\ ctx \in Values \cup {Garbage}
  /\ destroyed \in BOOLEAN

RingInv == ~destroyed => \E s \in Seq(Nodes) : Holds(s)

GoneInv == destroyed => m_Size = 0 /\ m_FreeNodes = <<>> /\ heap = {}

Inv == FieldTypes /\ RingInv /\ GoneInv

LEMMA InvInit == Init => Inv
<1> SUFFICES ASSUME Init PROVE Inv
  OBVIOUS
<1>1. FieldTypes
  BY DEF Init, FieldTypes, Cells
<1>2. <<>> \in Seq(Nodes) /\ Len(<<>>) = 0 /\ Range(<<>>) = {}
  <2>1. <<>> \in Seq(Nodes) /\ Len(<<>>) = 0
    BY EmptySeq
  <2>2. Range(<<>>) = {<<>>[i] : i \in 1 .. Len(<<>>)}
    BY <2>1, RangeEquality
  <2>3. 1 .. Len(<<>>) = {}
    BY <2>1
  <2> QED
    BY <2>1, <2>2, <2>3
<1>3. Distinct(<<>>) /\ Apart(<<>>, <<>>)
  BY <1>2 DEF Distinct, Apart
<1>4. Linked(<<>>, next, prev)
  BY <1>2 DEF Init, Linked, CellAt, Cells
<1>5. Holds(<<>>)
  BY <1>2, <1>3, <1>4 DEF Init, Holds, Kept
<1> QED
  BY <1>1, <1>2, <1>5 DEF Init, Inv, RingInv, GoneInv

\* A push appends a node that was in no use.
LEMMA PushStep ==
  ASSUME FieldTypes, NEW s \in Seq(Nodes), Holds(s), NEW v \in Values, push(v)
  PROVE  \E node \in Nodes :
           /\ \A k \in 1 .. Len(s) : s[k] # node
           /\ Append(s, node) \in Seq(Nodes)
           /\ Holds(Append(s, node))'
           /\ obj' = [obj EXCEPT ![node] = v]
           /\ FieldTypes'
<1>1. PICK node \in Cells :
        /\ TakeNode(node)
        /\ obj' = [obj EXCEPT ![node] = v]
        /\ next' = [next EXCEPT ![node] = m_Head, ![prev[m_Head]] = node]
        /\ prev' = [prev EXCEPT ![node] = prev[m_Head], ![m_Head] = node]
  BY DEF push
<1>2. /\ Distinct(s) /\ Linked(s, next, prev) /\ m_Size = Len(s)
      /\ m_FreeNodes \in Seq(Nodes) /\ Distinct(m_FreeNodes) /\ Apart(s, m_FreeNodes)
      /\ heap = {m_Head} \cup Range(s) \cup Range(m_FreeNodes)
  BY DEF Holds, Kept
<1>3. /\ Len(s) \in Nat /\ Range(s) = {s[k] : k \in 1 .. Len(s)}
      /\ Len(m_FreeNodes) \in Nat
      /\ Range(m_FreeNodes) = {m_FreeNodes[k] : k \in 1 .. Len(m_FreeNodes)}
  BY <1>2, LenProperties, RangeEquality
<1>4. node \in Nodes /\ \A k \in 1 .. Len(s) : s[k] # node
  <2>1. CASE m_FreeNodes # <<>>
    <3>1. node = m_FreeNodes[1] /\ 1 \in 1 .. Len(m_FreeNodes)
      BY <1>1, <1>2, <1>3, <2>1, EmptySeq DEF TakeNode
    <3> QED
      BY <1>2, <3>1, ElementOfSeq DEF Apart
  <2>2. CASE m_FreeNodes = <<>>
    BY <1>1, <1>2, <1>3, <2>2 DEF TakeNode, Cells
  <2> QED
    BY <2>1, <2>2
<1> DEFINE t == Append(s, node)
<1>5. t \in Seq(Nodes) /\ Distinct(t) /\ Linked(t, next', prev')
  BY <1>1, <1>2, <1>4, PushLinks DEF FieldTypes
<1>6. /\ Len(t) = Len(s) + 1 /\ \A k \in 1 .. Len(s) : t[k] = s[k]
      /\ t[Len(s) + 1] = node
  BY <1>4, AppendProperties
<1>7. Range(t) = Range(s) \cup {node}
  <2>1. Range(t) = {t[k] : k \in 1 .. Len(t)}
    BY <1>5, RangeEquality
  <2> HIDE DEF t
  <2>2. \A k \in 1 .. Len(t) : k \in 1 .. Len(s) \/ k = Len(s) + 1
    BY <1>3, <1>6
  <2>3. \A k \in 1 .. Len(s) : k \in 1 .. Len(t)
    BY <1>3, <1>6
  <2>4. Len(s) + 1 \in 1 .. Len(t)
    BY <1>3, <1>6
  <2> QED
    BY <1>3, <1>6, <2>1, <2>2, <2>3, <2>4
<1> HIDE DEF t
<1>8. m_Size' = Len(t)
  <2>1. Len(s) + 1 \in Nat /\ Len(s) + 1 < SizeRange
    BY <1>3, <1>5, <1>6, PigeonHole
  <2>2. (Len(s) + 1) % SizeRange = Len(s) + 1
    BY <2>1, QueueAssumption
  <2> QED
    BY <1>2, <1>6, <2>2 DEF push
<1>9. Kept(t, m_FreeNodes', heap')
  <2>1. CASE m_FreeNodes # <<>>
    <3>1. /\ node = m_FreeNodes[1] /\ m_FreeNodes' = Tail(m_FreeNodes) /\ heap' = heap
          /\ Len(m_FreeNodes) # 0
      BY <1>1, <1>2, <2>1, EmptySeq DEF TakeNode
    <3>2. /\ m_FreeNodes' \in Seq(Nodes) /\ Len(m_FreeNodes') = Len(m_FreeNodes) - 1
          /\ \A k \in 1 .. Len(m_FreeNodes) - 1 : m_FreeNodes'[k] = m_FreeNodes[k + 1]
      BY <1>2, <2>1, <3>1, HeadTailProperties
    <3>3. Distinct(m_FreeNodes')
      BY <1>2, <1>3, <3>1, <3>2 DEF Distinct
    <3>4. Apart(t, m_FreeNodes')
      <4> SUFFICES ASSUME NEW i \in 1 .. Len(t), NEW j \in 1 .. Len(m_FreeNodes')
                   PROVE  t[i] # m_FreeNodes'[j]
        BY DEF Apart
      <4>1. /\ m_FreeNodes'[j] = m_FreeNodes[j + 1] /\ j + 1 # 1
            /\ j + 1 \in 1 .. Len(m_FreeNodes) /\ 1 \in 1 .. Len(m_FreeNodes)
        BY <1>3, <3>1, <3>2
      <4>2. CASE i \in 1 .. Len(s)
        BY <1>2, <1>6, <4>1, <4>2 DEF Apart
      <4>3. CASE i = Len(s) + 1
        BY <1>2, <1>6, <3>1, <4>1, <4>3 DEF Distinct
      <4> QED
        BY <1>3, <1>6, <4>2, <4>3
    <3>5. Range(m_FreeNodes) = Range(m_FreeNodes') \cup {node}
      <4>1. Range(m_FreeNodes') = {m_FreeNodes'[k] : k \in 1 .. Len(m_FreeNodes')}
        BY <3>2, RangeEquality
      <4>2. \A k \in 1 .. Len(m_FreeNodes) : k = 1 \/ k - 1 \in 1 .. Len(m_FreeNodes) - 1
        BY <1>3
      <4>3. \A k \in 1 .. Len(m_FreeNodes) :
              k = 1 \/ m_FreeNodes[k] \in Range(m_FreeNodes')
        <5> TAKE k \in 1 .. Len(m_FreeNodes)
        <5>1. k # 1 => m_FreeNodes'[k - 1] = m_FreeNodes[(k - 1) + 1]
          BY <3>2, <4>2
        <5>2. (k - 1) + 1 = k
          BY <1>3
        <5> QED
          BY <3>2, <4>1, <4>2, <5>1, <5>2
      <4>4. \A k \in 1 .. Len(m_FreeNodes') :
              k + 1 \in 1 .. Len(m_FreeNodes) /\ m_FreeNodes'[k] = m_FreeNodes[k + 1]
        BY <1>3, <3>2
      <4>5. 1 \in 1 .. Len(m_FreeNodes)
        BY <1>3, <3>1
      <4> QED
        BY <1>3, <3>1, <4>1, <4>3, <4>4, <4>5
    <3> QED
      BY <1>2, <1>7, <3>1, <3>2, <3>3, <3>4, <3>5 DEF Kept
  <2>2. CASE m_FreeNodes = <<>>
    <3>1. m_FreeNodes' = <<>> /\ heap' = heap \cup {node}
      BY <1>1, <2>2 DEF TakeNode
    <3>2. <<>> \in Seq(Nodes) /\ Len(<<>>) = 0
      BY EmptySeq
    <3>3. Distinct(<<>>) /\ Apart(t, <<>>)
      BY <3>2 DEF Distinct, Apart
    <3> QED
      BY <1>2, <1>7, <2>2, <3>1, <3>2, <3>3 DEF Kept
  <2> QED
    BY <2>1, <2>2
<1>10. FieldTypes'
  <2>1. m_Head \in Cells /\ prev[m_Head] \in Cells
    BY DEF FieldTypes, Cells
  <2> QED
    BY <1>1, <2>1 DEF push, FieldTypes
<1>11. Holds(t)'
  BY <1>5, <1>8, <1>9 DEF Holds
<1> QED
  BY <1>1, <1>4, <1>5, <1>10, <1>11 DEF t

\* An erase takes one node out of the ring and keeps it.
LEMMA EraseStep ==
  ASSUME FieldTypes, NEW s \in Seq(Nodes), Holds(s), NEW i \in 1 .. Len(s), erase(s[i])
  PROVE  RemoveAt(s, i) \in Seq(Nodes) /\ Holds(RemoveAt(s, i))'
<1> DEFINE t == RemoveAt(s, i)
           free == <<s[i]>> \o m_FreeNodes
<1>1. /\ Distinct(s) /\ Linked(s, next, prev) /\ m_Size = Len(s)
      /\ m_FreeNodes \in Seq(Nodes) /\ Distinct(m_FreeNodes) /\ Apart(s, m_FreeNodes)
      /\ heap = {m_Head} \cup Range(s) \cup Range(m_FreeNodes)
  BY DEF Holds, Kept
<1>2. t \in Seq(Nodes) /\ Distinct(t) /\ Linked(t, next', prev')
  BY <1>1, EraseLinks DEF FieldTypes, erase
<1>3. /\ Len(s) \in Nat /\ Len(t) = Len(s) - 1
      /\ \A k \in 1 .. Len(s) - 1 : t[k] = IF k < i THEN s[k] ELSE s[k + 1]
  BY LenProperties, RemoveAtIs
<1> HIDE DEF t
<1>4. m_Size' = Len(t)
  <2>1. m_Size - 1 \in 0 .. SizeRange - 1
    BY <1>1, <1>3, PigeonHole, QueueAssumption
  <2>2. (m_Size - 1) % SizeRange = m_Size - 1
    BY <2>1, QueueAssumption
  <2> QED
    BY <1>1, <1>3, <2>2 DEF erase
<1>5. /\ <<s[i]>> \in Seq(Nodes) /\ Len(<<s[i]>>) = 1 /\ <<s[i]>>[1] = s[i]
      /\ Range(<<s[i]>>) = {s[i]}
  <2>1. <<s[i]>> \in Seq(Nodes) /\ Len(<<s[i]>>) = 1 /\ <<s[i]>>[1] = s[i]
    BY ElementOfSeq
  <2>2. Range(<<s[i]>>) = {<<s[i]>>[k] : k \in 1 .. Len(<<s[i]>>)}
    BY <2>1, RangeEquality
  <2>3. 1 .. Len(<<s[i]>>) = {1}
    BY <2>1
  <2> QED
    BY <2>1, <2>2, <2>3
<1>6. m_FreeNodes' = free /\ heap' = heap
  BY DEF erase
<1>7. free \in Seq(Nodes) /\ Distinct(free) /\ Range(free) = {s[i]} \cup Range(m_FreeNodes)
  <2>1. Distinct(<<s[i]>>) /\ Apart(<<s[i]>>, m_FreeNodes)
    BY <1>1, <1>5 DEF Distinct, Apart
  <2> QED
    BY <1>1, <1>5, <2>1, ConcatIs
<1> HIDE DEF free
<1>8. \A k \in 1 .. Len(t) : \E j \in 1 .. Len(s) : j # i /\ t[k] = s[j]
  <2> TAKE k \in 1 .. Len(t)
  <2> DEFINE j == IF k < i THEN k ELSE k + 1
  <2>1. j \in 1 .. Len(s) /\ j # i /\ t[k] = s[j]
    BY <1>3
  <2> QED
    BY <2>1
<1>9. Apart(t, free)
  <2> SUFFICES ASSUME NEW k \in 1 .. Len(t), NEW l \in 1 .. Len(free), t[k] = free[l]
               PROVE  FALSE
    BY DEF Apart
  <2>1. PICK j \in 1 .. Len(s) : j # i /\ t[k] = s[j]
    BY <1>8
  <2>2. free[l] \in {s[i]} \cup Range(m_FreeNodes)
    BY <1>7, RangeEquality
  <2>3. Range(m_FreeNodes) = {m_FreeNodes[m] : m \in 1 .. Len(m_FreeNodes)}
    BY <1>1, RangeEquality
  <2> QED
    BY <1>1, <2>1, <2>2, <2>3 DEF Distinct, Apart
<1>10. Range(t) \cup Range(free) = Range(s) \cup Range(m_FreeNodes)
  <2>1. Range(t) = {t[k] : k \in 1 .. Len(t)} /\ Range(s) = {s[k] : k \in 1 .. Len(s)}
    BY <1>2, RangeEquality
  <2>2. \A j \in 1 .. Len(s) : j = i \/ \E k \in 1 .. Len(t) : t[k] = s[j]
    <3> TAKE j \in 1 .. Len(s)
    <3>1. CASE j < i
      <4>1. j \in 1 .. Len(t) /\ t[j] = s[j]
        BY <1>3, <3>1
      <4> QED
        BY <4>1
    <3>2. CASE j > i
      <4>1. j - 1 \in 1 .. Len(t) /\ t[j - 1] = s[(j - 1) + 1] /\ (j - 1) + 1 = j
        BY <1>3, <3>2
      <4> QED
        BY <4>1
    <3> QED
      BY <1>3, <3>1, <3>2
  <2>3. Range(t) \subseteq Range(s) /\ Range(s) \subseteq Range(t) \cup {s[i]} /\ s[i] \in Range(s)
    BY <1>8, <2>1, <2>2
  <2> QED
    BY <1>7, <2>3
<1>11. Kept(t, m_FreeNodes', heap')
  BY <1>1, <1>6, <1>7, <1>9, <1>10 DEF Kept
<1>12. Holds(t)'
  BY <1>2, <1>4, <1>11 DEF Holds
<1> QED
  BY <1>2, <1>12 DEF t

\* A clear keeps every node of the ring.
LEMMA ClearStep ==
  ASSUME FieldTypes, NEW s \in Seq(Nodes), Holds(s), clear
  PROVE  Holds(<<>>)'
<1> DEFINE r == Reverse(s)
<1>1. /\ Distinct(s) /\ Linked(s, next, prev)
      /\ m_FreeNodes \in Seq(Nodes) /\ Distinct(m_FreeNodes) /\ Apart(s, m_FreeNodes)
      /\ heap = {m_Head} \cup Range(s) \cup Range(m_FreeNodes)
  BY DEF Holds, Kept
<1>2. m_FreeNodes' = r \o m_FreeNodes
  BY <1>1, ChainIs DEF clear
<1>3. /\ Len(s) \in Nat /\ r \in Seq(Nodes) /\ Len(r) = Len(s)
      /\ \A k \in 1 .. Len(s) : r[k] = s[(Len(s) - k) + 1]
  BY LenProperties, ReverseIs
<1> HIDE DEF r
<1>4. \A k \in 1 .. Len(s) : (Len(s) - k) + 1 \in 1 .. Len(s)
  BY <1>3
<1>5. Distinct(r)
  <2> SUFFICES ASSUME NEW j \in 1 .. Len(s), NEW k \in 1 .. Len(s), r[j] = r[k]
               PROVE  j = k
    BY <1>3 DEF Distinct
  <2>1. s[(Len(s) - j) + 1] = s[(Len(s) - k) + 1]
    BY <1>3
  <2>2. (Len(s) - j) + 1 = (Len(s) - k) + 1
    BY <1>1, <1>4, <2>1 DEF Distinct
  <2> QED
    BY <1>3, <2>2
<1>6. Apart(r, m_FreeNodes)
  BY <1>1, <1>3, <1>4 DEF Apart
<1>7. Range(r) = Range(s)
  <2>1. Range(r) = {r[k] : k \in 1 .. Len(r)} /\ Range(s) = {s[k] : k \in 1 .. Len(s)}
    BY <1>3, RangeEquality
  <2>2. \A k \in 1 .. Len(s) : s[k] = r[(Len(s) - k) + 1]
    <3> TAKE k \in 1 .. Len(s)
    <3>1. r[(Len(s) - k) + 1] = s[(Len(s) - ((Len(s) - k) + 1)) + 1]
      BY <1>3, <1>4
    <3>2. (Len(s) - ((Len(s) - k) + 1)) + 1 = k
      BY <1>3
    <3> QED
      BY <3>1, <3>2
  <2> QED
    BY <1>3, <1>4, <2>1, <2>2
<1>8. /\ m_FreeNodes' \in Seq(Nodes) /\ Distinct(m_FreeNodes')
      /\ Range(m_FreeNodes') = Range(s) \cup Range(m_FreeNodes)
  BY <1>1, <1>2, <1>3, <1>5, <1>6, <1>7, ConcatIs
<1>9. Holds(<<>>)'
  <2>1. <<>> \in Seq(Nodes) /\ Len(<<>>) = 0
    BY EmptySeq
  <2>2. Range(<<>>) = {<<>>[i] : i \in 1 .. Len(<<>>)}
    BY <2>1, RangeEquality
  <2>3. Range(<<>>) = {}
    BY <2>1, <2>2
  <2>4. Distinct(<<>>) /\ Apart(<<>>, m_FreeNodes')
    BY <2>1 DEF Distinct, Apart
  <2>5. next'[m_Head] = m_Head /\ prev'[m_Head] = m_Head
    BY DEF clear, FieldTypes, Cells
  <2>6. Linked(<<>>, next', prev')
    BY <2>1, <2>5 DEF Linked, CellAt
  <2>7. Kept(<<>>, m_FreeNodes', heap')
    BY <1>1, <1>8, <2>3, <2>4 DEF Kept, clear
  <2> QED
    BY <2>1, <2>4, <2>6, <2>7 DEF Holds, clear
<1> QED
  BY <1>9

\* The node find returns, and its place in the ring.
LEMMA FindIs ==
  ASSUME NEW s \in Seq(Nodes), Holds(s), NEW v, find(v) # m_Head
  PROVE  /\ \E i \in 1 .. Len(s) : obj[s[i]] = v
         /\ LET i == Min({j \in 1 .. Len(s) : obj[s[j]] = v})
            IN  i \in 1 .. Len(s) /\ find(v) = s[i]
<1> DEFINE I == {j \in 1 .. Len(s) : obj[s[j]] = v}
<1>1. Chain = s /\ Len(s) \in Nat
  BY ChainIs, LenProperties DEF Holds
<1>2. SelectInSeq(Chain, LAMBDA n : obj[n] = v) = IF I # {} THEN Min(I) ELSE 0
  BY <1>1 DEF SelectInSeq
<1>3. I # {}
  BY <1>2 DEF find
<1>4. Min(I) \in I
  <2>1. I \subseteq Nat
    BY <1>1
  <2> QED
    BY <1>3, <2>1, LeastNumber
<1>5. Min(I) \in 1 .. Len(s) /\ Min(I) # 0
  BY <1>1, <1>4
<1>6. find(v) = s[Min(I)]
  BY <1>1, <1>2, <1>3, <1>5 DEF find
<1> QED
  BY <1>3, <1>5, <1>6

\* What first returns while the queue is not empty is the first node of the ring.
LEMMA FirstIs ==
  ASSUME NEW s \in Seq(Nodes), Holds(s), ~empty
  PROVE  1 \in 1 .. Len(s) /\ next[m_Head] = s[1] /\ first = obj[s[1]]
<1>1. /\ Len(s) \in Nat /\ Distinct(s) /\ Linked(s, next, prev) /\ Len(s) # 0
  BY LenProperties DEF Holds, empty
<1>2. next[CellAt(s, 0)] = CellAt(s, 0 + 1)
  BY <1>1 DEF Linked
<1>3. CellAt(s, 0) = m_Head /\ CellAt(s, 1) = s[1] /\ 1 \in 1 .. Len(s)
  BY <1>1, CellsDiffer
<1> QED
  BY <1>2, <1>3 DEF first

\* erase of a cell writes cells into the fields.
LEMMA EraseTypes ==
  ASSUME FieldTypes, NEW c \in Cells, erase(c)
  PROVE  /\ next' \in [Cells -> Cells] /\ prev' \in [Cells -> Cells]
         /\ obj' \in [Cells -> Values \cup {Garbage}] /\ destroyed' \in BOOLEAN
BY DEF FieldTypes, erase

LEMMA InvStep == Inv /\ [Next]_vars => Inv'
<1> SUFFICES ASSUME Inv, [Next]_vars PROVE Inv'
  OBVIOUS
<1>1. ASSUME UNCHANGED vars
      PROVE  Inv'
  <2>1. FieldTypes' /\ GoneInv'
    BY <1>1 DEF Inv, vars, FieldTypes, GoneInv
  <2>2. ASSUME NEW s \in Seq(Nodes), Holds(s)
        PROVE  Holds(s)'
    BY <1>1, <2>2 DEF Holds, vars
  <2> QED
    BY <1>1, <2>1, <2>2 DEF Inv, RingInv, vars
<1>2. ASSUME Next, ~destroyed
      PROVE  Inv'
  <2>1. PICK s \in Seq(Nodes) : Holds(s)
    BY <1>2 DEF Inv, RingInv
  <2>2. ASSUME NEW v \in Values, push(v)
        PROVE  Inv'
    <3>1. PICK node \in Nodes : /\ Append(s, node) \in Seq(Nodes)
                                /\ Holds(Append(s, node))' /\ FieldTypes'
      BY <2>1, <2>2, PushStep DEF Inv
    <3>2. RingInv'
      BY <3>1 DEF RingInv
    <3>3. GoneInv'
      BY <2>2 DEF push, GoneInv
    <3> QED
      BY <3>1, <3>2, <3>3 DEF Inv
  <2>3. ASSUME NEW i \in 1 .. Len(s), erase(s[i])
        PROVE  RingInv' /\ GoneInv'
    <3>1. RingInv'
      BY <2>1, <2>3, EraseStep DEF RingInv, Inv
    <3>2. GoneInv'
      BY <1>2, <2>3 DEF GoneInv, erase
    <3> QED
      BY <3>1, <3>2
  <2>4. ASSUME takeFirst
        PROVE  Inv'
    <3>1. 1 \in 1 .. Len(s) /\ erase(s[1]) /\ ctx' = obj[s[1]] /\ s[1] \in Cells
      BY <2>1, <2>4, FirstIs, ElementOfSeq DEF takeFirst, pop, Cells
    <3>2. FieldTypes'
      BY <3>1, EraseTypes DEF FieldTypes, Inv
    <3> QED
      BY <2>3, <3>1, <3>2 DEF Inv
  <2>5. ASSUME NEW v \in Values, remove(v)
        PROVE  Inv'
    <3>1. PICK i \in 1 .. Len(s) : find(v) = s[i]
      <4> DEFINE i == Min({j \in 1 .. Len(s) : obj[s[j]] = v})
      <4>1. i \in 1 .. Len(s) /\ find(v) = s[i]
        BY <2>1, <2>5, FindIs DEF remove
      <4> HIDE DEF i
      <4> QED
        BY <4>1
    <3>2. erase(s[i]) /\ s[i] \in Cells /\ ctx' = ctx
      BY <2>5, <3>1, ElementOfSeq DEF remove, Cells
    <3>3. FieldTypes'
      BY <3>2, EraseTypes DEF FieldTypes, Inv
    <3> QED
      BY <2>3, <3>2, <3>3 DEF Inv
  <2>6. ASSUME clear
        PROVE  Inv'
    <3>1. <<>> \in Seq(Nodes) /\ Holds(<<>>)'
      BY <2>1, <2>6, ClearStep, EmptySeq DEF Inv
    <3>2. RingInv'
      BY <3>1 DEF RingInv
    <3>3. FieldTypes' /\ GoneInv'
      BY <2>6 DEF Inv, FieldTypes, GoneInv, clear, Cells
    <3> QED
      BY <3>2, <3>3 DEF Inv
  <2>7. ASSUME Destroy
        PROVE  Inv'
    <3>1. heap' = {}
      BY <2>1, <2>7, ChainIs DEF Destroy, Holds, Kept
    <3> QED
      BY <2>7, <3>1 DEF Inv, Destroy, FieldTypes, RingInv, GoneInv
  <2> QED
    BY <1>2, <2>2, <2>4, <2>5, <2>6, <2>7 DEF Next
<1>3. Next => ~destroyed
  BY DEF Next, push, remove, takeFirst, clear, Destroy
<1> QED
  BY <1>1, <1>2, <1>3

LEMMA InvAlways == Spec => []Inv
<1> QED
  BY InvInit, InvStep, PTL DEF Spec

(***************************************************************************)
(* What the runs check.                                                    *)
(***************************************************************************)

\* Every field has its type, and m_Size has not overflowed: the ring has at most
\* as many nodes as there are.
THEOREM TypeCorrect == Spec => []TypeOK
<1>1. Inv => TypeOK
  <2> SUFFICES ASSUME Inv PROVE TypeOK
    OBVIOUS
  <2>1. SizeRange \in Nat /\ SizeRange > 0
    BY QueueAssumption, FS_CardinalityType
  <2>2. /\ m_Size \in 0 .. SizeRange - 1
        /\ m_FreeNodes \in Seq(Nodes) /\ heap \subseteq Cells
    <3>1. CASE destroyed
      BY <2>1, <3>1, EmptySeq DEF Inv, GoneInv
    <3>2. CASE ~destroyed
      <4>1. PICK s \in Seq(Nodes) : Holds(s)
        BY <3>2 DEF Inv, RingInv
      <4>2. Range(s) \subseteq Nodes /\ Range(m_FreeNodes) \subseteq Nodes
        BY <4>1, RangeOfSeq DEF Holds, Kept
      <4>3. Len(s) \in Nat /\ Len(s) < SizeRange
        BY <4>1, PigeonHole DEF Holds
      <4> QED
        BY <2>1, <4>1, <4>2, <4>3 DEF Holds, Kept, Cells
    <3> QED
      BY <3>1, <3>2
  <2> QED
    BY <2>2 DEF Inv, FieldTypes, TypeOK
<1> QED
  BY <1>1, InvAlways, PTL

\* The ring is closed, alike in both directions and as long as m_Size says, so the
\* walks of find, remove and clear end and empty tells the truth.
THEOREM OneRing == Spec => []Ring
<1>1. Inv => Ring
  <2> SUFFICES ASSUME Inv, ~destroyed
               PROVE  /\ Ends # {} /\ m_Size = Len(Chain)
                      /\ \A n \in {m_Head} \cup Range(Chain) : prev[next[n]] = n
    BY DEF Ring
  <2>1. PICK s \in Seq(Nodes) : Holds(s)
    BY DEF Inv, RingInv
  <2>2. Ends # {} /\ Chain = s /\ m_Size = Len(s) /\ Linked(s, next, prev) /\ Distinct(s)
    BY <2>1, ChainIs DEF Holds
  <2>3. \A k \in 0 .. Len(s) : prev[next[CellAt(s, k)]] = CellAt(s, k)
    BY <2>2 DEF Linked
  <2>4. \A n \in {m_Head} \cup Range(s) : \E k \in 0 .. Len(s) : n = CellAt(s, k)
    <3>1. Len(s) \in Nat /\ Range(s) = {s[k] : k \in 1 .. Len(s)}
      BY LenProperties, RangeEquality
    <3>2. CellAt(s, 0) = m_Head /\ \A k \in 1 .. Len(s) : CellAt(s, k) = s[k]
      BY <2>2, CellsDiffer
    <3> QED
      BY <3>1, <3>2
  <2> QED
    BY <2>2, <2>3, <2>4
<1> QED
  BY <1>1, InvAlways, PTL

\* No cell got from malloc is lost, in use twice, or freed twice.
THEOREM NoNodeLost == Spec => []Memory
<1>1. Inv => Memory
  <2> SUFFICES ASSUME Inv PROVE Memory
    OBVIOUS
  <2>1. ASSUME ~destroyed
        PROVE  /\ IsInjective(Chain \o m_FreeNodes)
               /\ heap = {m_Head} \cup Range(Chain \o m_FreeNodes)
    <3>1. PICK s \in Seq(Nodes) : Holds(s)
      BY <2>1 DEF Inv, RingInv
    <3>2. /\ Chain = s /\ Distinct(s) /\ Kept(s, m_FreeNodes, heap)
      BY <3>1, ChainIs DEF Holds
    <3> DEFINE u == s \o m_FreeNodes
    <3>3. u \in Seq(Nodes) /\ Distinct(u) /\ Range(u) = Range(s) \cup Range(m_FreeNodes)
      BY <3>2, ConcatIs DEF Kept
    <3> HIDE DEF u
    <3>4. DOMAIN u = 1 .. Len(u)
      BY <3>3, LenProperties
    <3>5. IsInjective(u)
      BY <3>3, <3>4 DEF Distinct, IsInjective
    <3> QED
      BY <3>2, <3>3, <3>5 DEF u, Kept
  <2> QED
    BY <2>1 DEF Inv, GoneInv, Memory
<1> QED
  BY <1>1, InvAlways, PTL

(***************************************************************************)
(* First in, first out: the queue implements Fifo.                         *)
(***************************************************************************)

\* What the obj of a cell can be.
Stored == Values \cup {Garbage}

\* The values of the nodes of s, in turn.
Items(s, f) == [k \in 1 .. Len(s) |-> f[s[k]]]

LEMMA ItemsAre ==
  ASSUME NEW f \in [Cells -> Stored], NEW s \in Seq(Nodes)
  PROVE  /\ Items(s, f) \in Seq(Stored)
         /\ Len(Items(s, f)) = Len(s)
         /\ \A k \in 1 .. Len(s) : Items(s, f)[k] = f[s[k]]
<1>1. Len(s) \in Nat /\ \A k \in 1 .. Len(s) : s[k] \in Cells
  BY LenProperties, ElementOfSeq DEF Cells
<1>2. Items(s, f) \in [1 .. Len(s) -> Stored]
  BY <1>1 DEF Items
<1> QED
  BY <1>1, <1>2 DEF Items

\* Appending a node whose value is set meanwhile appends the value.
LEMMA ItemsOfPush ==
  ASSUME NEW f \in [Cells -> Stored], NEW s \in Seq(Nodes), NEW v \in Stored,
         NEW node \in Nodes, NEW g \in [Cells -> Stored]
  PROVE  g[node] = v /\ (\A k \in 1 .. Len(s) : g[s[k]] = f[s[k]])
           => Items(Append(s, node), g) = Append(Items(s, f), v)
<1> DEFINE t == Append(s, node)
           a == Items(t, g)
           b == Append(Items(s, f), v)
<1>1. /\ Len(s) \in Nat /\ t \in Seq(Nodes) /\ Len(t) = Len(s) + 1
      /\ \A k \in 1 .. Len(s) : t[k] = s[k] /\ s[k] \in Cells
      /\ t[Len(s) + 1] = node
  BY LenProperties, AppendProperties, ElementOfSeq DEF Cells
<1> HIDE DEF t
<1>2. a \in Seq(Stored) /\ Len(a) = Len(s) + 1 /\ \A k \in 1 .. Len(t) : a[k] = g[t[k]]
  <2>1. /\ Items(t, g) \in Seq(Stored) /\ Len(Items(t, g)) = Len(t)
        /\ \A k \in 1 .. Len(t) : Items(t, g)[k] = g[t[k]]
    BY <1>1, ItemsAre
  <2> QED
    BY <1>1, <2>1
<1>3. /\ Items(s, f) \in Seq(Stored) /\ Len(Items(s, f)) = Len(s)
      /\ \A k \in 1 .. Len(s) : Items(s, f)[k] = f[s[k]]
  BY ItemsAre
<1>4. /\ b \in Seq(Stored) /\ Len(b) = Len(s) + 1 /\ b[Len(s) + 1] = v
      /\ \A k \in 1 .. Len(s) : b[k] = f[s[k]]
  BY <1>3, AppendProperties
<1> HIDE DEF a, b
<1> SUFFICES ASSUME g[node] = v, \A k \in 1 .. Len(s) : g[s[k]] = f[s[k]]
             PROVE  a = b
  BY DEF a, b, t
<1>5. \A k \in 1 .. Len(a) : a[k] = b[k]
  <2> TAKE k \in 1 .. Len(a)
  <2>1. CASE k = Len(s) + 1
    BY <1>1, <1>2, <1>4, <2>1
  <2>2. CASE k \in 1 .. Len(s)
    BY <1>1, <1>2, <1>4, <2>2
  <2> QED
    BY <1>1, <1>2, <2>1, <2>2
<1> QED
  BY <1>2, <1>4, <1>5, SeqEqual

\* Erasing a node erases its value.
LEMMA ItemsOfErase ==
  ASSUME NEW f \in [Cells -> Stored], NEW s \in Seq(Nodes), NEW i \in 1 .. Len(s)
  PROVE  Items(RemoveAt(s, i), f) = RemoveAt(Items(s, f), i)
<1> DEFINE t == RemoveAt(s, i)
           q == Items(s, f)
           a == Items(t, f)
           b == RemoveAt(q, i)
<1>1. /\ Len(s) \in Nat /\ t \in Seq(Nodes) /\ Len(t) = Len(s) - 1
      /\ \A k \in 1 .. Len(s) - 1 : t[k] = IF k < i THEN s[k] ELSE s[k + 1]
  BY LenProperties, RemoveAtIs
<1> HIDE DEF t
<1>2. a \in Seq(Stored) /\ Len(a) = Len(s) - 1 /\ \A k \in 1 .. Len(s) - 1 : a[k] = f[t[k]]
  <2>1. /\ Items(t, f) \in Seq(Stored) /\ Len(Items(t, f)) = Len(t)
        /\ \A k \in 1 .. Len(t) : Items(t, f)[k] = f[t[k]]
    BY <1>1, ItemsAre
  <2> QED
    BY <1>1, <2>1
<1>3. /\ q \in Seq(Stored) /\ Len(q) = Len(s)
      /\ \A k \in 1 .. Len(s) : q[k] = f[s[k]]
  BY ItemsAre
<1> HIDE DEF q
<1>4. /\ b \in Seq(Stored) /\ Len(b) = Len(s) - 1
      /\ \A k \in 1 .. Len(s) - 1 :
           b[k] = IF k < i THEN q[k] ELSE q[k + 1]
  <2>1. i \in 1 .. Len(q)
    BY <1>3
  <2> QED
    BY <1>3, <2>1, RemoveAtIs
<1> HIDE DEF a, b
<1>5. \A k \in 1 .. Len(a) : a[k] = b[k]
  <2> TAKE k \in 1 .. Len(a)
  <2>1. k \in 1 .. Len(s) /\ k + 1 \in 1 .. Len(s)
    BY <1>1, <1>2
  <2>2. CASE k < i
    BY <1>1, <1>2, <1>3, <1>4, <2>1, <2>2
  <2>3. CASE ~ (k < i)
    <3>1. a[k] = f[s[k + 1]]
      BY <1>1, <1>2, <2>3
    <3>2. b[k] = q[k + 1] /\ q[k + 1] = f[s[k + 1]]
      BY <1>2, <1>3, <1>4, <2>1, <2>3
    <3> QED
      BY <3>1, <3>2
  <2> QED
    BY <2>2, <2>3
<1>6. a = b
  BY <1>2, <1>4, <1>5, SeqEqual
<1> QED
  BY <1>6 DEF a, b, q, t

\* Contents is read off the ring.
LEMMA ContentsIs == \A s \in Seq(Nodes) :
  Holds(s) /\ ~destroyed => Contents = Items(s, obj)
<1> SUFFICES ASSUME NEW s \in Seq(Nodes), Holds(s), ~destroyed
             PROVE  Contents = Items(s, obj)
  OBVIOUS
<1>1. Chain = s /\ DOMAIN s = 1 .. Len(s)
  BY ChainIs, LenProperties DEF Holds
<1> QED
  BY <1>1 DEF Contents, Items

\* Each step of the queue is the step of Fifo of the same name, or none.
LEMMA FifoStep == Inv /\ [Next]_vars => [Queue!Next]_(Queue!vars)
<1> SUFFICES ASSUME Inv, [Next]_vars PROVE [Queue!Next]_(Queue!vars)
  OBVIOUS
<1>0. (\A s \in Seq(Nodes) : Holds(s) /\ ~destroyed => Contents = Items(s, obj))'
  BY ContentsIs, PTL
<1>1. ASSUME UNCHANGED vars
      PROVE  UNCHANGED Queue!vars
  <2>1. CASE destroyed
    BY <1>1, <2>1 DEF vars, Queue!vars, Contents
  <2>2. CASE ~destroyed
    <3>1. PICK s \in Seq(Nodes) : Holds(s)
      BY <2>2 DEF Inv, RingInv
    <3>2. Holds(s)'
      BY <1>1, <3>1 DEF Holds, vars
    <3>3. Contents = Items(s, obj) /\ Contents' = Items(s, obj')
      BY <1>0, <1>1, <2>2, <3>1, <3>2, ContentsIs DEF vars
    <3> QED
      BY <1>1, <3>3 DEF vars, Queue!vars
  <2> QED
    BY <2>1, <2>2
<1>2. ASSUME Next, ~destroyed
      PROVE  Queue!Next
  <2>1. PICK s \in Seq(Nodes) : Holds(s)
    BY <1>2 DEF Inv, RingInv
  <2> DEFINE q == Items(s, obj)
  <2>2. Contents = q
    BY <1>2, <2>1, ContentsIs
  <2>3. obj \in [Cells -> Stored]
    BY DEF Inv, FieldTypes, Stored
  <2>4. /\ q \in Seq(Stored) /\ Len(q) = Len(s) /\ Len(s) \in Nat
        /\ \A k \in 1 .. Len(s) : q[k] = obj[s[k]]
    BY <2>3, ItemsAre, LenProperties
  <2> HIDE DEF q
  <2>5. ASSUME NEW v \in Values, push(v)
        PROVE  Queue!Next
    <3>1. PICK node \in Nodes :
            /\ \A k \in 1 .. Len(s) : s[k] # node
            /\ Append(s, node) \in Seq(Nodes) /\ Holds(Append(s, node))'
            /\ obj' = [obj EXCEPT ![node] = v]
      BY <2>1, <2>5, PushStep DEF Inv
    <3>2. Contents' = Items(Append(s, node), obj')
      BY <1>0, <2>5, <3>1 DEF push
    <3>3. Items(Append(s, node), obj') = Append(q, v)
      <4>1. v \in Stored
        BY DEF Stored
      <4>2. Items(Append(s, node), obj') = Append(Items(s, obj), v)
        <5>1. obj' \in [Cells -> Stored]
          BY <2>3, <3>1, <4>1
        <5>2. obj'[node] = v /\ \A k \in 1 .. Len(s) : obj'[s[k]] = obj[s[k]]
          BY <2>3, <3>1, ElementOfSeq DEF Cells
        <5>3. obj'[node] = v /\ (\A k \in 1 .. Len(s) : obj'[s[k]] = obj[s[k]])
                => Items(Append(s, node), obj') = Append(Items(s, obj), v)
          BY <2>3, <4>1, <5>1, ItemsOfPush
        <5> QED
          BY <5>2, <5>3
      <4> QED
        BY <4>2 DEF q
    <3>4. Queue!Push(v)
      BY <2>2, <2>5, <3>1, <3>2, <3>3 DEF Queue!Push, push
    <3> QED
      BY <3>4 DEF Queue!Next
  <2>6. ASSUME NEW i \in 1 .. Len(s), erase(s[i])
        PROVE  Contents' = RemoveAt(q, i)
    <3>1. RemoveAt(s, i) \in Seq(Nodes) /\ Holds(RemoveAt(s, i))'
      BY <2>1, <2>6, EraseStep DEF Inv
    <3>2. Contents' = Items(RemoveAt(s, i), obj)
      BY <1>0, <1>2, <2>6, <3>1 DEF erase
    <3> QED
      BY <2>3, <3>2, ItemsOfErase DEF q
  <2>7. ASSUME takeFirst
        PROVE  Queue!Next
    <3>1. 1 \in 1 .. Len(s) /\ erase(s[1]) /\ ctx' = obj[s[1]] /\ destroyed' = destroyed
      BY <2>1, <2>7, FirstIs DEF takeFirst, pop, erase
    <3>2. q # <<>> /\ Head(q) = obj[s[1]]
      BY <2>4, <3>1, EmptySeq
    <3>3. RemoveAt(q, 1) = Tail(q)
      <4>1. /\ RemoveAt(q, 1) \in Seq(Stored) /\ Len(RemoveAt(q, 1)) = Len(q) - 1
            /\ \A k \in 1 .. Len(q) - 1 : RemoveAt(q, 1)[k] = IF k < 1 THEN q[k] ELSE q[k + 1]
        BY <2>4, <3>1, RemoveAtIs
      <4>2. /\ Tail(q) \in Seq(Stored) /\ Len(Tail(q)) = Len(q) - 1
            /\ \A k \in 1 .. Len(Tail(q)) : Tail(q)[k] = q[k + 1]
        BY <2>4, <3>2, HeadTailProperties
      <4>3. \A k \in 1 .. Len(Tail(q)) : RemoveAt(q, 1)[k] = Tail(q)[k]
        BY <2>4, <4>1, <4>2
      <4> QED
        BY <4>1, <4>2, <4>3, SeqEqual
    <3>4. Queue!Pop
      BY <1>2, <2>2, <2>6, <3>1, <3>2, <3>3 DEF Queue!Pop
    <3> QED
      BY <3>4 DEF Queue!Next
  <2>8. ASSUME NEW v \in Values, remove(v)
        PROVE  Queue!Next
    <3> DEFINE I == {j \in 1 .. Len(s) : obj[s[j]] = v}
               i == Min(I)
    <3>1. (\E j \in 1 .. Len(s) : obj[s[j]] = v) /\ i \in 1 .. Len(s) /\ find(v) = s[i]
      BY <2>1, <2>8, FindIs DEF remove
    <3>2. I = {j \in 1 .. Len(q) : q[j] = v} /\ I # {}
      BY <2>4, <3>1
    <3>3. SelectInSeq(q, LAMBDA x : x = v) = i
      BY <3>2 DEF SelectInSeq
    <3>4. \E j \in 1 .. Len(q) : q[j] = v
      BY <2>4, <3>1
    <3>5. RemoveFirst(q, v) = RemoveAt(q, i)
      BY <3>3, <3>4 DEF RemoveFirst
    <3> HIDE DEF i
    <3>6. erase(s[i]) /\ ctx' = ctx /\ destroyed' = destroyed
      BY <2>8, <3>1 DEF remove, erase
    <3> HIDE DEF I
    <3>7. Contents' = RemoveFirst(q, v)
      BY <2>6, <3>1, <3>5, <3>6
    <3>8. Queue!Erase(v)
      BY <1>2, <2>2, <3>6, <3>7 
         DEF Queue!Erase, Queue!RemoveFirst, Queue!RemoveAt, Queue!SelectInSeq, Queue!Min,
             RemoveFirst, RemoveAt, SelectInSeq, Min
    <3> QED
      BY <3>8 DEF Queue!Next
  <2>9. ASSUME clear
        PROVE  Queue!Next
    <3>1. <<>> \in Seq(Nodes) /\ Len(<<>>) = 0
      BY EmptySeq
    <3>2. Contents' = Items(<<>>, obj')
      BY <1>0, <2>1, <2>9, <3>1, ClearStep DEF Inv, clear
    <3>3. Items(<<>>, obj') = <<>>
      BY <3>1 DEF Items
    <3>4. Queue!Clear
      BY <1>2, <2>9, <3>2, <3>3 DEF Queue!Clear, clear
    <3> QED
      BY <3>4 DEF Queue!Next
  <2>10. ASSUME Destroy
         PROVE  Queue!Next
    <3>1. Queue!Close
      BY <2>10 DEF Queue!Close, Destroy, Contents
    <3> QED
      BY <3>1 DEF Queue!Next
  <2> QED
    BY <1>2, <2>5, <2>7, <2>8, <2>9, <2>10 DEF Next
<1>3. Next => ~destroyed
  BY DEF Next, push, remove, takeFirst, clear, Destroy
<1> QED
  BY <1>1, <1>2, <1>3

LEMMA FifoInit == Init => Queue!Init
<1> SUFFICES ASSUME Init PROVE Contents = <<>> /\ ctx = Garbage /\ destroyed = FALSE
  BY DEF Queue!Init
<1>1. <<>> \in Seq(Nodes) /\ Len(<<>>) = 0
  BY EmptySeq
<1>2. Distinct(<<>>) /\ Linked(<<>>, next, prev)
  BY <1>1 DEF Init, Distinct, Linked, CellAt, Cells
<1>3. Chain = <<>>
  BY <1>1, <1>2, ChainIs
<1> QED
  BY <1>1, <1>3 DEF Init, Contents

\* Push, first, pop, remove and clear do to the values what they would do to a
\* sequence of them, whatever the order of the calls, and the first of equal values goes.
THEOREM FirstInFirstOut == Spec => FifoSpec
<1> QED
  BY FifoInit, FifoStep, InvAlways, PTL DEF Spec, FifoSpec, Queue!Spec
=============================================================================
