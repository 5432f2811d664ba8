----------------------------- MODULE ClusterProofs -----------------------------
(***************************************************************************)
(* Theorems about Cluster, proved for every list of control planes and     *)
(* workers, every size and every scenario.                                 *)
(***************************************************************************)
EXTENDS Cluster, FiniteSetTheorems, TLAPS

------------------------------------------------------------------------------
(* Lists *)

\* A list joined to another holds what both hold, in that order.
LEMMA Joined ==
  ASSUME NEW S, NEW s \in Seq(S), NEW t \in Seq(S)
  PROVE  /\ s \o t \in Seq(S) /\ Len(s \o t) = Len(s) + Len(t)
         /\ \A i \in 1..Len(s) : (s \o t)[i] = s[i]
         /\ \A i \in 1..Len(t) : (s \o t)[Len(s) + i] = t[i]
         /\ Range(s \o t) = Range(s) \cup Range(t)
<1>1. /\ s \o t \in Seq(S) /\ Len(s \o t) = Len(s) + Len(t)
      /\ \A i \in 1..Len(s) : (s \o t)[i] = s[i]
      /\ \A i \in 1..Len(t) : (s \o t)[Len(s) + i] = t[i]
  OBVIOUS
<1>2. /\ DOMAIN (s \o t) = 1..(Len(s) + Len(t))
      /\ DOMAIN s = 1..Len(s) /\ DOMAIN t = 1..Len(t)
      /\ Len(s) \in Nat /\ Len(t) \in Nat
  OBVIOUS
<1>3. Range(s) \cup Range(t) \subseteq Range(s \o t)
  <2>1. ASSUME NEW i \in 1..Len(s) PROVE s[i] \in Range(s \o t)
    BY <1>1, <1>2 DEF Range
  <2>2. ASSUME NEW i \in 1..Len(t) PROVE t[i] \in Range(s \o t)
    <3>1. Len(s) + i \in 1..(Len(s) + Len(t))
      BY <1>2
    <3> QED BY <1>1, <1>2, <3>1 DEF Range
  <2> QED BY <1>2, <2>1, <2>2 DEF Range
<1>4. Range(s \o t) \subseteq Range(s) \cup Range(t)
  <2>1. ASSUME NEW i \in 1..(Len(s) + Len(t)) PROVE (s \o t)[i] \in Range(s) \cup Range(t)
    <3>1. CASE i <= Len(s)
      BY <1>1, <1>2, <3>1 DEF Range
    <3>2. CASE ~ (i <= Len(s))
      <4>1. PICK j \in 1..Len(t) : i = Len(s) + j
        <5>1. i - Len(s) \in 1..Len(t) /\ i = Len(s) + (i - Len(s))
          BY <1>2, <3>2
        <5> QED BY <5>1
      <4> QED BY <1>1, <1>2, <4>1 DEF Range
    <3> QED BY <3>1, <3>2
  <2> QED BY <1>2, <2>1 DEF Range
<1> QED BY <1>1, <1>3, <1>4

\* Two lists that have nothing in common and repeat nothing, joined.
LEMMA JoinedInjective ==
  ASSUME NEW S, NEW s \in Seq(S), NEW t \in Seq(S), IsInjective(s), IsInjective(t),
         Range(s) \cap Range(t) = {}
  PROVE  s \o t \in Seq(S) /\ IsInjective(s \o t)
<1>1. /\ s \o t \in Seq(S) /\ Len(s \o t) = Len(s) + Len(t)
      /\ \A i \in 1..Len(s) : (s \o t)[i] = s[i]
      /\ \A i \in 1..Len(t) : (s \o t)[Len(s) + i] = t[i]
  BY Joined
<1>2. /\ Len(s) \in Nat /\ Len(t) \in Nat /\ DOMAIN s = 1..Len(s) /\ DOMAIN t = 1..Len(t)
      /\ DOMAIN (s \o t) = 1..(Len(s) + Len(t))
  BY <1>1
<1>3. \A i \in 1..(Len(s) + Len(t)) : i \in 1..Len(s) \/ \E k \in 1..Len(t) : i = Len(s) + k
  <2> TAKE i \in 1..(Len(s) + Len(t))
  <2>1. i > Len(s) => i - Len(s) \in 1..Len(t) /\ i = Len(s) + (i - Len(s))
    BY <1>2
  <2>2. i <= Len(s) => i \in 1..Len(s)
    BY <1>2
  <2>3. i > Len(s) \/ i <= Len(s)
    BY <1>2
  <2> QED BY <2>1, <2>2, <2>3
<1>4. \A i \in 1..Len(s), k \in 1..Len(t) : s[i] # t[k]
  BY <1>2 DEF Range
<1>5. ASSUME NEW i \in 1..(Len(s) + Len(t)), NEW j \in 1..(Len(s) + Len(t)), (s \o t)[i] = (s \o t)[j]
      PROVE  i = j
  <2>1. CASE i \in 1..Len(s) /\ j \in 1..Len(s)
    BY <1>1, <1>2, <1>5, <2>1 DEF IsInjective
  <2>2. ASSUME NEW k \in 1..Len(t), NEW l \in 1..Len(t), i = Len(s) + k, j = Len(s) + l
        PROVE  i = j
    BY <1>1, <1>2, <1>5, <2>2 DEF IsInjective
  <2>3. ASSUME i \in 1..Len(s), NEW k \in 1..Len(t), j = Len(s) + k
        PROVE  FALSE
    BY <1>1, <1>4, <1>5, <2>3
  <2>4. ASSUME j \in 1..Len(s), NEW k \in 1..Len(t), i = Len(s) + k
        PROVE  FALSE
    BY <1>1, <1>4, <1>5, <2>4
  <2> QED BY <1>3, <2>1, <2>2, <2>3, <2>4
<1> QED BY <1>1, <1>2, <1>5 DEF IsInjective

\* What a list holds is of its type.
LEMMA Held ==
  ASSUME NEW S, NEW s \in Seq(S)
  PROVE  Range(s) \subseteq S /\ \A i \in 1..Len(s) : s[i] \in Range(s)
BY DEF Range

LEMMA One ==
  ASSUME NEW S, NEW x \in S
  PROVE  <<x>> \in Seq(S) /\ Range(<<x>>) = {x}
<1>1. <<x>> \in Seq(S) /\ DOMAIN <<x>> = {1} /\ <<x>>[1] = x
  OBVIOUS
<1> QED BY <1>1 DEF Range

\* The places of a list that hold members of a set.
Spots(nodes, S) == {i \in DOMAIN nodes : nodes[i] \in S}

\* The first node of Those is at the first place, and so on: it holds exactly
\* the nodes of the list that are in the set, each place of it stands for one
\* place of the list, and the order is that of the list.
LEMMA ThoseAt ==
  ASSUME NEW nodes \in Seq(Node), NEW S
  PROVE  \E f \in [1..Cardinality(Spots(nodes, S)) -> Spots(nodes, S)] :
           /\ Cardinality(Spots(nodes, S)) \in Nat
           /\ Those(nodes, S) = [k \in 1..Cardinality(Spots(nodes, S)) |-> nodes[f[k]]]
           /\ \A i \in Spots(nodes, S) : \E k \in 1..Cardinality(Spots(nodes, S)) : f[k] = i
           /\ \A k, l \in 1..Cardinality(Spots(nodes, S)) : k < l => f[k] < f[l]
<1> DEFINE at == Spots(nodes, S)
           rank(i) == Cardinality({j \in at : j <= i})
           N == Cardinality(at)
           g == [i \in at |-> rank(i)]
           f == [k \in 1..N |-> CHOOSE i \in at : rank(i) = k]
<1>1. at \subseteq 1..Len(nodes) /\ Len(nodes) \in Nat
  BY DEF Spots
<1>2. IsFiniteSet(at) /\ N \in Nat
  <2>1. IsFiniteSet(1..Len(nodes))
    BY <1>1, FS_Interval
  <2>2. IsFiniteSet(at)
    BY <1>1, <2>1, FS_Subset
  <2> QED BY <2>2, FS_CardinalityType
<1> HIDE DEF at
<1>3. \A i \in at : /\ IsFiniteSet({j \in at : j <= i}) /\ rank(i) \in 1..N /\ rank(i) \in Nat
  <2> TAKE i \in at
  <2>1. {j \in at : j <= i} \subseteq at /\ i \in {j \in at : j <= i}
    BY <1>1
  <2>2. IsFiniteSet({j \in at : j <= i}) /\ rank(i) <= N
    BY <1>2, <2>1, FS_Subset
  <2>3. rank(i) \in Nat
    BY <2>2, FS_CardinalityType
  <2>4. rank(i) # 0
    BY <2>1, <2>2, FS_EmptySet
  <2> QED BY <1>2, <2>2, <2>3, <2>4
<1>4. \A i, j \in at : i < j => rank(i) < rank(j)
  <2> SUFFICES ASSUME NEW i \in at, NEW j \in at, i < j PROVE rank(i) < rank(j)
    OBVIOUS
  <2>0. i \in Nat /\ j \in Nat /\ at \subseteq Nat
    BY <1>1
  <2>1. {x \in at : x <= i} \subseteq {x \in at : x <= j}
    <3>1. ASSUME NEW x \in at, x <= i PROVE x <= j
      BY <2>0, <3>1
    <3> QED BY <3>1
  <2>2. j \in {x \in at : x <= j} /\ j \notin {x \in at : x <= i}
    BY <1>1
  <2>3. rank(i) <= rank(j) /\ (rank(i) = rank(j) => {x \in at : x <= i} = {x \in at : x <= j})
    BY <1>3, <2>1, FS_Subset
  <2>4. rank(i) \in Nat /\ rank(j) \in Nat
    BY <1>3
  <2> QED BY <2>2, <2>3, <2>4
<1> HIDE DEF rank, N
<1>5. g \in Injection(at, 1..N)
  <2>1. g \in [at -> 1..N]
    BY <1>3
  <2>2. ASSUME NEW i \in at, NEW j \in at, rank(i) = rank(j) PROVE i = j
    <3>1. i \in Nat /\ j \in Nat
      BY <1>1
    <3>2. rank(i) \in Nat /\ rank(j) \in Nat
      BY <1>3
    <3> QED BY <1>4, <2>2, <3>1, <3>2
  <2> QED BY <2>1, <2>2 DEF Injection, IsInjective
<1>6. \A k \in 1..N : \E i \in at : rank(i) = k
  <2>1. IsFiniteSet(1..N) /\ Cardinality(1..N) = N
    BY <1>2, FS_Interval
  <2>2. g \in Surjection(at, 1..N)
    BY <1>5, <2>1, FS_Injection DEF N
  <2> QED BY <2>2 DEF Surjection
<1>7. f \in [1..N -> at] /\ \A k \in 1..N : rank(f[k]) = k
  BY <1>6 DEF f
<1> HIDE DEF f
<1>8. \A i \in at : \E k \in 1..N : f[k] = i
  <2> TAKE i \in at
  <2>1. rank(i) \in 1..N /\ rank(f[rank(i)]) = rank(i) /\ f[rank(i)] \in at
    BY <1>3, <1>7
  <2>2. f[rank(i)] = i
    <3>1. \A a, b \in at : rank(a) = rank(b) => a = b
      BY <1>5 DEF Injection, IsInjective
    <3> QED BY <2>1, <3>1
  <2> QED BY <2>1, <2>2
<1>9. \A k, l \in 1..N : k < l => f[k] < f[l]
  <2> SUFFICES ASSUME NEW k \in 1..N, NEW l \in 1..N, k < l PROVE f[k] < f[l]
    OBVIOUS
  <2>1. f[k] \in at /\ f[l] \in at /\ rank(f[k]) = k /\ rank(f[l]) = l
    BY <1>7
  <2>2. f[k] \in Nat /\ f[l] \in Nat /\ k \in Nat /\ l \in Nat
    <3>1. at \subseteq Nat /\ 1..N \subseteq Nat
      BY <1>1, <1>2
    <3> QED BY <2>1, <3>1
  <2>3. f[l] < f[k] => l < k
    BY <1>4, <2>1
  <2>4. f[l] = f[k] => l = k
    BY <2>1
  <2> QED BY <2>2, <2>3, <2>4
<1>10. Those(nodes, S) = [k \in 1..N |-> nodes[f[k]]]
  BY DEF Those, Spots, at, f, N, rank
<1> QED BY <1>2, <1>7, <1>8, <1>9, <1>10 DEF at, N

\* Those is a list of the nodes that are in the set, and repeats none if the
\* list does not.
LEMMA ThoseHolds ==
  ASSUME NEW nodes \in Seq(Node), NEW S
  PROVE  /\ Those(nodes, S) \in Seq(Node)
         /\ Range(Those(nodes, S)) = Range(nodes) \cap S
         /\ IsInjective(nodes) => IsInjective(Those(nodes, S))
<1> DEFINE at == Spots(nodes, S)
           N == Cardinality(at)
<1>1. PICK f \in [1..N -> at] :
        /\ N \in Nat
        /\ Those(nodes, S) = [k \in 1..N |-> nodes[f[k]]]
        /\ \A i \in at : \E k \in 1..N : f[k] = i
        /\ \A k, l \in 1..N : k < l => f[k] < f[l]
  BY ThoseAt
<1>2. at \subseteq DOMAIN nodes /\ \A i \in at : nodes[i] \in S /\ nodes[i] \in Node
  BY DEF Spots
<1>3. \A i \in DOMAIN nodes : nodes[i] \in S => i \in at
  BY DEF Spots
<1>4. at \subseteq Nat
  BY DEF Spots
<1> HIDE DEF at, N
<1>5. \A k \in 1..N : f[k] \in at /\ nodes[f[k]] \in Node
  BY <1>1, <1>2
<1>6. Those(nodes, S) \in Seq(Node) /\ DOMAIN Those(nodes, S) = 1..N
  BY <1>1, <1>5
<1>7. Range(Those(nodes, S)) = Range(nodes) \cap S
  <2> DEFINE T == Those(nodes, S)
  <2>1. DOMAIN T = 1..N /\ \A k \in 1..N : T[k] = nodes[f[k]]
    BY <1>1, <1>6
  <2> HIDE DEF T
  <2>2. \A k \in 1..N : nodes[f[k]] \in Range(nodes) \cap S
    BY <1>2, <1>5 DEF Range
  <2>3. \A i \in DOMAIN nodes : nodes[i] \in S => \E k \in 1..N : nodes[i] = nodes[f[k]]
    BY <1>1, <1>3
  <2>4. Range(T) \subseteq Range(nodes) \cap S
    BY <2>1, <2>2 DEF Range
  <2>5. Range(nodes) \cap S \subseteq Range(T)
    BY <2>1, <2>3 DEF Range
  <2> QED BY <2>4, <2>5 DEF T
<1>8. ASSUME IsInjective(nodes), NEW k \in 1..N, NEW l \in 1..N, nodes[f[k]] = nodes[f[l]]
      PROVE  k = l
  <2>1. f[k] = f[l]
    BY <1>2, <1>5, <1>8 DEF IsInjective
  <2>2. k \in Nat /\ l \in Nat /\ f[k] \in Nat /\ f[l] \in Nat
    <3>1. 1..N \subseteq Nat
      BY <1>1
    <3> QED BY <1>4, <1>5, <3>1
  <2>3. ~ (k < l) /\ ~ (l < k)
    BY <1>1, <2>1, <2>2
  <2> QED BY <2>2, <2>3
<1>9. IsInjective(nodes) => IsInjective(Those(nodes, S))
  BY <1>1, <1>6, <1>8 DEF IsInjective
<1> QED BY <1>6, <1>7, <1>9

\* The place that OneByOne takes step j of node p to, and back.
LEMMA Places ==
  ASSUME NEW k \in {2, 3, 6}, NEW n \in Nat
  PROVE  /\ \A i \in 1..(k * n) : ((i - 1) \div k) + 1 \in 1..n /\ ((i - 1) % k) + 1 \in 1..k
         /\ \A p \in 1..n, j \in 1..k :
              /\ k * (p - 1) + j \in 1..(k * n)
              /\ (((k * (p - 1) + j) - 1) \div k) + 1 = p
              /\ (((k * (p - 1) + j) - 1) % k) + 1 = j
<1>1. CASE k = 2
  BY <1>1
<1>2. CASE k = 3
  BY <1>2
<1>3. CASE k = 6
  BY <1>3
<1> QED BY <1>1, <1>2, <1>3

\* The names are those of all nodes, each once.
LEMMA Names ==
  /\ IsFiniteSet(Node) /\ Cardinality(Node) \in Nat
  /\ CPs \o Workers \in Seq(Node) /\ IsInjective(CPs \o Workers)
  /\ IsInjective(CPs) /\ IsInjective(Workers) /\ Range(CPs) \cap Range(Workers) = {}
<1> DEFINE all == CPs \o Workers
           L == Len(CPs) + Len(Workers)
<1>1. /\ all \in Seq(Node) /\ Len(all) = L /\ L \in Nat
      /\ \A i \in 1..Len(CPs) : all[i] = CPs[i]
      /\ \A i \in 1..Len(Workers) : all[Len(CPs) + i] = Workers[i]
      /\ Range(all) = Node
  BY Joined, ClusterConstants
<1>2. all \in [1..L -> Node] /\ \A n \in Node : \E i \in 1..L : all[i] = n
  <2> HIDE DEF all, L
  <2>1. all \in [1..L -> Node] /\ DOMAIN all = 1..L
    BY <1>1
  <2>2. \A n \in Range(all) : \E i \in 1..L : all[i] = n
    BY <2>1 DEF Range
  <2> QED BY <1>1, <2>1, <2>2
<1>3. all \in Surjection(1..L, Node)
  BY <1>2 DEF Surjection
<1>4. IsFiniteSet(1..L) /\ Cardinality(1..L) = L
  BY <1>1, FS_Interval
<1>5. IsFiniteSet(Node) /\ all \in Injection(1..L, Node)
  BY <1>3, <1>4, FS_Surjection, ClusterConstants
<1>6. \A i, j \in 1..L : all[i] = all[j] => i = j
  BY <1>2, <1>5 DEF Injection, IsInjective
<1>7. IsInjective(all)
  BY <1>2, <1>6 DEF IsInjective
<1>8. Len(CPs) \in Nat /\ Len(Workers) \in Nat /\ DOMAIN CPs = 1..Len(CPs) /\ DOMAIN Workers = 1..Len(Workers)
  BY ClusterConstants
<1>9. \A i \in 1..Len(CPs) : i \in 1..L
  BY <1>8
<1>10. \A i \in 1..Len(Workers) : Len(CPs) + i \in 1..L /\ ~ (Len(CPs) + i \in 1..Len(CPs))
  BY <1>8
<1> HIDE DEF all, L
<1>11. IsInjective(CPs)
  BY <1>1, <1>6, <1>8, <1>9 DEF IsInjective
<1>12. IsInjective(Workers)
  <2> SUFFICES ASSUME NEW i \in 1..Len(Workers), NEW j \in 1..Len(Workers), Workers[i] = Workers[j]
               PROVE  i = j
    BY <1>8 DEF IsInjective
  <2>1. Len(CPs) + i = Len(CPs) + j
    BY <1>1, <1>6, <1>10
  <2> QED BY <1>8, <2>1
<1>13. Range(CPs) \cap Range(Workers) = {}
  <2> SUFFICES ASSUME NEW i \in 1..Len(CPs), NEW j \in 1..Len(Workers), CPs[i] = Workers[j]
               PROVE  FALSE
    BY <1>8 DEF Range
  <2> QED BY <1>1, <1>6, <1>9, <1>10
<1>14. Cardinality(Node) \in Nat
  BY <1>5, FS_CardinalityType
<1> QED BY <1>1, <1>5, <1>7, <1>11, <1>12, <1>13, <1>14 DEF all

\* A list that a state file may hold.
LEMMA ChildrenAre ==
  ASSUME NEW s
  PROVE  s \in Children <=> s \in Seq(Node) /\ IsInjective(s)
<1>1. ASSUME s \in Children PROVE s \in Seq(Node) /\ IsInjective(s)
  <2>1. PICK k \in 0..Cardinality(Node) : s \in [1..k -> Node]
    BY <1>1 DEF Children
  <2>2. k \in Nat
    BY Names
  <2> QED BY <1>1, <2>1, <2>2 DEF Children
<1>2. ASSUME s \in Seq(Node), IsInjective(s) PROVE s \in Children
  <2>1. Len(s) \in Nat /\ s \in [1..Len(s) -> Node] /\ DOMAIN s = 1..Len(s)
    BY <1>2
  <2>2. s \in Injection(1..Len(s), Node)
    BY <1>2, <2>1 DEF Injection, IsInjective
  <2>3. Cardinality(1..Len(s)) <= Cardinality(Node)
    BY <2>2, Names, FS_Injection
  <2>4. Cardinality(1..Len(s)) = Len(s)
    BY <2>1, FS_Interval
  <2>5. Len(s) \in 0..Cardinality(Node)
    BY <2>1, <2>3, <2>4, Names
  <2> QED BY <1>2, <2>1, <2>5 DEF Children
<1> QED BY <1>1, <1>2

\* NodeNames lists the wanted nodes.
LEMMA NamesOf ==
  ASSUME NEW m \in Manifest
  PROVE  NodeNames(m) \in Children /\ NodeNames(m) \in Seq(Node) /\ NodeNames(m) # <<>>
<1> DEFINE a == SubSeq(CPs, 1, m.cps)
           b == SubSeq(Workers, 1, m.workers)
<1>1. m.cps \in 1..Len(CPs) /\ m.workers \in 0..Len(Workers)
  BY DEF Manifest
<1>2. /\ CPs \in Seq(Node) /\ Workers \in Seq(Node) /\ Len(CPs) \in Nat /\ Len(Workers) \in Nat
      /\ DOMAIN CPs = 1..Len(CPs) /\ DOMAIN Workers = 1..Len(Workers)
  BY ClusterConstants
<1>3. /\ a \in Seq(Node) /\ Len(a) = m.cps /\ DOMAIN a = 1..m.cps
      /\ \A i \in 1..m.cps : a[i] = CPs[i] /\ i \in 1..Len(CPs)
  BY <1>1, <1>2
<1>4. /\ b \in Seq(Node) /\ Len(b) = m.workers /\ DOMAIN b = 1..m.workers
      /\ \A i \in 1..m.workers : b[i] = Workers[i] /\ i \in 1..Len(Workers)
  BY <1>1, <1>2
<1>5. Range(a) \cap Range(b) = {}
  <2>1. Range(a) \subseteq Range(CPs) /\ Range(b) \subseteq Range(Workers)
    BY <1>2, <1>3, <1>4 DEF Range
  <2> QED BY <2>1, Names
<1>6. IsInjective(a) /\ IsInjective(b)
  <2>1. /\ \A i, j \in 1..Len(CPs) : CPs[i] = CPs[j] => i = j
        /\ \A i, j \in 1..Len(Workers) : Workers[i] = Workers[j] => i = j
    BY <1>2, Names DEF IsInjective
  <2>2. \A i, j \in 1..m.cps : a[i] = a[j] => i = j
    BY <1>3, <2>1
  <2>3. \A i, j \in 1..m.workers : b[i] = b[j] => i = j
    BY <1>4, <2>1
  <2> HIDE DEF a, b
  <2> QED BY <1>3, <1>4, <2>2, <2>3 DEF IsInjective
<1> HIDE DEF a, b
<1>7. NodeNames(m) = a \o b
  BY DEF NodeNames, a, b
<1>8. a \o b \in Seq(Node) /\ IsInjective(a \o b)
  BY <1>3, <1>4, <1>5, <1>6, JoinedInjective
<1>9. a \o b # <<>>
  <2>1. Len(a \o b) = Len(a) + Len(b)
    BY <1>3, <1>4, Joined
  <2> QED BY <1>1, <1>2, <1>3, <1>4, <2>1
<1> QED BY <1>7, <1>8, <1>9, ChildrenAre

------------------------------------------------------------------------------
(* Plans *)

\* What the steps of an operation may be, by its type.
Doing(type) ==
  CASE type = "create" -> {"vm", "start", "row", "stub", "install", "installed", "ca", "agent",
                           "agentInstalled", "ready"}
    [] type = "converge" -> {"vm", "start", "row", "install", "installed", "agent",
                             "agentInstalled", "delAgent", "agentFile", "delNode", "nodeFile",
                             "delVM", "delRow", "stuck", "rewrite"}
    [] type = "delete" -> {"destroy", "files", "gone"}
Closing == {"ready", "rewrite", "gone"}
OpType == {"create", "converge", "delete"}

\* An operation's steps are of its type, the step that writes the final state
\* file is the last one, and there is one stub at most.
PlanOK(todo, type) ==
  /\ todo \in Seq(Step)
  /\ \A i \in DOMAIN todo : todo[i].do \in Doing(type)
  /\ \A i \in DOMAIN todo : todo[i].do \in Closing => i = Len(todo)
  /\ \A i, j \in DOMAIN todo : todo[i].do = "stub" /\ todo[j].do = "stub" => i = j

\* Doing the first step of a plan leaves a plan.
LEMMA PlanTail ==
  ASSUME NEW type \in OpType, NEW todo, PlanOK(todo, type), todo # <<>>
  PROVE  /\ PlanOK(Tail(todo), type)
         /\ \A i \in DOMAIN Tail(todo) : i + 1 \in DOMAIN todo /\ Tail(todo)[i] = todo[i + 1]
         /\ \A i \in DOMAIN todo : i = 1 \/ (i - 1 \in DOMAIN Tail(todo) /\ Tail(todo)[i - 1] = todo[i])
<1> DEFINE t == Tail(todo)
<1>1. todo \in Seq(Step) /\ Len(todo) \in Nat /\ Len(todo) # 0 /\ DOMAIN todo = 1..Len(todo)
  BY DEF PlanOK
<1>2. t \in Seq(Step) /\ Len(t) = Len(todo) - 1 /\ DOMAIN t = 1..(Len(todo) - 1)
  BY <1>1
<1>3. \A i \in 1..(Len(todo) - 1) : t[i] = todo[i + 1]
  BY <1>1
<1>4. \A i \in 1..(Len(todo) - 1) : i + 1 \in 1..Len(todo)
  BY <1>1
<1>5. \A i \in 1..Len(todo) : i = 1 \/ i - 1 \in 1..(Len(todo) - 1)
  BY <1>1
<1> HIDE DEF t
<1>6. \A i \in DOMAIN t : i + 1 \in DOMAIN todo /\ t[i] = todo[i + 1]
  BY <1>1, <1>2, <1>3, <1>4
<1>7. \A i \in DOMAIN todo : i = 1 \/ (i - 1 \in DOMAIN t /\ t[i - 1] = todo[i])
  <2> SUFFICES ASSUME NEW i \in 1..Len(todo), i # 1
               PROVE  i - 1 \in 1..(Len(todo) - 1) /\ t[i - 1] = todo[i]
    BY <1>1, <1>2
  <2>1. i - 1 \in 1..(Len(todo) - 1) /\ (i - 1) + 1 = i
    BY <1>1, <1>5
  <2> QED BY <1>3, <2>1
<1>8. \A i \in DOMAIN t : t[i].do \in Doing(type)
  BY <1>6 DEF PlanOK
<1>9. ASSUME NEW i \in DOMAIN t, t[i].do \in Closing PROVE i = Len(t)
  <2>1. i + 1 = Len(todo)
    BY <1>6, <1>9 DEF PlanOK
  <2>2. i \in 1..(Len(todo) - 1)
    BY <1>2
  <2> QED BY <1>1, <1>2, <2>1, <2>2
<1>10. ASSUME NEW i \in DOMAIN t, NEW j \in DOMAIN t, t[i].do = "stub", t[j].do = "stub" PROVE i = j
  <2>1. i + 1 = j + 1
    BY <1>6, <1>10 DEF PlanOK
  <2>2. i \in 1..(Len(todo) - 1) /\ j \in 1..(Len(todo) - 1)
    BY <1>2
  <2> QED BY <1>1, <2>1, <2>2
<1>11. PlanOK(t, type)
  BY <1>2, <1>8, <1>9, <1>10 DEF PlanOK
<1> QED BY <1>6, <1>7, <1>11 DEF t

\* Neither does replacing its first step by one that goes on with it.
LEMMA PlanOn ==
  ASSUME NEW type \in OpType, NEW todo, PlanOK(todo, type), todo # <<>>,
         NEW what \in Doing(type) \ (Closing \cup {"stub"}), NEW next,
         next = [todo EXCEPT ![1].do = what]
  PROVE  /\ PlanOK(next, type) /\ DOMAIN next = DOMAIN todo /\ 1 \in DOMAIN todo
         /\ next[1].do = what /\ next[1].node = todo[1].node /\ next[1].join = todo[1].join
         /\ \A i \in DOMAIN todo : i # 1 => next[i] = todo[i]
<1>1. todo \in Seq(Step) /\ Len(todo) \in Nat /\ Len(todo) # 0 /\ DOMAIN todo = 1..Len(todo)
  BY DEF PlanOK
<1>2. 1 \in DOMAIN todo /\ todo[1] \in Step
  BY <1>1
<1>3. Doing(type) \subseteq {"vm", "start", "row", "stub", "install", "installed", "ca", "agent",
               "agentInstalled", "ready", "delAgent", "agentFile", "delNode", "nodeFile",
               "delVM", "delRow", "rewrite", "stuck", "destroy", "files", "gone"}
  BY DEF Doing, OpType
<1>4. [todo[1] EXCEPT !.do = what] \in Step
  BY <1>2, <1>3 DEF Step
<1>5. /\ next = [todo EXCEPT ![1] = [todo[1] EXCEPT !.do = what]]
      /\ [todo[1] EXCEPT !.do = what].do = what
      /\ [todo[1] EXCEPT !.do = what].node = todo[1].node
      /\ [todo[1] EXCEPT !.do = what].join = todo[1].join
  BY <1>2 DEF Step
<1>6. /\ next \in Seq(Step) /\ Len(next) = Len(todo) /\ DOMAIN next = DOMAIN todo
      /\ next[1] = [todo[1] EXCEPT !.do = what]
      /\ \A i \in DOMAIN todo : i # 1 => next[i] = todo[i]
  BY <1>1, <1>2, <1>4, <1>5
<1>7. next[1].do = what /\ next[1].do \notin Closing /\ next[1].do # "stub" /\ next[1].do \in Doing(type)
  BY <1>5, <1>6
<1>8. PlanOK(next, type)
  BY <1>1, <1>6, <1>7 DEF PlanOK
<1> QED BY <1>2, <1>5, <1>6, <1>8

\* A plan made of a body and the closing step.
LEMMA PlanMade ==
  ASSUME NEW type \in OpType, NEW body \in Seq(Step), NEW last \in Step,
         \A x \in Range(body) : x.do \in Doing(type) \ Closing,
         last.do \in Doing(type) \cap Closing,
         \A i, j \in DOMAIN body : body[i].do = "stub" /\ body[j].do = "stub" => i = j
  PROVE  /\ PlanOK(body \o <<last>>, type)
         /\ Range(body \o <<last>>) = Range(body) \cup {last}
<1> DEFINE p == body \o <<last>>
<1>1. /\ p \in Seq(Step) /\ Len(p) = Len(body) + 1
      /\ \A i \in 1..Len(body) : p[i] = body[i]
      /\ p[Len(body) + 1] = last
      /\ Len(body) \in Nat /\ DOMAIN body = 1..Len(body)
  OBVIOUS
<1>2. Range(p) = Range(body) \cup Range(<<last>>) /\ Range(<<last>>) = {last}
  <2> DEFINE end == <<last>>
  <2>1. end \in Seq(Step) /\ Range(end) = {last}
    BY One
  <2> HIDE DEF end
  <2>2. Range(body \o end) = Range(body) \cup Range(end)
    BY <2>1, Joined
  <2> QED BY <2>1, <2>2 DEF end
<1> HIDE DEF p
<1>3. DOMAIN p = 1..(Len(body) + 1)
  BY <1>1
<1>4. \A i \in 1..(Len(body) + 1) : i \in 1..Len(body) \/ i = Len(body) + 1
  BY <1>1
<1>5. \A i \in 1..Len(body) : p[i].do \in Doing(type) \ Closing
  BY <1>1 DEF Range
<1>6. \A i \in DOMAIN p : p[i].do \in Doing(type)
  BY <1>1, <1>3, <1>4, <1>5
<1>7. \A i \in DOMAIN p : p[i].do \in Closing => i = Len(p)
  BY <1>1, <1>3, <1>4, <1>5
<1>8. last.do # "stub"
  BY DEF Closing
<1>9. \A i, j \in DOMAIN p : p[i].do = "stub" /\ p[j].do = "stub" => i = j
  BY <1>1, <1>3, <1>4, <1>8
<1>10. PlanOK(p, type)
  BY <1>1, <1>6, <1>7, <1>9 DEF PlanOK
<1> QED BY <1>2, <1>10 DEF p

\* What Do and Each make.
LEMMA DoIs ==
  ASSUME NEW what \in UNION {Doing(t) : t \in OpType}, NEW n \in Node \cup {None},
         NEW join \in Node \cup {None}
  PROVE  /\ Do(what, n, join) \in Step
         /\ Do(what, n, join).do = what /\ Do(what, n, join).node = n
<1>1. what \in {"vm", "start", "row", "stub", "install", "installed", "ca", "agent",
               "agentInstalled", "ready", "delAgent", "agentFile", "delNode", "nodeFile",
               "delVM", "delRow", "rewrite", "stuck", "destroy", "files", "gone"}
  BY DEF Doing, OpType
<1> QED BY <1>1 DEF Do, Step

LEMMA EachIs ==
  ASSUME NEW what \in UNION {Doing(t) : t \in OpType}, NEW nodes \in Seq(Node),
         NEW join \in Node \cup {None}
  PROVE  /\ Each(what, nodes, join) \in Seq(Step)
         /\ \A x \in Range(Each(what, nodes, join)) : x.do = what /\ x.node \in Range(nodes)
<1>1. DOMAIN nodes = 1..Len(nodes) /\ Len(nodes) \in Nat /\ \A i \in 1..Len(nodes) : nodes[i] \in Node
  OBVIOUS
<1>2. \A i \in 1..Len(nodes) : /\ Do(what, nodes[i], join) \in Step
                              /\ Do(what, nodes[i], join).do = what
                              /\ Do(what, nodes[i], join).node = nodes[i]
  BY <1>1, DoIs
<1>3. Each(what, nodes, join) = [i \in 1..Len(nodes) |-> Do(what, nodes[i], join)]
  BY <1>1 DEF Each
<1>4. Each(what, nodes, join) \in Seq(Step)
  BY <1>1, <1>2, <1>3
<1> QED BY <1>1, <1>2, <1>3, <1>4 DEF Range

\* A list without a stub joined to one that has its stubs at p only.
LEMMA StubStays ==
  ASSUME NEW s \in Seq(Step), NEW t \in Seq(Step), NEW p,
         \A i \in DOMAIN s : s[i].do = "stub" => i = p,
         \A x \in Range(t) : x.do # "stub"
  PROVE  s \o t \in Seq(Step) /\ \A i \in DOMAIN (s \o t) : (s \o t)[i].do = "stub" => i = p
<1>1. /\ s \o t \in Seq(Step) /\ Len(s \o t) = Len(s) + Len(t)
      /\ \A i \in 1..Len(s) : (s \o t)[i] = s[i]
      /\ \A i \in 1..Len(t) : (s \o t)[Len(s) + i] = t[i]
  BY Joined
<1>2. /\ Len(s) \in Nat /\ Len(t) \in Nat /\ DOMAIN s = 1..Len(s) /\ DOMAIN t = 1..Len(t)
      /\ DOMAIN (s \o t) = 1..(Len(s) + Len(t))
  BY <1>1
<1>3. \A i \in 1..Len(t) : t[i].do # "stub"
  BY <1>2 DEF Range
<1>4. ASSUME NEW i \in 1..(Len(s) + Len(t)), (s \o t)[i].do = "stub" PROVE i = p
  <2>1. CASE i <= Len(s)
    BY <1>1, <1>2, <1>4, <2>1
  <2>2. CASE ~ (i <= Len(s))
    <3>1. i - Len(s) \in 1..Len(t) /\ i = Len(s) + (i - Len(s))
      BY <1>2, <2>2
    <3> QED BY <1>1, <1>3, <1>4, <3>1
  <2> QED BY <2>1, <2>2
<1> QED BY <1>1, <1>2, <1>4

\* The plan of a creation.
LEMMA CreatePlan ==
  ASSUME NEW m \in Manifest
  PROVE  /\ PlanOK(applyClusterViaPlan(m), "create")
         /\ \E x \in Range(applyClusterViaPlan(m)) : x.do = "stub"
<1> DEFINE nodes == NodeNames(m)
           A == Each("vm", nodes, None)
           B == <<Do("stub", None, None), Do("install", CPs[1], None)>>
           C == Each("install", Tail(nodes), CPs[1])
           D == <<Do("ca", None, None)>>
           E == Each("agent", nodes, None)
           last == Do("ready", None, None)
<1>1. nodes \in Seq(Node) /\ Tail(nodes) \in Seq(Node)
  BY NamesOf
<1>2. CPs[1] \in Node
  BY ClusterConstants
<1>3. {"vm", "stub", "install", "ca", "agent", "ready"} \subseteq Doing("create")
  BY DEF Doing
<1>4. {"vm", "stub", "install", "ca", "agent", "ready"} \subseteq UNION {Doing(t) : t \in OpType}
  BY <1>3 DEF OpType
<1>5. A \in Seq(Step) /\ \A x \in Range(A) : x.do = "vm"
  BY <1>1, <1>4, EachIs
<1>6. /\ Do("stub", None, None) \in Step /\ Do("stub", None, None).do = "stub"
      /\ Do("install", CPs[1], None) \in Step /\ Do("install", CPs[1], None).do = "install"
  BY <1>2, <1>4, DoIs
<1>7. /\ B \in Seq(Step) /\ Len(B) = 2 /\ B[1].do = "stub" /\ B[2].do = "install"
      /\ \A x \in Range(B) : x.do \in {"stub", "install"}
      /\ \E x \in Range(B) : x.do = "stub"
  <2>1. B \in Seq(Step) /\ Len(B) = 2 /\ DOMAIN B = 1..2 /\ B[1].do = "stub" /\ B[2].do = "install"
    BY <1>6
  <2> HIDE DEF B
  <2> QED BY <2>1 DEF Range
<1>8. C \in Seq(Step) /\ \A x \in Range(C) : x.do = "install"
  BY <1>1, <1>2, <1>4, EachIs
<1>9. D \in Seq(Step) /\ \A x \in Range(D) : x.do = "ca"
  <2>1. Do("ca", None, None) \in Step /\ Do("ca", None, None).do = "ca"
    BY <1>4, DoIs
  <2> QED BY <2>1, One
<1>10. E \in Seq(Step) /\ \A x \in Range(E) : x.do = "agent"
  BY <1>1, <1>4, EachIs
<1>11. last \in Step /\ last.do = "ready"
  BY <1>4, DoIs
<1>12. applyClusterViaPlan(m) = ((((A \o B) \o C) \o D) \o E) \o <<last>>
  BY DEF applyClusterViaPlan
<1> HIDE DEF A, B, C, D, E, last, nodes
<1> DEFINE p == Len(A) + 1
<1>13. A \o B \in Seq(Step) /\ \A i \in DOMAIN (A \o B) : (A \o B)[i].do = "stub" => i = p
  <2>1. /\ A \o B \in Seq(Step) /\ Len(A \o B) = Len(A) + 2 /\ Len(A) \in Nat
        /\ \A i \in 1..Len(A) : (A \o B)[i] = A[i]
        /\ (A \o B)[Len(A) + 2] = B[2] /\ DOMAIN (A \o B) = 1..(Len(A) + 2)
    <3>1. /\ A \o B \in Seq(Step) /\ Len(A \o B) = Len(A) + Len(B)
          /\ \A i \in 1..Len(A) : (A \o B)[i] = A[i]
          /\ \A i \in 1..Len(B) : (A \o B)[Len(A) + i] = B[i]
      BY <1>5, <1>7, Joined
    <3>2. Len(A) \in Nat /\ 2 \in 1..Len(B)
      BY <1>5, <1>7
    <3> QED BY <1>7, <3>1, <3>2
  <2>2. \A i \in 1..Len(A) : A[i].do = "vm"
    BY <1>5 DEF Range
  <2>3. \A i \in 1..(Len(A) + 2) : i \in 1..Len(A) \/ i = Len(A) + 1 \/ i = Len(A) + 2
    BY <2>1
  <2> QED BY <1>7, <2>1, <2>2, <2>3
<1> DEFINE AC == (A \o B) \o C
           AD == AC \o D
           AE == AD \o E
<1>14. AC \in Seq(Step) /\ \A i \in DOMAIN AC : AC[i].do = "stub" => i = p
  <2> DEFINE AB == A \o B
  <2>1. AB \in Seq(Step) /\ \A i \in DOMAIN AB : AB[i].do = "stub" => i = p
    BY <1>13
  <2>2. \A x \in Range(C) : x.do # "stub"
    BY <1>8
  <2> HIDE DEF AB, p
  <2>3. AB \o C \in Seq(Step) /\ \A i \in DOMAIN (AB \o C) : (AB \o C)[i].do = "stub" => i = p
    BY <1>8, <2>1, <2>2, StubStays
  <2> QED BY <2>3 DEF AB
<1>15. Range(AC) = Range(A) \cup Range(B) \cup Range(C)
  <2>1. Range(A \o B) = Range(A) \cup Range(B)
    BY <1>5, <1>7, Joined
  <2>2. Range(AC) = Range(A \o B) \cup Range(C)
    <3> DEFINE AB == A \o B
    <3>1. AB \in Seq(Step)
      BY <1>13
    <3> HIDE DEF AB
    <3>2. Range(AB \o C) = Range(AB) \cup Range(C)
      BY <1>8, <3>1, Joined
    <3> QED BY <3>2 DEF AB
  <2> QED BY <2>1, <2>2
<1> HIDE DEF AC
<1>16. AD \in Seq(Step) /\ \A i \in DOMAIN AD : AD[i].do = "stub" => i = p
  BY <1>9, <1>14, StubStays
<1>17. Range(AD) = Range(AC) \cup Range(D)
  BY <1>9, <1>14, Joined
<1> HIDE DEF AD
<1>18. AE \in Seq(Step) /\ \A i \in DOMAIN AE : AE[i].do = "stub" => i = p
  BY <1>10, <1>16, StubStays
<1>19. Range(AE) = Range(AD) \cup Range(E)
  BY <1>10, <1>16, Joined
<1>20. applyClusterViaPlan(m) = AE \o <<last>>
  BY <1>12 DEF AC, AD
<1> HIDE DEF AE, p
<1>21. \A x \in Range(AE) : x.do \in {"vm", "stub", "install", "ca", "agent"}
  BY <1>5, <1>7, <1>8, <1>9, <1>10, <1>15, <1>17, <1>19
<1>22. \A x \in Range(AE) : x.do \in Doing("create") \ Closing
  BY <1>3, <1>21 DEF Closing
<1>23. last.do \in Doing("create") \cap Closing /\ "create" \in OpType
  BY <1>3, <1>11 DEF Closing, OpType
<1>24. \A i, j \in DOMAIN AE : AE[i].do = "stub" /\ AE[j].do = "stub" => i = j
  BY <1>18
<1>25. PlanOK(AE \o <<last>>, "create") /\ Range(AE \o <<last>>) = Range(AE) \cup {last}
  BY <1>11, <1>18, <1>22, <1>23, <1>24, PlanMade
<1>26. \E x \in Range(AE) : x.do = "stub"
  BY <1>7, <1>15, <1>17, <1>19
<1> QED BY <1>20, <1>25, <1>26

\* deleteNodeChildren of one node after the other.
LEMMA Destroying ==
  ASSUME NEW nodes \in Seq(Node)
  PROVE  /\ removeNodes(nodes) \in Seq(Step)
         /\ \A x \in Range(removeNodes(nodes)) : x.do \in {"delAgent", "delNode", "delVM"}
         /\ \A n \in Range(nodes) :
              \E x \in Range(removeNodes(nodes)) : x.do = "delVM" /\ x.node = n
<1> DEFINE s == removeNodes(nodes)
           L == Len(nodes)
           c(n) == deleteNodeChildren(n)
<1>1. L \in Nat /\ DOMAIN nodes = 1..L /\ \A p \in 1..L : nodes[p] \in Node
  OBVIOUS
<1>2. \A n \in Node : /\ c(n)[1].do = "delAgent" /\ c(n)[2].do = "delNode"
                      /\ c(n)[3].do = "delVM" /\ c(n)[3].node = n
                      /\ \A j \in 1..3 : c(n)[j] \in Step
  <2> TAKE n \in Node
  <2>1. {"delAgent", "delNode", "delVM"} \subseteq UNION {Doing(t) : t \in OpType}
    BY DEF Doing, OpType
  <2>2. \A w \in {"delAgent", "delNode", "delVM"} :
          Do(w, n, None) \in Step /\ Do(w, n, None).do = w /\ Do(w, n, None).node = n
    BY <2>1, DoIs
  <2>3. /\ c(n)[1] = Do("delAgent", n, None) /\ c(n)[2] = Do("delNode", n, None)
        /\ c(n)[3] = Do("delVM", n, None)
    BY DEF deleteNodeChildren
  <2>4. \A j \in 1..3 : j = 1 \/ j = 2 \/ j = 3
    OBVIOUS
  <2> HIDE DEF c
  <2> QED BY <2>2, <2>3, <2>4
<1>3. s = [i \in 1..(3 * L) |-> c(nodes[((i - 1) \div 3) + 1])[((i - 1) % 3) + 1]]
  BY DEF OneByOne, removeNodes
<1>4. /\ \A i \in 1..(3 * L) : ((i - 1) \div 3) + 1 \in 1..L /\ ((i - 1) % 3) + 1 \in 1..3
      /\ \A p \in 1..L :
           /\ 3 * (p - 1) + 3 \in 1..(3 * L)
           /\ (((3 * (p - 1) + 3) - 1) \div 3) + 1 = p
           /\ (((3 * (p - 1) + 3) - 1) % 3) + 1 = 3
  BY <1>1, Places
<1> HIDE DEF s, c, L
<1>5. \A i \in 1..(3 * L) : \E n \in Node, j \in 1..3 : s[i] = c(n)[j]
  BY <1>1, <1>3, <1>4
<1>6. \A j \in 1..3 : j = 1 \/ j = 2 \/ j = 3
  OBVIOUS
<1>7. \A i \in 1..(3 * L) : s[i] \in Step /\ s[i].do \in {"delAgent", "delNode", "delVM"}
  BY <1>2, <1>5, <1>6
<1>8. s \in Seq(Step) /\ DOMAIN s = 1..(3 * L)
  BY <1>1, <1>3, <1>7
<1>9. ASSUME NEW p \in 1..L PROVE \E x \in Range(s) : x.do = "delVM" /\ x.node = nodes[p]
  <2>1. s[3 * (p - 1) + 3] = c(nodes[p])[3] /\ 3 * (p - 1) + 3 \in 1..(3 * L)
    BY <1>3, <1>4
  <2>2. c(nodes[p])[3].do = "delVM" /\ c(nodes[p])[3].node = nodes[p]
    BY <1>1, <1>2
  <2>3. s[3 * (p - 1) + 3] \in Range(s)
    BY <1>8, <2>1 DEF Range
  <2> QED BY <2>1, <2>2, <2>3
<1>10. \A n \in Range(nodes) : \E x \in Range(s) : x.do = "delVM" /\ x.node = n
  BY <1>1, <1>9 DEF Range
<1>11. \A x \in Range(s) : x.do \in {"delAgent", "delNode", "delVM"}
  BY <1>7, <1>8 DEF Range
<1> QED BY <1>8, <1>10, <1>11 DEF s

\* A joined node is a control plane.
LEMMA SurvivorIs ==
  ASSUME NEW m, NEW n
  PROVE  survivingControlPlane(m, n) \in Node \cup {None}
<1> DEFINE T == Those(CPs, (Range(state.children) \ removed(m)) \ {n})
<1>1. T \in Seq(Node)
  BY ThoseHolds, ClusterConstants
<1>2. survivingControlPlane(m, n) = IF T = <<>> THEN None ELSE Head(T)
  BY DEF survivingControlPlane
<1> HIDE DEF T
<1> QED BY <1>1, <1>2

\* What respecNode makes.
LEMMA RespecIs ==
  ASSUME NEW m, NEW n \in Node, NEW j \in 1..6
  PROVE  /\ respecNode(m, n)[j] \in Step
         /\ respecNode(m, n)[j].do \in {"stuck", "delAgent", "delNode", "delVM", "vm", "install", "agent"}
         /\ respecNode(m, n)[j].do = "vm" => respecNode(m, n)[j].node = n
<1> DEFINE what == {"stuck", "delAgent", "delNode", "delVM", "vm", "install", "agent"}
<1>1. what \subseteq UNION {Doing(t) : t \in OpType}
  BY DEF Doing, OpType
<1>2. \A w \in what, k \in Node \cup {None}, to \in Node \cup {None} :
        Do(w, k, to) \in Step /\ Do(w, k, to).do = w /\ Do(w, k, to).node = k
  BY <1>1, DoIs
<1> DEFINE join == survivingControlPlane(m, n)
<1>3. CASE join = None
  <2>1. respecNode(m, n)[j] = Do("stuck", None, None)
    BY <1>3 DEF respecNode
  <2>2. Do("stuck", None, None) \in Step /\ Do("stuck", None, None).do = "stuck"
    BY <1>2
  <2> QED BY <2>1, <2>2
<1>4. CASE join # None
  <2> DEFINE a == deleteNodeChildren(n)
             b == <<Do("vm", n, None), Do("install", n, join), Do("agent", n, None)>>
  <2>1. respecNode(m, n) = a \o b
    BY <1>4 DEF respecNode
  <2>2. join \in Node \cup {None}
    BY SurvivorIs
  <2> HIDE DEF join
  <2>3. /\ a \in Seq(Step) /\ Len(a) = 3 /\ a[1] = Do("delAgent", n, None)
        /\ a[2] = Do("delNode", n, None) /\ a[3] = Do("delVM", n, None)
    BY <1>2 DEF deleteNodeChildren
  <2>4. /\ b \in Seq(Step) /\ Len(b) = 3 /\ b[1] = Do("vm", n, None)
        /\ b[2] = Do("install", n, join) /\ b[3] = Do("agent", n, None)
    BY <1>2, <2>2
  <2> HIDE DEF a, b
  <2>5. /\ \A i \in 1..Len(a) : (a \o b)[i] = a[i]
        /\ \A i \in 1..Len(b) : (a \o b)[Len(a) + i] = b[i]
    <3>1. a \in Seq(Step) /\ b \in Seq(Step)
      BY <2>3, <2>4
    <3> QED BY <3>1, Joined
  <2> DEFINE ab == a \o b
  <2>6. /\ \A i \in 1..3 : ab[i] = a[i]
        /\ \A i \in 1..3 : ab[3 + i] = b[i]
    BY <2>3, <2>4, <2>5
  <2> HIDE DEF ab
  <2>7. /\ ab[1] = a[1] /\ ab[2] = a[2] /\ ab[3] = a[3]
        /\ ab[4] = b[1] /\ ab[5] = b[2] /\ ab[6] = b[3] /\ respecNode(m, n) = ab
    <3>1. 1 \in 1..3 /\ 2 \in 1..3 /\ 3 \in 1..3 /\ 3 + 1 = 4 /\ 3 + 2 = 5 /\ 3 + 3 = 6
      OBVIOUS
    <3>2. respecNode(m, n) = ab
      BY <2>1 DEF ab
    <3> QED BY <2>6, <3>1, <3>2
  <2>8. j = 1 \/ j = 2 \/ j = 3 \/ j = 4 \/ j = 5 \/ j = 6
    OBVIOUS
  <2> QED BY <1>2, <2>2, <2>3, <2>4, <2>7, <2>8
<1> QED BY <1>3, <1>4

\* Destroying and recreating one node after the other.
LEMMA Respeccing ==
  ASSUME NEW m \in Manifest, NEW nodes \in Seq(Node)
  PROVE  /\ respecNodesViaPlan(m, nodes) \in Seq(Step)
         /\ \A x \in Range(respecNodesViaPlan(m, nodes)) :
              /\ x.do \in {"stuck", "delAgent", "delNode", "delVM", "vm", "install", "agent"}
              /\ x.do = "vm" => x.node \in Range(nodes)
<1> DEFINE s == respecNodesViaPlan(m, nodes)
           L == Len(nodes)
           c(n) == respecNode(m, n)
           what == {"stuck", "delAgent", "delNode", "delVM", "vm", "install", "agent"}
<1>1. L \in Nat /\ DOMAIN nodes = 1..L /\ \A p \in 1..L : nodes[p] \in Node
  OBVIOUS
<1>2. \A n \in Node : \A j \in 1..6 : /\ c(n)[j] \in Step /\ c(n)[j].do \in what
                                      /\ c(n)[j].do = "vm" => c(n)[j].node = n
  BY RespecIs
<1>3. s = [i \in 1..(6 * L) |-> c(nodes[((i - 1) \div 6) + 1])[((i - 1) % 6) + 1]]
  BY DEF OneByOne, respecNodesViaPlan
<1>4. \A i \in 1..(6 * L) : ((i - 1) \div 6) + 1 \in 1..L /\ ((i - 1) % 6) + 1 \in 1..6
  BY <1>1, Places
<1> HIDE DEF s, c, L, what
<1>5. \A i \in 1..(6 * L) : \E n \in Range(nodes), j \in 1..6 : n \in Node /\ s[i] = c(n)[j]
  BY <1>1, <1>3, <1>4 DEF Range
<1>6. \A i \in 1..(6 * L) : /\ s[i] \in Step /\ s[i].do \in what
                            /\ s[i].do = "vm" => s[i].node \in Range(nodes)
  BY <1>2, <1>5
<1>7. s \in Seq(Step) /\ DOMAIN s = 1..(6 * L)
  <2>1. 6 * L \in Nat /\ \A i \in 1..(6 * L) : s[i] \in Step
    BY <1>1, <1>6
  <2>2. DOMAIN s = 1..(6 * L) /\ s = [i \in 1..(6 * L) |-> s[i]]
    BY <1>3
  <2> QED BY <2>1, <2>2
<1>8. \A x \in Range(s) : x.do \in what /\ (x.do = "vm" => x.node \in Range(nodes))
  <2> SUFFICES ASSUME NEW i \in 1..(6 * L)
               PROVE  s[i].do \in what /\ (s[i].do = "vm" => s[i].node \in Range(nodes))
    <3>1. \A x \in Range(s) : \E i \in 1..(6 * L) : x = s[i]
      BY <1>7 DEF Range
    <3> QED BY <3>1
  <2> QED BY <1>6
<1> QED BY <1>7, <1>8 DEF s, what

\* The plan of a deletion.
LEMMA DeletePlan ==
  ASSUME NEW nodes \in Seq(Node)
  PROVE  /\ PlanOK(deleteListed(nodes), "delete")
         /\ \A n \in Range(nodes) :
              \E x \in Range(deleteListed(nodes)) : x.do = "destroy" /\ x.node = n
<1> DEFINE c(n) == <<Do("destroy", n, None), Do("files", n, None)>>
           s == OneByOne(2, LAMBDA n : <<Do("destroy", n, None), Do("files", n, None)>>, nodes)
           L == Len(nodes)
           last == Do("gone", None, None)
<1>1. L \in Nat /\ DOMAIN nodes = 1..L /\ \A p \in 1..L : nodes[p] \in Node
  OBVIOUS
<1>2. /\ {"destroy", "files", "gone"} \subseteq Doing("delete")
      /\ {"destroy", "files", "gone"} \subseteq UNION {Doing(t) : t \in OpType}
  BY DEF Doing, OpType
<1>3. \A n \in Node : /\ c(n)[1].do = "destroy" /\ c(n)[1].node = n /\ c(n)[2].do = "files"
                      /\ c(n)[1] \in Step /\ c(n)[2] \in Step
  <2> TAKE n \in Node
  <2>1. c(n)[1] = Do("destroy", n, None) /\ c(n)[2] = Do("files", n, None)
    OBVIOUS
  <2> HIDE DEF c
  <2> QED BY <1>2, <2>1, DoIs
<1>4. last \in Step /\ last.do = "gone"
  BY <1>2, DoIs
<1>5. s = [i \in 1..(2 * L) |-> c(nodes[((i - 1) \div 2) + 1])[((i - 1) % 2) + 1]]
  BY DEF OneByOne
<1>6. /\ \A i \in 1..(2 * L) : ((i - 1) \div 2) + 1 \in 1..L /\ ((i - 1) % 2) + 1 \in 1..2
      /\ \A p \in 1..L :
           /\ 2 * (p - 1) + 1 \in 1..(2 * L)
           /\ (((2 * (p - 1) + 1) - 1) \div 2) + 1 = p
           /\ (((2 * (p - 1) + 1) - 1) % 2) + 1 = 1
  BY <1>1, Places
<1> HIDE DEF s, c, L, last
<1>7. \A i \in 1..(2 * L) : \E n \in Node, j \in 1..2 : s[i] = c(n)[j]
  BY <1>1, <1>5, <1>6
<1>8. \A j \in 1..2 : j = 1 \/ j = 2
  OBVIOUS
<1>9. \A i \in 1..(2 * L) : s[i] \in Step /\ s[i].do \in {"destroy", "files"}
  BY <1>3, <1>7, <1>8
<1>10. s \in Seq(Step) /\ DOMAIN s = 1..(2 * L)
  BY <1>1, <1>5, <1>9
<1>11. ASSUME NEW p \in 1..L PROVE \E x \in Range(s) : x.do = "destroy" /\ x.node = nodes[p]
  <2>1. s[2 * (p - 1) + 1] = c(nodes[p])[1] /\ 2 * (p - 1) + 1 \in 1..(2 * L)
    BY <1>5, <1>6
  <2>2. c(nodes[p])[1].do = "destroy" /\ c(nodes[p])[1].node = nodes[p]
    BY <1>1, <1>3
  <2>3. s[2 * (p - 1) + 1] \in Range(s)
    BY <1>10, <2>1 DEF Range
  <2> QED BY <2>1, <2>2, <2>3
<1>12. \A n \in Range(nodes) : \E x \in Range(s) : x.do = "destroy" /\ x.node = n
  BY <1>1, <1>11 DEF Range
<1>13. \A x \in Range(s) : x.do \in {"destroy", "files"}
  BY <1>9, <1>10 DEF Range
<1>14. /\ \A x \in Range(s) : x.do \in Doing("delete") \ Closing
       /\ last.do \in Doing("delete") \cap Closing /\ "delete" \in OpType
  BY <1>2, <1>4, <1>13 DEF Closing, OpType
<1>15. \A i, j \in DOMAIN s : s[i].do = "stub" /\ s[j].do = "stub" => i = j
  BY <1>9, <1>10
<1>16. PlanOK(s \o <<last>>, "delete") /\ Range(s \o <<last>>) = Range(s) \cup {last}
  BY <1>4, <1>10, <1>14, <1>15, PlanMade
<1>17. \A n \in Range(nodes) : \E x \in Range(s \o <<last>>) : x.do = "destroy" /\ x.node = n
  BY <1>12, <1>16
<1> QED BY <1>16, <1>17 DEF s, last, deleteListed

\* What computeChangePlan finds.
LEMMA ChangePlan ==
  ASSUME NEW m \in Manifest, state \in State
  PROVE  /\ removeWorkers(m) \o removeCPs(m) \in Seq(Node)
         /\ Range(removeWorkers(m) \o removeCPs(m)) = Range(state.children) \ Range(NodeNames(m))
         /\ removed(m) = Range(state.children) \ Range(NodeNames(m))
         /\ adds(m) \in Seq(Node) /\ IsInjective(adds(m))
         /\ Range(adds(m)) = Range(NodeNames(m)) \ Range(state.children)
<1>1. /\ state.children \in Seq(Node) /\ Range(state.children) \subseteq Node
      /\ NodeNames(m) \in Seq(Node) /\ Range(NodeNames(m)) \subseteq Node
  <2>1. state.children \in Seq(Node) /\ NodeNames(m) \in Seq(Node)
    BY ChildrenAre, NamesOf DEF State
  <2> QED BY <2>1, Held
<1> DEFINE Old == Range(state.children)
           New == Range(NodeNames(m))
<1>2. /\ Removed(m, Workers) \in Seq(Node) /\ Range(Removed(m, Workers)) = Range(Workers) \cap (Old \ New)
      /\ Removed(m, CPs) \in Seq(Node) /\ Range(Removed(m, CPs)) = Range(CPs) \cap (Old \ New)
  BY ThoseHolds, ClusterConstants DEF Removed
<1>3. /\ Added(m, Workers) \in Seq(Node) /\ Range(Added(m, Workers)) = Range(Workers) \cap (New \ Old)
      /\ Added(m, CPs) \in Seq(Node) /\ Range(Added(m, CPs)) = Range(CPs) \cap (New \ Old)
      /\ IsInjective(Added(m, Workers)) /\ IsInjective(Added(m, CPs))
  <2>1. CPs \in Seq(Node) /\ Workers \in Seq(Node)
    BY ClusterConstants
  <2> QED BY <2>1, ThoseHolds, Names DEF Added
<1>4. Node = Range(CPs) \cup Range(Workers)
  BY ClusterConstants
<1> DEFINE RW == Removed(m, Workers)
           RC == Removed(m, CPs)
           AW == Added(m, Workers)
           AC == Added(m, CPs)
<1> HIDE DEF RW, RC, AW, AC, Old, New
<1>5. /\ RW \o RC \in Seq(Node) /\ Range(RW \o RC) = Old \ New
      /\ RC \o RW \in Seq(Node) /\ Range(RC \o RW) = Old \ New
  <2>1. RW \in Seq(Node) /\ RC \in Seq(Node)
    BY <1>2 DEF RW, RC
  <2>2. /\ RW \o RC \in Seq(Node) /\ Range(RW \o RC) = Range(RW) \cup Range(RC)
        /\ RC \o RW \in Seq(Node) /\ Range(RC \o RW) = Range(RW) \cup Range(RC)
    BY <2>1, Joined
  <2>3. Range(RW) \cup Range(RC) = Old \ New
    BY <1>1, <1>2, <1>4 DEF RW, RC, Old
  <2> QED BY <2>2, <2>3
<1>6. AC \o AW \in Seq(Node) /\ Range(AC \o AW) = New \ Old /\ IsInjective(AC \o AW)
  <2>1. AW \in Seq(Node) /\ AC \in Seq(Node) /\ IsInjective(AC) /\ IsInjective(AW)
    BY <1>3 DEF AW, AC
  <2>2. Range(AC \o AW) = Range(AC) \cup Range(AW)
    BY <2>1, Joined
  <2>3. Range(AC) \cup Range(AW) = New \ Old
    BY <1>1, <1>3, <1>4 DEF AW, AC, New
  <2>4. Range(AC) \cap Range(AW) = {}
    BY <1>3, Names DEF AW, AC
  <2>5. AC \o AW \in Seq(Node) /\ IsInjective(AC \o AW)
    BY <2>1, <2>4, JoinedInjective
  <2> QED BY <2>2, <2>3, <2>5
<1> QED
  BY <1>5, <1>6 DEF removeWorkers, removeCPs, removed, adds, RW, RC, AW, AC, Old, New

\* The plan of a convergence.
LEMMA ConvergePlan ==
  ASSUME NEW m \in Manifest, state \in State, NEW respecs \in Seq(Node),
         Range(respecs) \subseteq Range(NodeNames(m))
  PROVE  /\ PlanOK(applyExisting(m, respecs), "converge")
         /\ \A x \in Range(applyExisting(m, respecs)) : x.do = "vm" => x.node \in Range(NodeNames(m))
         /\ \A n \in Range(state.children) \ Range(NodeNames(m)) :
              \E x \in Range(applyExisting(m, respecs)) : x.do = "delVM" /\ x.node = n
<1> DEFINE gone == removeWorkers(m) \o removeCPs(m)
           A == removeNodes(gone)
           B == addNodesViaPlan(m)
           C == respecNodesViaPlan(m, respecs)
           what == {"stuck", "delAgent", "delNode", "delVM", "vm", "install", "agent"}
           last == Do("rewrite", None, None)
<1>1. gone \in Seq(Node) /\ Range(gone) = Range(state.children) \ Range(NodeNames(m))
  BY ChangePlan
<1> HIDE DEF gone
<1>2. /\ A \in Seq(Step) /\ \A x \in Range(A) : x.do \in {"delAgent", "delNode", "delVM"}
      /\ \A n \in Range(gone) : \E x \in Range(A) : x.do = "delVM" /\ x.node = n
  BY <1>1, Destroying
<1>3. /\ C \in Seq(Step)
      /\ \A x \in Range(C) : x.do \in what /\ (x.do = "vm" => x.node \in Range(respecs))
  BY Respeccing
<1>4. what \cup {"rewrite"} \subseteq Doing("converge")
  BY DEF Doing
<1>5. what \cup {"rewrite"} \subseteq UNION {Doing(t) : t \in OpType}
  BY <1>4 DEF OpType
<1>6. B \in Seq(Step) /\ \A x \in Range(B) :
                           x.do \in what /\ (x.do = "vm" => x.node \in Range(NodeNames(m)))
  <2> DEFINE nodes == adds(m)
             join == survivingControlPlane(m, None)
             U == Each("vm", nodes, None)
             V == Each("install", nodes, join)
             W == Each("agent", nodes, None)
             stop == Do("stuck", None, None)
  <2>1. nodes \in Seq(Node) /\ Range(nodes) \subseteq Range(NodeNames(m))
    BY ChangePlan
  <2>2. join \in Node \cup {None}
    BY SurvivorIs
  <2>3. stop \in Step /\ stop.do = "stuck"
    BY <1>5, DoIs
  <2>4. B = IF nodes = <<>> THEN <<>> ELSE IF join = None THEN <<stop>> ELSE (U \o V) \o W
    BY DEF addNodesViaPlan
  <2> HIDE DEF nodes, join, stop, B
  <2>5. U \in Seq(Step) /\ \A x \in Range(U) : x.do = "vm" /\ x.node \in Range(nodes)
    BY <1>5, <2>1, EachIs
  <2>6. V \in Seq(Step) /\ \A x \in Range(V) : x.do = "install" /\ x.node \in Range(nodes)
    BY <1>5, <2>1, <2>2, EachIs
  <2>7. W \in Seq(Step) /\ \A x \in Range(W) : x.do = "agent" /\ x.node \in Range(nodes)
    BY <1>5, <2>1, EachIs
  <2> HIDE DEF U, V, W
  <2>8. U \o V \in Seq(Step) /\ Range(U \o V) = Range(U) \cup Range(V)
    BY <2>5, <2>6, Joined
  <2>9. (U \o V) \o W \in Seq(Step) /\ Range((U \o V) \o W) = Range(U) \cup Range(V) \cup Range(W)
    <3> DEFINE UV == U \o V
    <3>1. UV \in Seq(Step) /\ Range(UV) = Range(U) \cup Range(V)
      BY <2>8
    <3> HIDE DEF UV
    <3>2. UV \o W \in Seq(Step) /\ Range(UV \o W) = Range(UV) \cup Range(W)
      BY <2>7, <3>1, Joined
    <3> QED BY <3>1, <3>2 DEF UV
  <2>10. CASE B = <<>>
    <3>1. B \in Seq(Step) /\ Range(B) = {}
      BY <2>10 DEF Range
    <3> QED BY <3>1
  <2>11. CASE B = <<stop>>
    <3>1. B \in Seq(Step) /\ Range(B) = {stop}
      BY <2>3, <2>11, One
    <3> QED BY <2>3, <3>1
  <2>12. CASE B = (U \o V) \o W
    <3>1. B \in Seq(Step) /\ Range(B) = Range(U) \cup Range(V) \cup Range(W)
      BY <2>9, <2>12
    <3> QED BY <2>1, <2>5, <2>6, <2>7, <3>1
  <2> QED BY <2>4, <2>10, <2>11, <2>12
<1>7. last \in Step /\ last.do = "rewrite"
  BY <1>5, DoIs
<1>8. applyExisting(m, respecs) = ((A \o B) \o C) \o <<last>>
  BY DEF applyExisting, gone
<1> HIDE DEF A, B, C, last
<1> DEFINE body == (A \o B) \o C
<1>9. body \in Seq(Step) /\ Range(body) = Range(A) \cup Range(B) \cup Range(C)
  <2>1. A \o B \in Seq(Step) /\ Range(A \o B) = Range(A) \cup Range(B)
    BY <1>2, <1>6, Joined
  <2> DEFINE AB == A \o B
  <2>2. AB \in Seq(Step) /\ Range(AB) = Range(A) \cup Range(B)
    BY <2>1
  <2> HIDE DEF AB
  <2>3. AB \o C \in Seq(Step) /\ Range(AB \o C) = Range(AB) \cup Range(C)
    BY <1>3, <2>2, Joined
  <2> QED BY <2>2, <2>3 DEF AB
<1> HIDE DEF body
<1>10. \A x \in Range(body) : x.do \in what /\ (x.do = "vm" => x.node \in Range(NodeNames(m)))
  BY <1>2, <1>3, <1>6, <1>9
<1>11. /\ \A x \in Range(body) : x.do \in Doing("converge") \ Closing
       /\ last.do \in Doing("converge") \cap Closing /\ "converge" \in OpType
  BY <1>4, <1>7, <1>10 DEF Closing, OpType
<1>12. \A i, j \in DOMAIN body : body[i].do = "stub" /\ body[j].do = "stub" => i = j
  <2>1. \A i \in DOMAIN body : body[i].do # "stub"
    BY <1>10 DEF Range
  <2> QED BY <2>1
<1>13. PlanOK(body \o <<last>>, "converge") /\ Range(body \o <<last>>) = Range(body) \cup {last}
  BY <1>7, <1>9, <1>11, <1>12, PlanMade
<1> DEFINE p == applyExisting(m, respecs)
<1>14. PlanOK(p, "converge") /\ Range(p) = Range(body) \cup {last}
  BY <1>8, <1>13 DEF body
<1> HIDE DEF p
<1>15. \A x \in Range(p) : x.do = "vm" => x.node \in Range(NodeNames(m))
  BY <1>7, <1>10, <1>14
<1>16. \A n \in Range(gone) : \E x \in Range(p) : x.do = "delVM" /\ x.node = n
  BY <1>2, <1>9, <1>14
<1> QED BY <1>1, <1>14, <1>15, <1>16 DEF p

------------------------------------------------------------------------------
(* The inductive invariant *)

Listed == IF state = None THEN {} ELSE Range(state.children)
Has(what) == \E i \in DOMAIN op.todo : op.todo[i].do = what
HasFor(what, n) == \E i \in DOMAIN op.todo : op.todo[i].do = what /\ op.todo[i].node = n

\* An operation that applies has a manifest, and its steps are a plan.
OpInv ==
  op # None => /\ op.type # "delete" => op.m \in Manifest
               /\ PlanOK(op.todo, op.type)

\* Until it writes the state file an operation works on the list that it read,
\* and a VM that its last write drops from the list is gone or about to be.
ListInv ==
  op # None =>
    /\ op.type = "create" /\ Has("stub") => Range(op.listed) = Listed
    /\ op.type = "create" /\ Has("ready") =>
         Has("stub") \/ (state # None /\ Range(state.children) = Range(NodeNames(op.m)))
    /\ op.type = "converge" /\ Has("rewrite") =>
         /\ state # None /\ op.listed = state.children
         /\ \A i \in DOMAIN op.todo :
              op.todo[i].do = "vm" => op.todo[i].node \in Range(NodeNames(op.m))
         /\ \A n \in Listed \ Range(NodeNames(op.m)) : vm[n] = None \/ HasFor("delVM", n)
    /\ op.type = "delete" /\ Has("gone") =>
         \A n \in Listed : vm[n] = None \/ HasFor("destroy", n)

------------------------------------------------------------------------------
(* One step of an operation *)

\* The steps that another one goes on as.
Onward == {"start", "row", "installed", "agentInstalled", "agentFile", "nodeFile", "delRow"}

\* The operation stays what it is and does its first step, or goes on with it.
Advances ==
  /\ op # None /\ op' \in Oper /\ op' # None /\ OpInv'
  /\ op'.type = op.type /\ op'.m = op.m /\ op'.listed = op.listed
  /\ 1 \in DOMAIN op.todo
  /\ \A i \in DOMAIN op'.todo :
       (\E j \in DOMAIN op.todo : op'.todo[i] = op.todo[j]) \/ op'.todo[i].do \in Onward
  /\ \A j \in DOMAIN op.todo : j = 1 \/ \E i \in DOMAIN op'.todo : op'.todo[i] = op.todo[j]

\* The fields of an operation.
LEMMA OperIs ==
  ASSUME op \in Oper
  PROVE  /\ op.type \in OpType /\ op.m \in Manifest \cup {None} /\ op.todo \in Seq(Step)
         /\ op.listed \in Children /\ op.sound \in BOOLEAN /\ op.gap \in BOOLEAN
         /\ op # None
         /\ \A t \in Seq(Step) : /\ [op EXCEPT !.todo = t] \in Oper
                                 /\ [op EXCEPT !.todo = t].todo = t
                                 /\ [op EXCEPT !.todo = t].type = op.type
                                 /\ [op EXCEPT !.todo = t].m = op.m
                                 /\ [op EXCEPT !.todo = t].listed = op.listed
<1>1. None \notin Oper
  BY ClusterConstants
<1> QED BY <1>1 DEF Oper, OpType

LEMMA DoneAdvances ==
  ASSUME op \in Oper, OpInv, op.todo # <<>>, Done
  PROVE  Advances
<1> DEFINE t == Tail(op.todo)
<1>1. /\ op.type \in OpType /\ op # None /\ op.todo \in Seq(Step) /\ PlanOK(op.todo, op.type)
      /\ (op.type # "delete" => op.m \in Manifest)
  BY OperIs DEF OpInv
<1>2. /\ PlanOK(t, op.type)
      /\ \A i \in DOMAIN t : i + 1 \in DOMAIN op.todo /\ t[i] = op.todo[i + 1]
      /\ \A i \in DOMAIN op.todo : i = 1 \/ (i - 1 \in DOMAIN t /\ t[i - 1] = op.todo[i])
  BY <1>1, PlanTail
<1>3. t \in Seq(Step) /\ 1 \in DOMAIN op.todo
  <2>1. Len(op.todo) \in Nat /\ Len(op.todo) # 0 /\ DOMAIN op.todo = 1..Len(op.todo)
    BY <1>1
  <2> QED BY <1>2, <2>1 DEF PlanOK
<1>4. op' = [op EXCEPT !.todo = t]
  BY DEF Done
<1> HIDE DEF t
<1>5. /\ op' \in Oper /\ op'.todo = t /\ op'.type = op.type /\ op'.m = op.m
      /\ op'.listed = op.listed
  BY <1>3, <1>4, OperIs
<1>6. op' # None
  BY <1>5, ClusterConstants
<1>7. OpInv'
  BY <1>1, <1>2, <1>5 DEF OpInv
<1>8. \A i \in DOMAIN t : \E j \in DOMAIN op.todo : t[i] = op.todo[j]
  BY <1>2
<1>9. \A j \in DOMAIN op.todo : j = 1 \/ \E i \in DOMAIN t : t[i] = op.todo[j]
  BY <1>2
<1> QED BY <1>1, <1>3, <1>5, <1>6, <1>7, <1>8, <1>9 DEF Advances

LEMMA GoesOnAdvances ==
  ASSUME op \in Oper, OpInv, op.todo # <<>>, NEW what \in Onward \cap Doing(op.type), GoesOn(what)
  PROVE  Advances
<1> DEFINE t == [op.todo EXCEPT ![1].do = what]
<1>1. /\ op.type \in OpType /\ op # None /\ op.todo \in Seq(Step) /\ PlanOK(op.todo, op.type)
      /\ (op.type # "delete" => op.m \in Manifest)
  BY OperIs DEF OpInv
<1>2. what \in Doing(op.type) \ (Closing \cup {"stub"})
  BY DEF Onward, Closing
<1>3. /\ PlanOK(t, op.type) /\ DOMAIN t = DOMAIN op.todo /\ 1 \in DOMAIN op.todo
      /\ t[1].do = what
      /\ \A i \in DOMAIN op.todo : i # 1 => t[i] = op.todo[i]
  BY <1>1, <1>2, PlanOn
<1>4. op' = [op EXCEPT !.todo = t]
  BY DEF GoesOn
<1> HIDE DEF t
<1>5. t \in Seq(Step)
  BY <1>3 DEF PlanOK
<1>6. /\ op' \in Oper /\ op'.todo = t /\ op'.type = op.type /\ op'.m = op.m
      /\ op'.listed = op.listed
  BY <1>4, <1>5, OperIs
<1>7. op' # None
  BY <1>6, ClusterConstants
<1>8. OpInv'
  BY <1>1, <1>3, <1>6 DEF OpInv
<1>9. \A i \in DOMAIN t : (\E j \in DOMAIN op.todo : t[i] = op.todo[j]) \/ t[i].do \in Onward
  BY <1>3
<1>10. \A j \in DOMAIN op.todo : j = 1 \/ \E i \in DOMAIN t : t[i] = op.todo[j]
  BY <1>3
<1> QED BY <1>1, <1>3, <1>6, <1>7, <1>8, <1>9, <1>10 DEF Advances

\* What a step on a node does to the VMs and to the lists.
Works ==
  /\ Advances /\ state' = state
  /\ op.todo[1].do \notin Closing \cup {"stub"}
  /\ \A k \in Node : vm'[k] = None \/ vm[k] # None \/ (op.todo[1].do = "vm" /\ op.todo[1].node = k)
  /\ op.todo[1].do \in {"delVM", "destroy"} => vm'[op.todo[1].node] = None
  /\ \A k \in Node : vm'[k] # None /\ (k \in unlisted \/ vm[k] = None) => k \in unlisted' \/ k \in Listed

\* The operation at the step.
LEMMA AtIs ==
  ASSUME TypeOK, OpInv, NEW what, NEW n, At(what, n)
  PROVE  /\ op \in Oper /\ op.todo # <<>> /\ op # None /\ 1 \in DOMAIN op.todo
         /\ op.todo[1].do = what /\ op.todo[1].node = n
         /\ what \in Doing(op.type)
<1>1. op \in Oper /\ op.todo # <<>> /\ op # None
  BY DEF At, TypeOK
<1>2. op.todo \in Seq(Step) /\ PlanOK(op.todo, op.type)
  BY <1>1, OperIs DEF OpInv
<1>3. Len(op.todo) \in Nat /\ Len(op.todo) # 0 /\ DOMAIN op.todo = 1..Len(op.todo)
  BY <1>1, <1>2
<1>4. 1 \in DOMAIN op.todo /\ Head(op.todo) = op.todo[1]
  BY <1>2, <1>3
<1> QED BY <1>1, <1>2, <1>4 DEF At, PlanOK

\* What goes on belongs to the same operations.
LEMMA OnwardIs ==
  ASSUME NEW type \in OpType
  PROVE  /\ "vm" \in Doing(type) => {"start", "row"} \subseteq Doing(type)
         /\ "start" \in Doing(type) => "row" \in Doing(type)
         /\ "install" \in Doing(type) => "installed" \in Doing(type)
         /\ "agent" \in Doing(type) => "agentInstalled" \in Doing(type)
         /\ "delAgent" \in Doing(type) => "agentFile" \in Doing(type)
         /\ "delNode" \in Doing(type) => "nodeFile" \in Doing(type)
         /\ "delVM" \in Doing(type) => "delRow" \in Doing(type)
BY DEF Doing, OpType

\* Steps that leave the VMs and the lists alone.
LEMMA QuietWorks ==
  ASSUME TypeOK, OpInv, NEW what, NEW n, At(what, n), Advances,
         what \notin Closing \cup {"stub", "delVM", "destroy"},
         state' = state, vm' = vm, unlisted' = unlisted
  PROVE  Works
<1>1. op.todo[1].do = what
  BY AtIs
<1> QED BY <1>1 DEF Works

LEMMA QuietDone ==
  ASSUME TypeOK, OpInv, NEW what, NEW n, At(what, n), Done,
         what \notin Closing \cup {"stub", "delVM", "destroy"},
         state' = state, vm' = vm, unlisted' = unlisted
  PROVE  Works
<1>1. op \in Oper /\ op.todo # <<>>
  BY AtIs
<1>2. Advances
  BY <1>1, DoneAdvances
<1> QED BY <1>2, QuietWorks

LEMMA QuietOn ==
  ASSUME TypeOK, OpInv, NEW what, NEW n, At(what, n), NEW next \in Onward, GoesOn(next),
         what \in Doing(op.type) => next \in Doing(op.type),
         what \notin Closing \cup {"stub", "delVM", "destroy"},
         state' = state, vm' = vm, unlisted' = unlisted
  PROVE  Works
<1>1. op \in Oper /\ op.todo # <<>> /\ what \in Doing(op.type)
  BY AtIs
<1>2. Advances
  BY <1>1, GoesOnAdvances
<1> QED BY <1>2, QuietWorks

\* A step on a node advances the operation, stops a VM, or is none of the
\* operation's.
LEMMA NodeWorks ==
  ASSUME TypeOK, OpInv, NEW n \in Node, NodeStep(n)
  PROVE  \/ Works
         \/ /\ op' = op /\ state' = state /\ unlisted' = unlisted
            /\ \A k \in Node : vm'[k] # None => vm[k] # None
         \/ VMLost(n)
<1> DEFINE quiet == {"vm", "start", "row", "install", "installed", "ca", "agent", "agentInstalled",
                     "delAgent", "agentFile", "delNode", "nodeFile", "delRow", "files"}
<1>1. \A w \in quiet : w \notin Closing \cup {"stub", "delVM", "destroy"}
  BY DEF Closing
<1>2. ASSUME NEW w \in quiet, At(w, n), Done, vm' = vm, state' = state, unlisted' = unlisted
      PROVE  Works
  BY <1>1, <1>2, QuietDone
<1>3. ASSUME NEW w \in quiet, At(w, n), NEW next \in Onward, GoesOn(next),
             w \in Doing(op.type) => next \in Doing(op.type),
             vm' = vm, state' = state, unlisted' = unlisted
      PROVE  Works
  BY <1>1, <1>3, QuietOn
<1> HIDE DEF quiet
<1>4. op # None => op.type \in OpType
  BY OperIs DEF TypeOK
<1>5. CASE VMCached(n)
  <2>1. At("vm", n) /\ Done /\ vm' = vm /\ state' = state /\ unlisted' = unlisted
    BY <1>5 DEF VMCached, vmVars
  <2>2. "vm" \in quiet
    BY DEF quiet
  <2> QED BY <1>2, <2>1, <2>2
<1>6. CASE VMSaved(n)
  <2>1. At("row", n) /\ Done /\ vm' = vm /\ state' = state /\ unlisted' = unlisted
    BY <1>6 DEF VMSaved, vmVars, SaveRow
  <2>2. "row" \in quiet
    BY DEF quiet
  <2> QED BY <1>2, <2>1, <2>2
<1>7. CASE AlreadyInstalled(n)
  <2>1. At("install", n) /\ Done /\ vm' = vm /\ state' = state /\ unlisted' = unlisted
    BY <1>7 DEF AlreadyInstalled, vmVars
  <2>2. "install" \in quiet
    BY DEF quiet
  <2> QED BY <1>2, <2>1, <2>2
<1>8. CASE InstallFirst(n) \/ InstallJoining(n)
  <2>1. /\ At("install", n) /\ GoesOn("installed") /\ vm' = vm /\ state' = state
        /\ unlisted' = unlisted
    BY <1>8 DEF InstallFirst, InstallJoining, Installs, vmVars
  <2>2. "install" \in quiet /\ "installed" \in Onward
    BY DEF quiet, Onward
  <2>3. "install" \in Doing(op.type) => "installed" \in Doing(op.type)
    BY <1>4, <2>1, OnwardIs DEF At
  <2> QED BY <1>3, <2>1, <2>2, <2>3
<1>9. CASE NodeSaved(n)
  <2>1. At("installed", n) /\ Done /\ vm' = vm /\ state' = state /\ unlisted' = unlisted
    BY <1>9 DEF NodeSaved, vmVars
  <2>2. "installed" \in quiet
    BY DEF quiet
  <2> QED BY <1>2, <2>1, <2>2
<1>10. CASE AgentAlready(n)
  <2>1. At("agent", n) /\ Done /\ vm' = vm /\ state' = state /\ unlisted' = unlisted
    BY <1>10 DEF AgentAlready, vmVars
  <2>2. "agent" \in quiet
    BY DEF quiet
  <2> QED BY <1>2, <2>1, <2>2
<1>11. CASE AgentInstalled(n)
  <2>1. /\ At("agent", n) /\ GoesOn("agentInstalled") /\ vm' = vm /\ state' = state
        /\ unlisted' = unlisted
    BY <1>11 DEF AgentInstalled, vmVars
  <2>2. "agent" \in quiet /\ "agentInstalled" \in Onward
    BY DEF quiet, Onward
  <2>3. "agent" \in Doing(op.type) => "agentInstalled" \in Doing(op.type)
    BY <1>4, <2>1, OnwardIs DEF At
  <2> QED BY <1>3, <2>1, <2>2, <2>3
<1>12. CASE AgentSaved(n)
  <2>1. At("agentInstalled", n) /\ Done /\ vm' = vm /\ state' = state /\ unlisted' = unlisted
    BY <1>12 DEF AgentSaved, vmVars
  <2>2. "agentInstalled" \in quiet
    BY DEF quiet
  <2> QED BY <1>2, <2>1, <2>2
<1>13. CASE NothingToRemove(n)
  <2>1. /\ At("delAgent", n) \/ At("delNode", n)
        /\ Done /\ vm' = vm /\ state' = state /\ unlisted' = unlisted
    BY <1>13 DEF NothingToRemove, vmVars
  <2>2. "delAgent" \in quiet /\ "delNode" \in quiet
    BY DEF quiet
  <2> QED BY <1>2, <2>1, <2>2
<1>14. CASE AgentUninstalled(n)
  <2>1. /\ At("delAgent", n) /\ GoesOn("agentFile") /\ vm' = vm /\ state' = state
        /\ unlisted' = unlisted
    BY <1>14 DEF AgentUninstalled, vmVars
  <2>2. "delAgent" \in quiet /\ "agentFile" \in Onward
    BY DEF quiet, Onward
  <2>3. "delAgent" \in Doing(op.type) => "agentFile" \in Doing(op.type)
    BY <1>4, <2>1, OnwardIs DEF At
  <2> QED BY <1>3, <2>1, <2>2, <2>3
<1>15. CASE AgentForgotten(n)
  <2>1. At("agentFile", n) /\ Done /\ vm' = vm /\ state' = state /\ unlisted' = unlisted
    BY <1>15 DEF AgentForgotten, vmVars
  <2>2. "agentFile" \in quiet
    BY DEF quiet
  <2> QED BY <1>2, <2>1, <2>2
<1>16. CASE NodeUninstalled(n)
  <2>1. /\ At("delNode", n) /\ GoesOn("nodeFile") /\ vm' = vm /\ state' = state
        /\ unlisted' = unlisted
    BY <1>16 DEF NodeUninstalled, vmVars
  <2>2. "delNode" \in quiet /\ "nodeFile" \in Onward
    BY DEF quiet, Onward
  <2>3. "delNode" \in Doing(op.type) => "nodeFile" \in Doing(op.type)
    BY <1>4, <2>1, OnwardIs DEF At
  <2> QED BY <1>3, <2>1, <2>2, <2>3
<1>17. CASE NodeForgotten(n)
  <2>1. At("nodeFile", n) /\ Done /\ vm' = vm /\ state' = state /\ unlisted' = unlisted
    BY <1>17 DEF NodeForgotten, vmVars
  <2>2. "nodeFile" \in quiet
    BY DEF quiet
  <2> QED BY <1>2, <2>1, <2>2
<1>18. CASE RowDeleted(n)
  <2>1. At("delRow", n) /\ Done /\ vm' = vm /\ state' = state /\ unlisted' = unlisted
    BY <1>18 DEF RowDeleted, vmVars, DeleteRow
  <2>2. "delRow" \in quiet
    BY DEF quiet
  <2> QED BY <1>2, <2>1, <2>2
<1>19. CASE FilesRemoved(n)
  <2>1. At("files", n) /\ Done /\ vm' = vm /\ state' = state /\ unlisted' = unlisted
    BY <1>19 DEF FilesRemoved, vmVars
  <2>2. "files" \in quiet
    BY DEF quiet
  <2> QED BY <1>2, <2>1, <2>2
<1>20. vm \in [Node -> VM \cup {None}] /\ None \notin VM
  BY ClusterConstants DEF TypeOK, VMTypeOK
<1>21. CASE VMCreated(n)
  <2>1. /\ At("vm", n) /\ GoesOn("start") /\ state' = state
        /\ vm' = [vm EXCEPT ![n] = [size |-> Wanted(n), on |-> FALSE]]
        /\ unlisted' = IF state # None /\ n \in Range(state.children) THEN unlisted ELSE unlisted \cup {n}
    BY <1>21 DEF VMCreated, createVM
  <2>2. /\ op \in Oper /\ op.todo # <<>> /\ "vm" \in Doing(op.type)
        /\ op.todo[1].do = "vm" /\ op.todo[1].node = n
    BY <2>1, AtIs
  <2>3. Advances
    <3>1. "start" \in Onward \cap Doing(op.type)
      BY <2>2, OperIs, OnwardIs DEF Onward
    <3> QED BY <2>1, <2>2, <3>1, GoesOnAdvances
  <2>4. \A k \in Node : k # n => vm'[k] = vm[k]
    BY <1>20, <2>1
  <2>5. op.todo[1].do \notin Closing \cup {"stub", "delVM", "destroy"}
    BY <2>2 DEF Closing
  <2>6. \A k \in Node : vm'[k] # None /\ (k \in unlisted \/ vm[k] = None) => k \in unlisted' \/ k \in Listed
    BY <2>1, <2>4 DEF Listed
  <2> QED BY <2>1, <2>2, <2>3, <2>4, <2>5, <2>6 DEF Works
<1>22. CASE VMResized(n) \/ VMStarted(n)
  <2>1. /\ At("vm", n) \/ At("start", n)
        /\ GoesOn("row") /\ state' = state /\ unlisted' = unlisted /\ vm[n] # None
        /\ \A k \in Node : k # n => vm'[k] = vm[k]
    BY <1>20, <1>22 DEF VMResized, VMStarted, resizeVM, StartVM
  <2>2. PICK w \in {"vm", "start"} : At(w, n)
    BY <2>1
  <2>3. /\ op \in Oper /\ op.todo # <<>> /\ w \in Doing(op.type)
        /\ op.todo[1].do = w /\ op.todo[1].node = n
    BY <2>2, AtIs
  <2>4. Advances
    <3>1. "row" \in Onward \cap Doing(op.type)
      BY <2>3, OperIs, OnwardIs DEF Onward
    <3> QED BY <2>1, <2>3, <3>1, GoesOnAdvances
  <2>5. op.todo[1].do \notin Closing \cup {"stub", "delVM", "destroy"}
    BY <2>3 DEF Closing
  <2> QED BY <2>1, <2>3, <2>4, <2>5 DEF Works
<1>23. CASE VMDeleted(n) \/ VMDestroyed(n)
  <2>1. /\ (At("delVM", n) /\ GoesOn("delRow")) \/ (At("destroy", n) /\ Done)
        /\ state' = state /\ unlisted' = unlisted \ {n} /\ vm' = [vm EXCEPT ![n] = None]
    BY <1>23 DEF VMDeleted, VMDestroyed, DeleteVM, Wiped
  <2>2. PICK w \in {"delVM", "destroy"} : At(w, n)
    BY <2>1
  <2>3. /\ op \in Oper /\ op.todo # <<>> /\ w \in Doing(op.type)
        /\ op.todo[1].do = w /\ op.todo[1].node = n
    BY <2>2, AtIs
  <2>4. Advances
    <3>1. CASE At("delVM", n) /\ GoesOn("delRow")
      <4>1. "delVM" \in Doing(op.type)
        BY <3>1, AtIs
      <4>2. "delRow" \in Onward \cap Doing(op.type)
        BY <2>3, <4>1, OperIs, OnwardIs DEF Onward
      <4> QED BY <2>3, <3>1, <4>2, GoesOnAdvances
    <3>2. CASE Done
      BY <2>3, <3>2, DoneAdvances
    <3> QED BY <2>1, <3>1, <3>2
  <2>5. op.todo[1].do \notin Closing \cup {"stub", "vm"}
    BY <2>3 DEF Closing
  <2>6. vm'[n] = None /\ \A k \in Node : k # n => vm'[k] = vm[k]
    BY <1>20, <2>1
  <2> QED BY <2>1, <2>3, <2>4, <2>5, <2>6 DEF Works
<1>24. CASE VMStopped(n)
  <2>1. /\ op' = op /\ state' = state /\ unlisted' = unlisted /\ vm[n] # None
        /\ \A k \in Node : k # n => vm'[k] = vm[k]
    BY <1>20, <1>24 DEF VMStopped, StopVM, Runs
  <2> QED BY <2>1
<1> QED
  BY <1>5, <1>6, <1>7, <1>8, <1>9, <1>10, <1>11, <1>12, <1>13, <1>14, <1>15, <1>16, <1>17,
     <1>18, <1>19, <1>21, <1>22, <1>23, <1>24 DEF NodeStep

\* The listed nodes are nodes.
LEMMA ListedNodes ==
  ASSUME TypeOK
  PROVE  Listed \subseteq Node
<1>1. CASE state = None
  BY <1>1 DEF Listed
<1>2. CASE state \in State
  <2>1. state.children \in Seq(Node)
    BY <1>2, ChildrenAre DEF State
  <2>2. Range(state.children) \subseteq Node
    BY <2>1, Held
  <2> QED BY <2>2 DEF Listed
<1> QED BY <1>1, <1>2 DEF TypeOK

\* A step that Works keeps what an operation knows of the list.
LEMMA WorksKeeps ==
  ASSUME TypeOK, OpInv, ListInv, DeleteFindsAll, Works
  PROVE  ListInv' /\ DeleteFindsAll'
<1>1. /\ op \in Oper /\ op # None /\ op' # None /\ state' = state
      /\ op'.type = op.type /\ op'.m = op.m /\ op'.listed = op.listed
      /\ op.type \in OpType /\ 1 \in DOMAIN op.todo
      /\ op.todo[1].do \in Doing(op.type)
  BY OperIs DEF Works, Advances, TypeOK, OpInv, PlanOK
<1>2. \A i \in DOMAIN op'.todo :
        (\E j \in DOMAIN op.todo : op'.todo[i] = op.todo[j]) \/ op'.todo[i].do \in Onward
  BY DEF Works, Advances
<1>3. \A j \in DOMAIN op.todo : j = 1 \/ \E i \in DOMAIN op'.todo : op'.todo[i] = op.todo[j]
  BY DEF Works, Advances
<1>4. Listed' = Listed
  BY <1>1 DEF Listed
<1>5. \A w \in Closing \cup {"stub"} : Has(w)' <=> Has(w)
  <2> TAKE w \in Closing \cup {"stub"}
  <2>1. w \notin Onward /\ op.todo[1].do # w
    BY DEF Works, Closing, Onward
  <2>2. ASSUME Has(w)' PROVE Has(w)
    BY <1>2, <2>1, <2>2 DEF Has
  <2>3. ASSUME Has(w) PROVE Has(w)'
    <3>1. PICK j \in DOMAIN op.todo : op.todo[j].do = w
      BY <2>3 DEF Has
    <3>2. j # 1
      BY <2>1, <3>1
    <3>3. PICK i \in DOMAIN op'.todo : op'.todo[i] = op.todo[j]
      BY <1>3, <3>2
    <3> QED BY <3>1, <3>3 DEF Has
  <2> QED BY <2>2, <2>3
<1>6. ASSUME NEW w, NEW k, HasFor(w, k), ~ (op.todo[1].do = w /\ op.todo[1].node = k)
      PROVE  HasFor(w, k)'
  <2>1. PICK j \in DOMAIN op.todo : op.todo[j].do = w /\ op.todo[j].node = k
    BY <1>6 DEF HasFor
  <2>2. PICK i \in DOMAIN op'.todo : op'.todo[i] = op.todo[j]
    BY <1>3, <1>6, <2>1
  <2> QED BY <2>1, <2>2 DEF HasFor
<1>7. ASSUME NEW i \in DOMAIN op'.todo, op'.todo[i].do = "vm"
      PROVE  \E j \in DOMAIN op.todo : op.todo[j].do = "vm" /\ op.todo[j].node = op'.todo[i].node
  <2>1. "vm" \notin Onward
    BY DEF Onward
  <2> QED BY <1>2, <1>7, <2>1
<1>8. "ready" \in Closing /\ "rewrite" \in Closing /\ "gone" \in Closing
  BY DEF Closing
<1>9. ASSUME op.type = "create", Has("stub")' PROVE Range(op'.listed) = Listed'
  BY <1>1, <1>4, <1>5, <1>9 DEF ListInv
<1>10. ASSUME op.type = "create", Has("ready")', ~ Has("stub")'
       PROVE  state' # None /\ Range(state'.children) = Range(NodeNames(op'.m))
  <2>1. Has("ready") /\ ~ Has("stub")
    BY <1>5, <1>8, <1>10
  <2>2. state # None /\ Range(state.children) = Range(NodeNames(op.m))
    BY <1>1, <1>10, <2>1 DEF ListInv
  <2> QED BY <1>1, <2>2
<1>11. ASSUME NEW k \in Listed, k \in Node, NEW w \in {"delVM", "destroy"},
              vm[k] = None \/ HasFor(w, k),
              ~ (op.todo[1].do = "vm" /\ op.todo[1].node = k)
       PROVE  vm'[k] = None \/ HasFor(w, k)'
  <2>1. CASE vm[k] = None
    BY <1>11, <2>1 DEF Works
  <2>2. CASE HasFor(w, k) /\ ~ (op.todo[1].do = w /\ op.todo[1].node = k)
    BY <1>6, <2>2
  <2>3. CASE op.todo[1].do = w /\ op.todo[1].node = k
    BY <1>11, <2>3 DEF Works
  <2> QED BY <1>11, <2>1, <2>2, <2>3
<1>12. Listed \subseteq Node
  BY ListedNodes
<1>13. ASSUME op.type = "converge", Has("rewrite")'
       PROVE  /\ state' # None /\ op'.listed = state'.children
              /\ \A i \in DOMAIN op'.todo :
                   op'.todo[i].do = "vm" => op'.todo[i].node \in Range(NodeNames(op'.m))
              /\ \A k \in Listed' \ Range(NodeNames(op'.m)) : vm'[k] = None \/ HasFor("delVM", k)'
  <2>1. /\ state # None /\ op.listed = state.children
        /\ \A i \in DOMAIN op.todo :
             op.todo[i].do = "vm" => op.todo[i].node \in Range(NodeNames(op.m))
        /\ \A k \in Listed \ Range(NodeNames(op.m)) : vm[k] = None \/ HasFor("delVM", k)
    BY <1>1, <1>5, <1>8, <1>13 DEF ListInv
  <2>2. \A k \in Listed \ Range(NodeNames(op.m)) : vm'[k] = None \/ HasFor("delVM", k)'
    <3> TAKE k \in Listed \ Range(NodeNames(op.m))
    <3>1. ~ (op.todo[1].do = "vm" /\ op.todo[1].node = k)
      BY <1>1, <2>1
    <3> QED BY <1>11, <1>12, <2>1, <3>1
  <2>3. \A i \in DOMAIN op'.todo :
          op'.todo[i].do = "vm" => op'.todo[i].node \in Range(NodeNames(op.m))
    BY <1>7, <2>1
  <2> QED BY <1>1, <1>4, <2>1, <2>2, <2>3
<1>14. ASSUME op.type = "delete", Has("gone")'
       PROVE  \A k \in Listed' : vm'[k] = None \/ HasFor("destroy", k)'
  <2>1. \A k \in Listed : vm[k] = None \/ HasFor("destroy", k)
    BY <1>1, <1>5, <1>8, <1>14 DEF ListInv
  <2>2. op.todo[1].do # "vm"
    BY <1>1, <1>14 DEF Doing
  <2> QED BY <1>4, <1>11, <1>12, <2>1, <2>2
<1>15. ListInv'
  BY <1>1, <1>9, <1>10, <1>13, <1>14 DEF ListInv
<1>16. DeleteFindsAll'
  <2> SUFFICES ASSUME NEW k \in Node, vm'[k] # None
               PROVE  k \in unlisted' \/ k \in Listed'
    BY <1>1 DEF DeleteFindsAll, Listed
  <2>1. vm[k] # None => k \in unlisted \/ k \in Listed
    BY DEF DeleteFindsAll, Listed
  <2> QED BY <1>4, <2>1 DEF Works
<1> QED BY <1>15, <1>16

\* Doing a step drops it.
LEMMA DoneDrops ==
  ASSUME op \in Oper, OpInv, op.todo # <<>>, Done
  PROVE  /\ \A i \in DOMAIN op'.todo : \E j \in DOMAIN op.todo : j # 1 /\ op'.todo[i] = op.todo[j]
         /\ op.todo[1].do \in Closing => DOMAIN op'.todo = {}
<1> DEFINE t == Tail(op.todo)
<1>1. op.type \in OpType /\ op.todo \in Seq(Step) /\ PlanOK(op.todo, op.type)
  BY OperIs DEF OpInv
<1>2. \A i \in DOMAIN t : i + 1 \in DOMAIN op.todo /\ t[i] = op.todo[i + 1]
  BY <1>1, PlanTail
<1>3. /\ t \in Seq(Step) /\ DOMAIN op.todo = 1..Len(op.todo) /\ Len(op.todo) \in Nat
      /\ DOMAIN t = 1..(Len(op.todo) - 1) /\ Len(op.todo) # 0
  BY <1>1
<1>4. op'.todo = t
  <2>1. op' = [op EXCEPT !.todo = t]
    BY DEF Done
  <2> HIDE DEF t
  <2> QED BY <1>3, <2>1, OperIs
<1> HIDE DEF t
<1>5. ASSUME NEW i \in DOMAIN t PROVE \E j \in DOMAIN op.todo : j # 1 /\ t[i] = op.todo[j]
  <2>1. i + 1 # 1
    BY <1>3
  <2> QED BY <1>2, <2>1
<1>6. ASSUME op.todo[1].do \in Closing PROVE DOMAIN t = {}
  <2>1. 1 \in DOMAIN op.todo
    BY <1>3
  <2>2. 1 = Len(op.todo)
    BY <1>1, <1>6, <2>1 DEF PlanOK
  <2>3. Len(op.todo) - 1 = 0
    BY <2>2
  <2>4. DOMAIN t = 1..0
    BY <1>3, <2>3
  <2> QED BY <2>4
<1> QED BY <1>4, <1>5, <1>6

\* What happens beside an operation, or ends it, keeps what it knows.
LEMMA BesideKeeps ==
  ASSUME TypeOK, OpInv, ListInv, DeleteFindsAll, state' = state,
         \/ op' = None
         \/ /\ op # None /\ op' # None
            /\ op'.type = op.type /\ op'.m = op.m /\ op'.listed = op.listed /\ op'.todo = op.todo,
         \A k \in Node : vm'[k] # None => vm[k] # None /\ (k \in unlisted => k \in unlisted')
  PROVE  OpInv' /\ ListInv' /\ DeleteFindsAll'
<1>1. Listed' = Listed
  BY DEF Listed
<1>2. Listed \subseteq Node
  BY ListedNodes
<1>3. DeleteFindsAll'
  BY DEF DeleteFindsAll
<1>4. CASE op' = None
  BY <1>3, <1>4 DEF OpInv, ListInv
<1>5. CASE /\ op # None /\ op' # None
           /\ op'.type = op.type /\ op'.m = op.m /\ op'.listed = op.listed /\ op'.todo = op.todo
  <2>1. OpInv'
    BY <1>5 DEF OpInv
  <2>2. \A w : Has(w)' <=> Has(w)
    BY <1>5 DEF Has
  <2>3. \A w, k : HasFor(w, k)' <=> HasFor(w, k)
    BY <1>5 DEF HasFor
  <2>4. \A k \in Listed : vm[k] = None => vm'[k] = None
    BY <1>2
  <2>5. ListInv'
    BY <1>1, <1>5, <2>2, <2>3, <2>4 DEF ListInv
  <2> QED BY <1>3, <2>1, <2>5
<1> QED BY <1>4, <1>5

\* At the closing step nothing else is left to do.
LEMMA ClosingIsLast ==
  ASSUME TypeOK, OpInv, NEW what \in Closing, NEW n, At(what, n)
  PROVE  \A i \in DOMAIN op.todo : i = 1
<1>1. op \in Oper /\ op # None /\ op.todo[1].do \in Closing /\ 1 \in DOMAIN op.todo
  BY AtIs
<1>2. op.todo \in Seq(Step) /\ 1 = Len(op.todo)
  BY <1>1 DEF OpInv, PlanOK
<1>3. DOMAIN op.todo = 1..1
  BY <1>2
<1> QED BY <1>3

\* The steps that write the state file.
LEMMA StubKeeps ==
  ASSUME TypeOK, OpInv, ListInv, DeleteFindsAll, StubSaved
  PROVE  /\ state' \in State /\ op' \in Oper
         /\ OpInv' /\ ListInv' /\ DeleteFindsAll'
<1>1. At("stub", None) /\ Done /\ vm' = vm
  BY DEF StubSaved, vmVars
<1>2. /\ op \in Oper /\ op.todo # <<>> /\ op # None /\ 1 \in DOMAIN op.todo
      /\ op.todo[1].do = "stub" /\ "stub" \in Doing(op.type) /\ op.type \in OpType
  BY <1>1, AtIs, OperIs
<1>3. op.type = "create" /\ op.m \in Manifest /\ PlanOK(op.todo, op.type)
  BY <1>2 DEF Doing, OpType, OpInv
<1>4. Advances
  BY <1>1, <1>2, DoneAdvances
<1>5. /\ op' \in Oper /\ op' # None /\ OpInv' /\ op'.type = op.type /\ op'.m = op.m
  BY <1>4 DEF Advances
<1>6. ~ Has("stub")'
  <2> SUFFICES ASSUME NEW i \in DOMAIN op'.todo, op'.todo[i].do = "stub" PROVE FALSE
    BY DEF Has
  <2>1. PICK j \in DOMAIN op.todo : j # 1 /\ op'.todo[i] = op.todo[j]
    BY <1>1, <1>2, DoneDrops
  <2> QED BY <1>2, <1>3, <2>1 DEF PlanOK
<1> DEFINE names == NodeNames(op.m)
<1>7. names \in Children
  BY <1>3, NamesOf
<1>8. state' = [phase |-> "Provisioning", children |-> names]
  BY DEF StubSaved, Write
<1>9. unlisted' = (unlisted \cup {n \in Range(op.listed) : vm[n] # None}) \ Range(names)
  BY DEF StubSaved
<1> HIDE DEF names
<1>10. state' \in State /\ state' # None /\ state'.children = names
  BY <1>7, <1>8, ClusterConstants DEF State, Phase
<1>11. ListInv'
  BY <1>3, <1>5, <1>6, <1>10 DEF ListInv, names
<1>12. Range(op.listed) = Listed
  <2>1. Has("stub")
    BY <1>2 DEF Has
  <2> QED BY <1>2, <1>3, <2>1 DEF ListInv
<1>13. DeleteFindsAll'
  <2> SUFFICES ASSUME NEW k \in Node, vm[k] # None
               PROVE  k \in unlisted' \/ k \in Range(names)
    BY <1>1, <1>10 DEF DeleteFindsAll
  <2>1. k \in unlisted \/ k \in Listed
    BY DEF DeleteFindsAll, Listed
  <2> QED BY <1>9, <1>12, <2>1
<1> QED BY <1>5, <1>10, <1>11, <1>13

LEMMA ReadyKeeps ==
  ASSUME TypeOK, OpInv, ListInv, DeleteFindsAll, ReadySaved
  PROVE  /\ state' \in State /\ op' \in Oper
         /\ OpInv' /\ ListInv' /\ DeleteFindsAll'
<1>1. At("ready", None) /\ Done /\ vm' = vm
  BY DEF ReadySaved, vmVars
<1>2. /\ op \in Oper /\ op.todo # <<>> /\ op # None /\ 1 \in DOMAIN op.todo
      /\ op.todo[1].do = "ready" /\ "ready" \in Doing(op.type) /\ op.type \in OpType
  BY <1>1, AtIs, OperIs
<1>3. op.type = "create" /\ op.m \in Manifest /\ PlanOK(op.todo, op.type)
  BY <1>2 DEF Doing, OpType, OpInv
<1>4. Advances
  BY <1>1, <1>2, DoneAdvances
<1>5. /\ op' \in Oper /\ op' # None /\ OpInv' /\ op'.type = op.type /\ op'.m = op.m
  BY <1>4 DEF Advances
<1>6. DOMAIN op'.todo = {}
  <2>1. op.todo[1].do \in Closing
    BY <1>2 DEF Closing
  <2> QED BY <1>1, <1>2, <2>1, DoneDrops
<1> DEFINE names == NodeNames(op.m)
<1>7. names \in Children
  BY <1>3, NamesOf
<1>8. state' = [phase |-> "Ready", children |-> names] /\ unlisted' = unlisted \ Range(names)
  BY DEF ReadySaved, Write
<1> HIDE DEF names
<1>9. state' \in State /\ state' # None /\ state'.children = names
  BY <1>7, <1>8, ClusterConstants DEF State, Phase
<1>10. ListInv'
  BY <1>6 DEF ListInv, Has
<1>11. Listed = Range(names)
  <2>1. Has("ready")
    BY <1>2 DEF Has
  <2>2. ~ Has("stub")
    <3> SUFFICES ASSUME NEW i \in DOMAIN op.todo, op.todo[i].do = "stub" PROVE FALSE
      BY DEF Has
    <3>1. i = 1
      BY <1>1, ClosingIsLast DEF Closing
    <3> QED BY <1>2, <3>1
  <2> QED BY <1>2, <1>3, <2>1, <2>2 DEF ListInv, Listed, names
<1>12. DeleteFindsAll'
  <2> SUFFICES ASSUME NEW k \in Node, vm[k] # None
               PROVE  k \in unlisted' \/ k \in Range(names)
    BY <1>1, <1>9 DEF DeleteFindsAll
  <2>1. k \in unlisted \/ k \in Listed
    BY DEF DeleteFindsAll, Listed
  <2> QED BY <1>8, <1>11, <2>1
<1> QED BY <1>5, <1>9, <1>10, <1>12

LEMMA RewriteKeeps ==
  ASSUME TypeOK, OpInv, ListInv, DeleteFindsAll, StateRewritten
  PROVE  /\ state' \in State /\ op' \in Oper
         /\ OpInv' /\ ListInv' /\ DeleteFindsAll'
<1>1. At("rewrite", None) /\ Done /\ vm' = vm
  BY DEF StateRewritten, vmVars
<1>2. /\ op \in Oper /\ op.todo # <<>> /\ op # None /\ 1 \in DOMAIN op.todo
      /\ op.todo[1].do = "rewrite" /\ "rewrite" \in Doing(op.type) /\ op.type \in OpType
  BY <1>1, AtIs, OperIs
<1>3. op.type = "converge" /\ op.m \in Manifest /\ PlanOK(op.todo, op.type)
  BY <1>2 DEF Doing, OpType, OpInv
<1>4. Advances
  BY <1>1, <1>2, DoneAdvances
<1>5. /\ op' \in Oper /\ op' # None /\ OpInv' /\ op'.type = op.type /\ op'.m = op.m
  BY <1>4 DEF Advances
<1>6. DOMAIN op'.todo = {}
  <2>1. op.todo[1].do \in Closing
    BY <1>2 DEF Closing
  <2> QED BY <1>1, <1>2, <2>1, DoneDrops
<1>7. /\ state # None /\ op.listed = state.children
      /\ \A n \in Listed \ Range(NodeNames(op.m)) : vm[n] = None \/ HasFor("delVM", n)
  <2>1. Has("rewrite")
    BY <1>2 DEF Has
  <2> QED BY <1>2, <1>3, <2>1 DEF ListInv
<1>8. state \in State /\ Listed = Range(state.children)
  BY <1>7 DEF TypeOK, Listed
<1>9. \A n : ~ HasFor("delVM", n)
  <2>1. \A i \in DOMAIN op.todo : i = 1
    BY <1>1, ClosingIsLast DEF Closing
  <2> QED BY <1>2, <2>1 DEF HasFor
<1> DEFINE stay == Those(op.listed, Range(NodeNames(op.m)))
           new == adds(op.m)
<1>10. /\ stay \in Seq(Node) /\ IsInjective(stay)
       /\ Range(stay) = Listed \cap Range(NodeNames(op.m))
  <2>1. op.listed \in Seq(Node) /\ IsInjective(op.listed)
    BY <1>2, OperIs, ChildrenAre
  <2> QED BY <1>7, <1>8, <2>1, ThoseHolds
<1>11. new \in Seq(Node) /\ IsInjective(new) /\ Range(new) = Range(NodeNames(op.m)) \ Listed
  BY <1>3, <1>8, ChangePlan
<1>12. Kept = stay \o new
  BY DEF Kept
<1> HIDE DEF stay, new
<1>13. Kept \in Children /\ Range(Kept) = Range(NodeNames(op.m))
  <2>1. Range(stay) \cap Range(new) = {}
    BY <1>10, <1>11
  <2>2. stay \o new \in Seq(Node) /\ IsInjective(stay \o new)
    BY <1>10, <1>11, <2>1, JoinedInjective
  <2>3. Range(stay \o new) = Range(stay) \cup Range(new)
    BY <1>10, <1>11, Joined
  <2> QED BY <1>10, <1>11, <1>12, <2>2, <2>3, ChildrenAre
<1>14. state' = [phase |-> "Ready", children |-> Kept]
  BY DEF StateRewritten, Write
<1>15. unlisted' = unlisted \ Range(NodeNames(op.m))
  BY DEF StateRewritten
<1>16. state' \in State /\ state' # None /\ state'.children = Kept
  <2> DEFINE kept == Kept
  <2> HIDE DEF kept
  <2>1. kept \in Children /\ state' = [phase |-> "Ready", children |-> kept]
    BY <1>13, <1>14 DEF kept
  <2>2. state' \in State /\ state' # None /\ state'.children = kept
    BY <2>1, ClusterConstants DEF State, Phase
  <2> QED BY <2>2 DEF kept
<1>17. ListInv'
  BY <1>6 DEF ListInv, Has
<1>18. DeleteFindsAll'
  <2> SUFFICES ASSUME NEW k \in Node, vm[k] # None
               PROVE  k \in unlisted' \/ k \in Range(NodeNames(op.m))
    BY <1>1, <1>13, <1>16 DEF DeleteFindsAll
  <2>1. k \in unlisted \/ k \in Listed
    BY DEF DeleteFindsAll, Listed
  <2>2. k \in Listed => k \in Range(NodeNames(op.m))
    BY <1>7, <1>9
  <2> QED BY <1>15, <2>1, <2>2
<1> QED BY <1>5, <1>16, <1>17, <1>18

LEMMA GoneKeeps ==
  ASSUME TypeOK, OpInv, ListInv, DeleteFindsAll, StateRemoved
  PROVE  OpInv' /\ ListInv' /\ DeleteFindsAll'
<1>1. At("gone", None) /\ op' = None /\ state' = None /\ vm' = vm /\ unlisted' = unlisted
  BY DEF StateRemoved, vmVars
<1>2. /\ op \in Oper /\ op.todo # <<>> /\ op # None /\ 1 \in DOMAIN op.todo
      /\ op.todo[1].do = "gone" /\ "gone" \in Doing(op.type) /\ op.type \in OpType
  BY <1>1, AtIs, OperIs
<1>3. op.type = "delete" /\ PlanOK(op.todo, op.type)
  BY <1>2 DEF Doing, OpType, OpInv
<1>4. \A n : ~ HasFor("destroy", n)
  <2>1. \A i \in DOMAIN op.todo : i = 1
    BY <1>1, ClosingIsLast DEF Closing
  <2> QED BY <1>2, <2>1 DEF HasFor
<1>5. \A n \in Listed : vm[n] = None
  <2>1. Has("gone")
    BY <1>2 DEF Has
  <2> QED BY <1>2, <1>3, <1>4, <2>1 DEF ListInv
<1>6. DeleteFindsAll'
  <2> SUFFICES ASSUME NEW k \in Node, vm[k] # None PROVE k \in unlisted
    BY <1>1 DEF DeleteFindsAll
  <2>1. k \in unlisted \/ k \in Listed
    BY DEF DeleteFindsAll, Listed
  <2> QED BY <1>5, <2>1
<1> QED BY <1>1, <1>6 DEF OpInv, ListInv

------------------------------------------------------------------------------
(* Operations begin *)

\* A list is a sequence, an operation with the fields of its type is one.
LEMMA BeginsOper ==
  ASSUME TypeOK, NEW type \in OpType, NEW m \in Manifest \cup {None}, NEW todo, NEW sound \in BOOLEAN,
         NEW gap \in BOOLEAN, PlanOK(todo, type), type # "delete" => m \in Manifest,
         Begins(type, m, todo, sound, gap)
  PROVE  /\ op' \in Oper /\ op' # None /\ OpInv'
         /\ op'.type = type /\ op'.m = m /\ op'.todo = todo /\ op'.sound = sound
         /\ (state # None => op'.listed = state.children) /\ Range(op'.listed) = Listed
<1> DEFINE list == IF state = None THEN <<>> ELSE state.children
<1>1. list \in Children /\ Range(list) = Listed
  <2>1. CASE state = None
    <3>1. <<>> \in Seq(Node) /\ DOMAIN <<>> = {}
      OBVIOUS
    <3>2. IsInjective(<<>>) /\ Range(<<>>) = {}
      BY <3>1 DEF IsInjective, Range
    <3>3. <<>> \in Children
      BY <3>1, <3>2, ChildrenAre
    <3> QED BY <2>1, <3>2, <3>3 DEF Listed
  <2>2. CASE state # None
    BY <2>2 DEF TypeOK, State, Listed
  <2> QED BY <2>1, <2>2
<1>2. op' = [type |-> type, m |-> m, todo |-> todo, gap |-> gap, listed |-> list, sound |-> sound]
  BY DEF Begins
<1>3. state # None => list = state.children
  OBVIOUS
<1> HIDE DEF list
<1>4. todo \in Seq(Step)
  BY DEF PlanOK
<1>5. op' \in Oper
  BY <1>1, <1>2, <1>4 DEF Oper, OpType
<1>6. /\ op'.type = type /\ op'.m = m /\ op'.todo = todo /\ op'.listed = list
      /\ op'.sound = sound
  BY <1>2
<1>7. op' # None
  BY <1>5, ClusterConstants
<1>8. OpInv'
  BY <1>6 DEF OpInv
<1> QED BY <1>1, <1>3, <1>5, <1>6, <1>7, <1>8

\* What Has finds is in the list.
LEMMA HasRange ==
  ASSUME NEW s
  PROVE  /\ \A w : (\E i \in DOMAIN s : s[i].do = w) <=> \E x \in Range(s) : x.do = w
         /\ \A w, n : (\E i \in DOMAIN s : s[i].do = w /\ s[i].node = n)
                        <=> \E x \in Range(s) : x.do = w /\ x.node = n
BY DEF Range

LEMMA CreateKeeps ==
  ASSUME TypeOK, DeleteFindsAll, NEW m \in Manifest, Create(m)
  PROVE  op' \in Oper /\ OpInv' /\ ListInv' /\ DeleteFindsAll'
<1> DEFINE todo == applyClusterViaPlan(m)
<1>1. PlanOK(todo, "create") /\ \E x \in Range(todo) : x.do = "stub"
  BY CreatePlan
<1>2. /\ Begins("create", m, todo, Sound, FALSE)
  BY DEF Create
<1>3. Sound \in BOOLEAN /\ "create" \in OpType
  BY DEF Sound, OpType
<1> HIDE DEF todo
<1>4. /\ op' \in Oper /\ op' # None /\ OpInv' /\ op'.type = "create" /\ op'.todo = todo
      /\ Range(op'.listed) = Listed
  <2> DEFINE sound == Sound
  <2> HIDE DEF sound
  <2>1. sound \in BOOLEAN /\ Begins("create", m, todo, sound, FALSE)
    BY <1>2, <1>3 DEF sound
  <2> QED BY <1>1, <1>3, <2>1, BeginsOper
<1>5. Has("stub")'
  BY <1>1, <1>4, HasRange DEF Has
<1>6. state' = state /\ vm' = vm /\ unlisted' = unlisted
  BY <1>2 DEF Begins, vmVars
<1>7. Listed' = Listed
  BY <1>6 DEF Listed
<1>8. ListInv'
  BY <1>4, <1>5, <1>7 DEF ListInv
<1>9. DeleteFindsAll'
  BY <1>6 DEF DeleteFindsAll
<1> QED BY <1>4, <1>8, <1>9

LEMMA DeleteKeeps ==
  ASSUME TypeOK, DeleteFindsAll, Delete
  PROVE  op' \in Oper /\ OpInv' /\ ListInv' /\ DeleteFindsAll'
<1> DEFINE todo == deleteListed(state.children)
<1>1. state # None /\ state \in State /\ Begins("delete", None, todo, FALSE, FALSE)
  BY DEF Delete, TypeOK
<1>2. state.children \in Seq(Node) /\ Listed = Range(state.children)
  BY <1>1, ChildrenAre DEF State, Listed
<1>3. /\ PlanOK(todo, "delete")
      /\ \A n \in Listed : \E x \in Range(todo) : x.do = "destroy" /\ x.node = n
  BY <1>2, DeletePlan
<1> HIDE DEF todo
<1>4. op' \in Oper /\ op' # None /\ OpInv' /\ op'.type = "delete" /\ op'.todo = todo
  <2>1. "delete" \in OpType
    BY DEF OpType
  <2> QED BY <1>1, <1>3, <2>1, BeginsOper
<1>5. state' = state /\ vm' = vm /\ unlisted' = unlisted
  BY <1>1 DEF Begins, vmVars
<1>6. Listed' = Listed
  BY <1>5 DEF Listed
<1>7. \A n \in Listed : HasFor("destroy", n)'
  BY <1>3, <1>4, HasRange DEF HasFor
<1>8. ListInv'
  BY <1>4, <1>6, <1>7 DEF ListInv
<1>9. DeleteFindsAll'
  BY <1>5 DEF DeleteFindsAll
<1> QED BY <1>4, <1>8, <1>9

LEMMA ConvergeKeeps ==
  ASSUME TypeOK, DeleteFindsAll, NEW m \in Manifest, Converge(m)
  PROVE  op' \in Oper /\ OpInv' /\ ListInv' /\ DeleteFindsAll'
<1>1. state # None /\ state \in State
  BY DEF Converge, Ready, TypeOK
<1>2. PICK unseen \in {{}} \cup {{n} : n \in Range(state.children)} :
        LET respecs == computeSpecRespecs(m, unseen)
            changes == removed(m) # {} \/ adds(m) # <<>> \/ respecs # <<>>
        IN  Begins("converge", m, IF changes THEN applyExisting(m, respecs) ELSE <<>>,
                   Sound /\ unseen = {}, Gap(m, respecs))
  BY DEF Converge
<1> DEFINE respecs == computeSpecRespecs(m, unseen)
           changes == removed(m) # {} \/ adds(m) # <<>> \/ respecs # <<>>
           todo == IF changes THEN applyExisting(m, respecs) ELSE <<>>
           sound == Sound /\ unseen = {}
           gap == Gap(m, respecs)
<1>3. Begins("converge", m, todo, sound, gap)
  BY <1>2
<1>4. sound \in BOOLEAN /\ gap \in BOOLEAN /\ "converge" \in OpType
  BY DEF Gap, OpType
<1>5. respecs \in Seq(Node) /\ Range(respecs) \subseteq Range(NodeNames(m))
  <2> DEFINE S == {n \in Node : /\ n \notin removed(m) \cup unseen
                                /\ vm[n] # None /\ vm[n].size # desiredSizeFor(m, n)}
  <2>1. respecs = Those(state.children, S)
    BY DEF computeSpecRespecs
  <2>2. S \cap removed(m) = {}
    OBVIOUS
  <2> HIDE DEF S
  <2>3. state.children \in Seq(Node)
    BY <1>1, ChildrenAre DEF State
  <2>4. respecs \in Seq(Node) /\ Range(respecs) = Range(state.children) \cap S
    BY <2>1, <2>3, ThoseHolds
  <2>5. removed(m) = Range(state.children) \ Range(NodeNames(m))
    BY <1>1, ChangePlan
  <2> QED BY <2>2, <2>4, <2>5
<1> HIDE DEF respecs
<1>6. /\ PlanOK(applyExisting(m, respecs), "converge")
      /\ \A x \in Range(applyExisting(m, respecs)) : x.do = "vm" => x.node \in Range(NodeNames(m))
      /\ \A n \in Range(state.children) \ Range(NodeNames(m)) :
           \E x \in Range(applyExisting(m, respecs)) : x.do = "delVM" /\ x.node = n
  BY <1>1, <1>5, ConvergePlan
<1>7. PlanOK(<<>>, "converge") /\ Range(<<>>) = {}
  <2>1. <<>> \in Seq(Step) /\ DOMAIN <<>> = {}
    OBVIOUS
  <2> QED BY <2>1 DEF PlanOK, Range
<1>8. /\ PlanOK(todo, "converge")
      /\ \A x \in Range(todo) : x.do = "vm" => x.node \in Range(NodeNames(m))
      /\ todo = <<>> \/ \A n \in Range(state.children) \ Range(NodeNames(m)) :
                          \E x \in Range(todo) : x.do = "delVM" /\ x.node = n
  <2>1. todo = applyExisting(m, respecs) \/ todo = <<>>
    OBVIOUS
  <2> HIDE DEF todo
  <2> QED BY <1>6, <1>7, <2>1
<1> HIDE DEF todo, sound, gap, changes
<1>9. /\ op' \in Oper /\ op' # None /\ OpInv' /\ op'.type = "converge" /\ op'.todo = todo
      /\ op'.m = m /\ op'.listed = state.children
  BY <1>1, <1>3, <1>4, <1>8, BeginsOper
<1>10. state' = state /\ vm' = vm /\ unlisted' = unlisted
  BY <1>3 DEF Begins, vmVars
<1>11. Listed' = Listed /\ Listed = Range(state.children)
  BY <1>1, <1>10 DEF Listed
<1>12. ASSUME Has("rewrite")'
       PROVE  /\ \A i \in DOMAIN op'.todo :
                   op'.todo[i].do = "vm" => op'.todo[i].node \in Range(NodeNames(m))
              /\ \A n \in Listed \ Range(NodeNames(m)) : HasFor("delVM", n)'
  <2>1. todo # <<>>
    <3>1. DOMAIN <<>> = {}
      OBVIOUS
    <3> QED BY <1>9, <1>12, <3>1 DEF Has
  <2>2. \A i \in DOMAIN todo : todo[i] \in Range(todo)
    BY DEF Range
  <2>3. \A n \in Listed \ Range(NodeNames(m)) : HasFor("delVM", n)'
    BY <1>8, <1>9, <1>11, <2>1, HasRange DEF HasFor
  <2> QED BY <1>8, <1>9, <2>2, <2>3
<1>13. ListInv'
  BY <1>1, <1>9, <1>10, <1>11, <1>12 DEF ListInv
<1>14. DeleteFindsAll'
  BY <1>10 DEF DeleteFindsAll
<1> QED BY <1>9, <1>13, <1>14

------------------------------------------------------------------------------
(* Types *)

\* The part of TypeOK about machines and their files.
Machines ==
  /\ VMTypeOK
  /\ k3s \in [Node -> K3s \cup {None}] /\ nodeState \in [Node -> Nat]
  /\ agent \in [Node -> BOOLEAN] /\ agentState \in [Node -> BOOLEAN]
  /\ \A n \in Node : /\ k3s[n] # None => vm[n] # None /\ k3s[n].gen \in 1..gen
                     /\ agent[n] => vm[n] # None
                     /\ nodeState[n] <= gen
  /\ gen \in Nat

\* The size that an apply gives a node.
LEMMA WantedSize ==
  ASSUME TypeOK, OpInv, NEW n \in Node, At("vm", n) \/ At("row", n)
  PROVE  Wanted(n) \in Size
<1>1. op \in Oper /\ op # None /\ op.type # "delete"
  <2>1. PICK w \in {"vm", "row"} : At(w, n)
    OBVIOUS
  <2>2. op \in Oper /\ op # None /\ w \in Doing(op.type)
    BY <2>1, AtIs
  <2> QED BY <2>2 DEF Doing
<1>2. op.m \in Manifest
  BY <1>1 DEF OpInv
<1> QED BY <1>2 DEF Wanted, desiredSizeFor, Manifest

LEMMA NodeMachines ==
  ASSUME TypeOK, OpInv, NEW n \in Node, NodeStep(n)
  PROVE  Machines'
<1>0. /\ Machines /\ None \notin VM /\ None \notin K3s /\ None \notin Node
  BY ClusterConstants DEF TypeOK, Machines
<1>1. CASE UNCHANGED <<vm, row, k3s, nodeState, agent, agentState, gen>>
  BY <1>0, <1>1 DEF Machines, VMTypeOK
<1>2. CASE VMCreated(n)
  <2>1. Wanted(n) \in Size
    BY <1>2, WantedSize DEF VMCreated
  <2>2. /\ vm' = [vm EXCEPT ![n] = [size |-> Wanted(n), on |-> FALSE]] /\ vm[n] = None
        /\ UNCHANGED <<row, k3s, nodeState, agent, agentState, gen>>
    BY <1>2 DEF VMCreated, createVM, nodeVars
  <2>3. vm' \in [Node -> VM \cup {None}] /\ \A k \in Node : vm[k] # None => vm'[k] # None
    BY <1>0, <2>1, <2>2 DEF Machines, VMTypeOK, VM
  <2> QED BY <1>0, <2>2, <2>3 DEF Machines, VMTypeOK
<1>3. CASE VMResized(n)
  <2>1. Wanted(n) \in Size
    BY <1>3, WantedSize DEF VMResized
  <2>2. /\ vm' = [vm EXCEPT ![n].size = Wanted(n)] /\ vm[n] # None
        /\ UNCHANGED <<row, k3s, nodeState, agent, agentState, gen>>
    BY <1>3 DEF VMResized, resizeVM, nodeVars
  <2>3. [vm[n] EXCEPT !.size = Wanted(n)] \in VM
    BY <1>0, <2>1, <2>2 DEF Machines, VMTypeOK, VM
  <2>4. vm' \in [Node -> VM \cup {None}] /\ \A k \in Node : vm[k] # None => vm'[k] # None
    BY <1>0, <2>2, <2>3 DEF Machines, VMTypeOK
  <2> QED BY <1>0, <2>2, <2>4 DEF Machines, VMTypeOK
<1>4. CASE VMStarted(n) \/ VMStopped(n)
  <2>1. PICK b \in BOOLEAN : vm' = [vm EXCEPT ![n].on = b]
    BY <1>4 DEF VMStarted, VMStopped, StartVM, StopVM
  <2>2. /\ vm[n] # None /\ UNCHANGED <<row, k3s, nodeState, agent, agentState, gen>>
    BY <1>4 DEF VMStarted, VMStopped, StartVM, StopVM, nodeVars, Runs
  <2>3. [vm[n] EXCEPT !.on = b] \in VM
    BY <1>0, <2>2 DEF Machines, VMTypeOK, VM
  <2>4. vm' \in [Node -> VM \cup {None}] /\ \A k \in Node : vm[k] # None => vm'[k] # None
    BY <1>0, <2>1, <2>2, <2>3 DEF Machines, VMTypeOK
  <2> QED BY <1>0, <2>2, <2>4 DEF Machines, VMTypeOK
<1>5. CASE VMSaved(n) \/ RowDeleted(n)
  <2>1. /\ UNCHANGED <<vm, k3s, nodeState, agent, agentState, gen>>
        /\ row' \in [Node -> Size \cup {None}]
    <3>1. CASE VMSaved(n)
      <4>1. Wanted(n) \in Size
        BY <3>1, WantedSize DEF VMSaved
      <4> QED BY <1>0, <3>1, <4>1 DEF VMSaved, SaveRow, Machines, VMTypeOK, vmVars, nodeVars
    <3>2. CASE RowDeleted(n)
      BY <1>0, <3>2 DEF RowDeleted, DeleteRow, Machines, VMTypeOK, vmVars, nodeVars
    <3> QED BY <1>5, <3>1, <3>2
  <2> QED BY <1>0, <2>1 DEF Machines, VMTypeOK
<1>6. CASE InstallFirst(n) \/ InstallJoining(n)
  <2>1. /\ UNCHANGED <<vm, row, nodeState, agent, agentState>>
        /\ vm[n] # None
    BY <1>6 DEF InstallFirst, InstallJoining, Installs, vmVars, Runs
  <2>2. PICK g \in 1..gen' :
          /\ gen' \in Nat /\ gen <= gen'
          /\ k3s' = [k3s EXCEPT ![n] = [gen |-> IF k3s[n] = None THEN g ELSE k3s[n].gen,
                                        ver |-> 1, up |-> TRUE]]
    <3>1. CASE InstallFirst(n)
      <4>1. /\ gen' = (IF k3s[n] = None THEN gen + 1 ELSE gen) /\ gen \in Nat
            /\ k3s' = [k3s EXCEPT ![n] = [gen |-> IF k3s[n] = None THEN gen + 1 ELSE k3s[n].gen,
                                          ver |-> 1, up |-> TRUE]]
        BY <1>0, <3>1 DEF InstallFirst, Installs, Machines
      <4>2. CASE k3s[n] = None
        <5>1. gen + 1 \in 1..gen' /\ gen' \in Nat /\ gen <= gen'
          BY <4>1, <4>2
        <5> QED BY <4>1, <5>1
      <4>3. CASE k3s[n] # None
        <5>1. k3s[n].gen \in 1..gen /\ gen' = gen
          BY <1>0, <4>1, <4>3 DEF Machines
        <5> QED BY <4>1, <4>3, <5>1
      <4> QED BY <4>2, <4>3
    <3>2. CASE InstallJoining(n)
      <4>1. /\ gen' = gen /\ gen \in Nat /\ Joinable(Join) /\ At("install", n) /\ Join # None
            /\ k3s' = [k3s EXCEPT ![n] = [gen |-> IF k3s[n] = None THEN k3s[Join].gen ELSE k3s[n].gen,
                                          ver |-> 1, up |-> TRUE]]
        BY <1>0, <3>2 DEF InstallJoining, Installs, Machines
      <4>2. Join \in Node
        <5>1. op \in Oper /\ op.todo # <<>>
          BY <4>1, AtIs
        <5>2. op.todo \in Seq(Step)
          BY <5>1, OperIs
        <5>3. Head(op.todo) \in Step
          BY <5>1, <5>2
        <5> QED BY <4>1, <5>3 DEF Join, Step
      <4>3. k3s[Join] # None
        BY <4>1 DEF Joinable, Up
      <4>4. k3s[Join].gen \in 1..gen
        BY <1>0, <4>2, <4>3 DEF Machines
      <4>5. gen' \in Nat /\ gen <= gen' /\ k3s[Join].gen \in 1..gen'
        BY <4>1, <4>4
      <4> QED BY <4>1, <4>5
    <3> QED BY <1>6, <3>1, <3>2
  <2>3. gen \in Nat
    BY <1>0 DEF Machines
  <2> DEFINE h == IF k3s[n] = None THEN g ELSE k3s[n].gen
  <2>4. h \in 1..gen' /\ h \in Nat
    <3>1. CASE k3s[n] = None
      BY <2>2, <3>1
    <3>2. CASE k3s[n] # None
      <4>1. k3s[n].gen \in 1..gen
        BY <1>0, <3>2 DEF Machines
      <4> QED BY <2>2, <2>3, <3>2, <4>1
    <3> QED BY <3>1, <3>2
  <2>5. k3s' = [k3s EXCEPT ![n] = [gen |-> h, ver |-> 1, up |-> TRUE]]
    BY <2>2
  <2> HIDE DEF h
  <2>6. [gen |-> h, ver |-> 1, up |-> TRUE] \in K3s
    BY <2>4 DEF K3s, Version
  <2>7. k3s' \in [Node -> K3s \cup {None}] /\ k3s'[n].gen = h
        /\ \A k \in Node : k # n => k3s'[k] = k3s[k]
    BY <1>0, <2>5, <2>6 DEF Machines
  <2>8. \A k \in Node : k3s'[k] # None => vm[k] # None /\ k3s'[k].gen \in 1..gen'
    <3> SUFFICES ASSUME NEW k \in Node, k3s'[k] # None
                 PROVE  vm[k] # None /\ k3s'[k].gen \in 1..gen'
      OBVIOUS
    <3>1. CASE k = n
      BY <2>1, <2>4, <2>7, <3>1
    <3>2. CASE k # n
      <4>1. vm[k] # None /\ k3s'[k].gen \in 1..gen
        BY <1>0, <2>7, <3>2 DEF Machines
      <4> QED BY <2>2, <2>3, <4>1
    <3> QED BY <3>1, <3>2
  <2>9. \A k \in Node : nodeState[k] <= gen'
    <3> TAKE k \in Node
    <3>1. nodeState[k] \in Nat /\ nodeState[k] <= gen
      BY <1>0 DEF Machines
    <3> QED BY <2>2, <2>3, <3>1
  <2> QED BY <1>0, <2>1, <2>2, <2>7, <2>8, <2>9 DEF Machines, VMTypeOK
<1>7. CASE NodeSaved(n)
  <2>1. /\ UNCHANGED <<vm, row, k3s, agent, agentState, gen>> /\ k3s[n] # None
        /\ nodeState' = [nodeState EXCEPT ![n] = k3s[n].gen]
    BY <1>7 DEF NodeSaved, vmVars
  <2>2. k3s[n].gen \in 1..gen /\ gen \in Nat
    BY <1>0, <2>1 DEF Machines
  <2>3. k3s[n].gen \in Nat /\ k3s[n].gen <= gen
    BY <2>2
  <2> QED BY <1>0, <2>1, <2>3 DEF Machines, VMTypeOK
<1>8. CASE AgentInstalled(n) \/ AgentUninstalled(n)
  <2>1. /\ UNCHANGED <<vm, row, k3s, nodeState, agentState, gen>>
        /\ \E b \in BOOLEAN : agent' = [agent EXCEPT ![n] = b] /\ (b => vm[n] # None)
    <3>1. CASE AgentInstalled(n)
      BY <3>1 DEF AgentInstalled, vmVars, Runs
    <3>2. CASE AgentUninstalled(n)
      <4>1. PICK done \in BOOLEAN : agent' = [agent EXCEPT ![n] = agent[n] /\ ~done]
        BY <3>2 DEF AgentUninstalled
      <4>2. (agent[n] /\ ~done) \in BOOLEAN /\ ((agent[n] /\ ~done) => vm[n] # None)
        BY <1>0 DEF Machines
      <4>3. UNCHANGED <<vm, row, k3s, nodeState, agentState, gen>>
        BY <3>2 DEF AgentUninstalled, vmVars
      <4> QED BY <4>1, <4>2, <4>3
    <3> QED BY <1>8, <3>1, <3>2
  <2>2. PICK b \in BOOLEAN : agent' = [agent EXCEPT ![n] = b] /\ (b => vm[n] # None)
    BY <2>1
  <2>3. agent' \in [Node -> BOOLEAN] /\ \A k \in Node : agent'[k] => vm[k] # None
    BY <1>0, <2>2 DEF Machines
  <2> QED BY <1>0, <2>1, <2>3 DEF Machines, VMTypeOK
<1>9. CASE AgentSaved(n) \/ AgentForgotten(n) \/ NodeForgotten(n) \/ FilesRemoved(n)
  <2>1. /\ UNCHANGED <<vm, row, k3s, agent, gen>>
        /\ agentState' \in [Node -> BOOLEAN] /\ nodeState' \in [Node -> Nat]
        /\ \A k \in Node : nodeState'[k] <= gen
    <3>1. UNCHANGED <<vm, row, k3s, agent, gen>>
      BY <1>9 DEF AgentSaved, AgentForgotten, NodeForgotten, FilesRemoved, vmVars
    <3>2. agentState' \in [Node -> BOOLEAN]
      BY <1>0, <1>9 DEF AgentSaved, AgentForgotten, NodeForgotten, FilesRemoved, Machines
    <3>3. nodeState' = nodeState \/ nodeState' = [nodeState EXCEPT ![n] = 0]
      BY <1>9 DEF AgentSaved, AgentForgotten, NodeForgotten, FilesRemoved
    <3>4. gen \in Nat /\ nodeState \in [Node -> Nat] /\ \A k \in Node : nodeState[k] <= gen
      BY <1>0 DEF Machines
    <3>5. nodeState' \in [Node -> Nat] /\ \A k \in Node : nodeState'[k] <= gen
      BY <3>3, <3>4
    <3> QED BY <3>1, <3>2, <3>5
  <2> QED BY <1>0, <2>1 DEF Machines, VMTypeOK
<1>10. CASE NodeUninstalled(n)
  <2>1. /\ UNCHANGED <<vm, row, nodeState, agent, agentState, gen>>
        /\ k3s' = k3s \/ k3s' = [k3s EXCEPT ![n] = None]
    BY <1>10 DEF NodeUninstalled, vmVars
  <2>2. k3s' \in [Node -> K3s \cup {None}] /\ \A k \in Node : k3s'[k] # None => k3s'[k] = k3s[k]
    BY <1>0, <2>1 DEF Machines
  <2> QED BY <1>0, <2>1, <2>2 DEF Machines, VMTypeOK
<1>11. CASE VMDeleted(n) \/ VMDestroyed(n) \/ VMLost(n)
  <2>1. /\ UNCHANGED <<row, nodeState, agentState, gen>> /\ vm' = [vm EXCEPT ![n] = None]
        /\ k3s' = [k3s EXCEPT ![n] = None] /\ agent' = [agent EXCEPT ![n] = FALSE]
    BY <1>11 DEF VMDeleted, VMDestroyed, VMLost, DeleteVM, Wiped
  <2>2. /\ vm' \in [Node -> VM \cup {None}] /\ k3s' \in [Node -> K3s \cup {None}]
        /\ agent' \in [Node -> BOOLEAN] /\ k3s'[n] = None /\ ~ agent'[n]
        /\ \A k \in Node : k # n => vm'[k] = vm[k] /\ k3s'[k] = k3s[k] /\ agent'[k] = agent[k]
    BY <1>0, <2>1 DEF Machines, VMTypeOK
  <2> QED BY <1>0, <2>1, <2>2 DEF Machines, VMTypeOK
<1> QED
  BY <1>1, <1>2, <1>3, <1>4, <1>5, <1>6, <1>7, <1>8, <1>9, <1>10, <1>11
  DEF NodeStep, VMCached, AlreadyInstalled, AgentAlready, NothingToRemove, vmVars, nodeVars

\* Spending one of the bounds.
LEMMA SpendKeeps ==
  ASSUME left \in Bounds
  PROVE  /\ Spend("ops") => left' \in Bounds
         /\ Spend("faults") => left' \in Bounds
         /\ Spend("lost") => left' \in Bounds
         /\ Spend("upgrades") => left' \in Bounds
<1>1. /\ left.ops \in Nat /\ left.faults \in Nat /\ left.lost \in Nat /\ left.upgrades \in Nat
      /\ \A k \in Nat : /\ [left EXCEPT !.ops = k] \in Bounds
                        /\ [left EXCEPT !.faults = k] \in Bounds
                        /\ [left EXCEPT !.lost = k] \in Bounds
                        /\ [left EXCEPT !.upgrades = k] \in Bounds
  BY DEF Bounds
<1>2. \A k \in Nat : k > 0 => k - 1 \in Nat
  OBVIOUS
<1>3. ASSUME Spend("ops") PROVE left' \in Bounds
  <2>1. left.ops > 0 /\ left' = [left EXCEPT !.ops = left.ops - 1]
    BY <1>3 DEF Spend
  <2> QED BY <1>1, <1>2, <2>1
<1>4. ASSUME Spend("faults") PROVE left' \in Bounds
  <2>1. left.faults > 0 /\ left' = [left EXCEPT !.faults = left.faults - 1]
    BY <1>4 DEF Spend
  <2> QED BY <1>1, <1>2, <2>1
<1>5. ASSUME Spend("lost") PROVE left' \in Bounds
  <2>1. left.lost > 0 /\ left' = [left EXCEPT !.lost = left.lost - 1]
    BY <1>5 DEF Spend
  <2> QED BY <1>1, <1>2, <2>1
<1>6. ASSUME Spend("upgrades") PROVE left' \in Bounds
  <2>1. left.upgrades > 0 /\ left' = [left EXCEPT !.upgrades = left.upgrades - 1]
    BY <1>6 DEF Spend
  <2> QED BY <1>1, <1>2, <2>1
<1> QED BY <1>3, <1>4, <1>5, <1>6

\* An upgrade that another actor disturbs is one still.
LEMMA Disturbed ==
  ASSUME upgrade \in Rolling \cup {None},
         upgrade' = IF upgrade = None THEN None ELSE [upgrade EXCEPT !.calm = FALSE]
  PROVE  /\ upgrade' \in Rolling \cup {None}
         /\ upgrade' # None => ~ upgrade'.calm
<1>1. CASE upgrade = None
  BY <1>1
<1>2. CASE upgrade # None
  BY <1>2 DEF Rolling
<1> QED BY <1>1, <1>2

\* An operation that an upgrade or a lost VM disturbs is one still.
LEMMA Unsound ==
  ASSUME op \in Oper \cup {None}, op' = IF op = None THEN None ELSE [op EXCEPT !.sound = FALSE]
  PROVE  /\ op' \in Oper \cup {None}
         /\ \/ op' = None
            \/ /\ op # None /\ op' # None /\ op' \in Oper
               /\ op'.type = op.type /\ op'.m = op.m /\ op'.listed = op.listed /\ op'.todo = op.todo
<1>1. CASE op = None
  BY <1>1
<1>2. CASE op # None
  <2>1. /\ op' \in Oper /\ op'.type = op.type /\ op'.m = op.m /\ op'.listed = op.listed
        /\ op'.todo = op.todo
    BY <1>2 DEF Oper
  <2> QED BY <1>2, <2>1, ClusterConstants
<1> QED BY <1>1, <1>2

\* The nodes that an upgrade visits.
LEMMA OrderIs ==
  ASSUME TypeOK, state # None
  PROVE  /\ upgradeOrder \in Seq(Node)
         /\ IsInjective(upgradeOrder)
         /\ Range(upgradeOrder) = {n \in Range(state.children) : nodeState[n] # 0}
<1> DEFINE S == {n \in Range(state.children) : nodeState[n] # 0}
           all == CPs \o Workers
<1>1. all \in Seq(Node) /\ IsInjective(all)
  BY Names
<1>2. Range(all) = Node
  BY Joined, ClusterConstants
<1>3. S \subseteq Node
  BY ListedNodes DEF Listed
<1>4. upgradeOrder = Those(all, S)
  BY DEF upgradeOrder
<1> HIDE DEF S, all
<1>5. /\ Those(all, S) \in Seq(Node) /\ IsInjective(Those(all, S))
      /\ Range(Those(all, S)) = Range(all) \cap S
  BY <1>1, ThoseHolds
<1> QED BY <1>2, <1>3, <1>4, <1>5 DEF S

\* An upgrade that starts.
LEMMA StartsRolling ==
  ASSUME TypeOK, UpgradeStarts
  PROVE  /\ upgrade' \in Rolling /\ upgrade' # None /\ upgrade'.at = "next" /\ upgrade'.died = {}
         /\ Len(upgrade'.todo) = Len(upgradeOrder)
         /\ \A i \in 1..Len(upgradeOrder) :
              upgrade'.todo[i] = [node |-> upgradeOrder[i], ver |-> Health(upgradeOrder[i])]
         /\ upgrade'.calm = (/\ Idle
                             /\ \A n \in Range(state.children) : Healthy(n) /\ nodeState[n] # 0
                             /\ ServersLead)
<1> DEFINE order == upgradeOrder
           todo == [i \in DOMAIN order |-> [node |-> order[i], ver |-> Health(order[i])]]
           calm == (/\ Idle
                    /\ \A n \in Range(state.children) : Healthy(n) /\ nodeState[n] # 0
                    /\ ServersLead)
<1>1. /\ state # None /\ upgrade' = [todo |-> todo, at |-> "next", died |-> {}, calm |-> calm]
  BY DEF UpgradeStarts
<1>2. order \in Seq(Node)
  BY <1>1, OrderIs
<1>3. calm \in BOOLEAN
  OBVIOUS
<1> HIDE DEF order, calm
<1>4. \A n \in Node : Health(n) \in 0..2
  <2> TAKE n \in Node
  <2>1. k3s[n] # None => k3s[n] \in K3s
    BY DEF TypeOK
  <2>2. k3s[n] # None => k3s[n].ver \in 0..2
    BY <2>1 DEF K3s, Version
  <2> QED BY <2>2 DEF Health
<1>5. /\ Len(order) \in Nat /\ DOMAIN order = 1..Len(order)
      /\ \A i \in 1..Len(order) : order[i] \in Node
  BY <1>2
<1>6. /\ todo \in Seq([node : Node, ver : 0..2]) /\ Len(todo) = Len(order)
      /\ \A i \in 1..Len(order) : todo[i] = [node |-> order[i], ver |-> Health(order[i])]
  <2>1. \A i \in 1..Len(order) : [node |-> order[i], ver |-> Health(order[i])] \in [node : Node, ver : 0..2]
    BY <1>4, <1>5
  <2> QED BY <1>5, <2>1
<1> HIDE DEF todo
<1>7. upgrade' \in Rolling
  BY <1>1, <1>3, <1>6 DEF Rolling
<1>8. upgrade' # None
  BY <1>7, ClusterConstants
<1>9. upgrade'.todo = todo /\ upgrade'.at = "next" /\ upgrade'.died = {} /\ upgrade'.calm = calm
  BY <1>1
<1> QED BY <1>6, <1>7, <1>8, <1>9 DEF order, calm

\* The node at hand.
LEMMA ThisIs ==
  ASSUME TypeOK, NEW at, Upgrading(at)
  PROVE  /\ upgrade \in Rolling /\ upgrade # None /\ upgrade.at = at
         /\ upgrade.todo \in Seq([node : Node, ver : 0..2]) /\ upgrade.todo # <<>>
         /\ 1 \in DOMAIN upgrade.todo /\ Head(upgrade.todo) = upgrade.todo[1]
         /\ This = upgrade.todo[1].node /\ This \in Node
<1>1. upgrade \in Rolling /\ upgrade # None /\ upgrade.todo # <<>> /\ upgrade.at = at
  BY DEF Upgrading, TypeOK
<1>2. upgrade.todo \in Seq([node : Node, ver : 0..2])
  BY <1>1 DEF Rolling
<1>3. 1 \in DOMAIN upgrade.todo /\ Head(upgrade.todo) = upgrade.todo[1]
  BY <1>1, <1>2
<1>4. ASSUME NEW R, NEW q \in Seq(R), 1 \in DOMAIN q
      PROVE  q[1] \in R
  BY <1>4
<1>5. upgrade.todo[1] \in [node : Node, ver : 0..2]
  BY <1>2, <1>3, <1>4, Zenon
<1>6. upgrade.todo[1].node \in Node
  BY <1>5
<1> QED BY <1>1, <1>2, <1>3, <1>6 DEF This

\* A restart leaves the rest of the upgrade alone, and records the node whose
\* service did not stay up.
LEMMA RestartRolls ==
  ASSUME TypeOK, UpgradeRestarts
  PROVE  /\ upgrade' \in Rolling /\ upgrade'.todo = upgrade.todo /\ upgrade'.at = "check"
         /\ upgrade'.calm = upgrade.calm /\ upgrade.died \subseteq upgrade'.died
         /\ upgrade'.died \subseteq upgrade.died \cup {This}
         /\ k3s' = [k3s EXCEPT ![This].up = TRUE]
              \/ (k3s' = [k3s EXCEPT ![This].up = FALSE] /\ This \in upgrade'.died)
<1>1. upgrade \in Rolling /\ This \in Node
  BY ThisIs DEF UpgradeRestarts
<1>2. PICK stays \in BOOLEAN :
        /\ k3s' = [k3s EXCEPT ![This].up = stays]
        /\ upgrade' = [upgrade EXCEPT !.at = "check", !.died = IF stays THEN @ ELSE @ \cup {This}]
  BY DEF UpgradeRestarts
<1> DEFINE t == This
<1> HIDE DEF t
<1>3. CASE stays
  <2>1. upgrade' = [upgrade EXCEPT !.at = "check", !.died = upgrade.died]
    BY <1>2, <1>3
  <2>2. /\ upgrade' \in Rolling /\ upgrade'.todo = upgrade.todo /\ upgrade'.at = "check"
        /\ upgrade'.calm = upgrade.calm /\ upgrade'.died = upgrade.died
    BY <1>1, <2>1 DEF Rolling
  <2>3. k3s' = [k3s EXCEPT ![This].up = TRUE]
    BY <1>2, <1>3
  <2> QED BY <2>2, <2>3
<1>4. CASE ~ stays
  <2>0. t \in Node
    BY <1>1 DEF t
  <2>1. upgrade' = [upgrade EXCEPT !.at = "check", !.died = upgrade.died \cup {t}]
    BY <1>2, <1>4 DEF t
  <2>2. /\ upgrade' \in Rolling /\ upgrade'.todo = upgrade.todo /\ upgrade'.at = "check"
        /\ upgrade'.calm = upgrade.calm /\ upgrade'.died = upgrade.died \cup {t}
    BY <1>1, <2>0, <2>1 DEF Rolling
  <2>3. k3s' = [k3s EXCEPT ![This].up = FALSE]
    BY <1>2, <1>4
  <2> QED BY <2>2, <2>3 DEF t
<1> QED BY <1>3, <1>4

\* The steps of an upgrade.
LEMMA UpgradeRolls ==
  ASSUME TypeOK,
         \/ UpgradeSkips \/ UpgradeSwaps \/ UpgradeStops \/ UpgradeRestarts \/ UpgradeChecks \/ UpgradeEnds
  PROVE  upgrade' \in Rolling \cup {None}
<1>1. CASE UpgradeEnds
  BY <1>1 DEF UpgradeEnds
<1>2. CASE ~ UpgradeEnds
  <2>1. upgrade \in Rolling /\ upgrade.todo # <<>>
    BY <1>2 DEF UpgradeSkips, UpgradeSwaps, UpgradeStops, UpgradeRestarts, UpgradeChecks, Upgrading, TypeOK
  <2>2. upgrade.todo \in Seq([node : Node, ver : 0..2])
    BY <2>1 DEF Rolling
  <2>3. Tail(upgrade.todo) \in Seq([node : Node, ver : 0..2])
    BY <2>1, <2>2
  <2>4. CASE NextNode
    BY <2>1, <2>3, <2>4 DEF NextNode, Rolling
  <2>5. CASE UpgradeSwaps \/ UpgradeStops
    <3>1. upgrade' = [upgrade EXCEPT !.at = "swapped"] \/ upgrade' = [upgrade EXCEPT !.at = "restarting"]
      BY <2>5 DEF UpgradeSwaps, UpgradeStops
    <3> QED BY <2>1, <3>1 DEF Rolling
  <2>6. CASE UpgradeRestarts
    <3>1. /\ upgrade'.todo = upgrade.todo /\ upgrade'.at = "check" /\ upgrade'.calm = upgrade.calm
          /\ upgrade'.died \subseteq upgrade.died \cup {This}
          /\ upgrade' \in Rolling
      BY <2>6, RestartRolls
    <3> QED BY <3>1
  <2> QED BY <1>2, <2>4, <2>5, <2>6 DEF UpgradeSkips, UpgradeSwaps, UpgradeStops, UpgradeRestarts, UpgradeChecks
<1> QED BY <1>1, <1>2

\* What the upgrade does to the k3s of the node at hand.
LEMMA Swapped ==
  ASSUME TypeOK, UpgradeSwaps \/ UpgradeStops \/ UpgradeRestarts
  PROVE  /\ This \in Node /\ k3s[This] # None
         /\ k3s' \in [Node -> K3s \cup {None}]
         /\ k3s'[This] # None /\ k3s'[This].gen = k3s[This].gen
         /\ UpgradeSwaps => (k3s'[This].ver = 2 /\ k3s'[This].up = k3s[This].up)
         /\ ~ UpgradeSwaps => k3s'[This].ver = k3s[This].ver
         /\ UpgradeRestarts => (k3s'[This].up \/ This \in upgrade'.died)
         /\ \A k \in Node : k # This => k3s'[k] = k3s[k]
<1>1. This \in Node /\ k3s[This] # None
  BY ThisIs DEF UpgradeSwaps, UpgradeStops, UpgradeRestarts
<1>2. k3s \in [Node -> K3s \cup {None}] /\ k3s[This] \in K3s /\ None \notin K3s
  BY <1>1, ClusterConstants DEF TypeOK
<1> DEFINE t == This
<1> HIDE DEF t
<1>3. t \in Node /\ k3s[t] \in K3s
  BY <1>1, <1>2 DEF t
<1>4. CASE UpgradeSwaps
  <2> DEFINE one == [k3s[t] EXCEPT !.ver = 2]
  <2>1. one \in K3s /\ one.ver = 2 /\ one.gen = k3s[t].gen /\ one.up = k3s[t].up
    BY <1>3 DEF K3s, Version
  <2>2. k3s' = [k3s EXCEPT ![t] = one]
    BY <1>4 DEF UpgradeSwaps, t
  <2> HIDE DEF one
  <2>3. k3s' \in [Node -> K3s \cup {None}] /\ k3s'[t] = one /\ \A k \in Node : k # t => k3s'[k] = k3s[k]
    BY <1>2, <1>3, <2>1, <2>2
  <2>4. ~ UpgradeRestarts
    BY <1>4 DEF UpgradeSwaps, UpgradeRestarts, Upgrading
  <2> QED BY <1>1, <1>2, <1>4, <2>1, <2>3, <2>4 DEF t
<1>5. ASSUME NEW up \in BOOLEAN, k3s' = [k3s EXCEPT ![This].up = up]
      PROVE  /\ k3s' \in [Node -> K3s \cup {None}] /\ k3s'[t] \in K3s
             /\ k3s'[t].gen = k3s[t].gen /\ k3s'[t].ver = k3s[t].ver /\ k3s'[t].up = up
             /\ \A k \in Node : k # t => k3s'[k] = k3s[k]
  <2> DEFINE one == [k3s[t] EXCEPT !.up = up]
  <2>1. one \in K3s /\ one.ver = k3s[t].ver /\ one.gen = k3s[t].gen /\ one.up = up
    BY <1>3 DEF K3s, Version
  <2>2. k3s' = [k3s EXCEPT ![t] = one]
    BY <1>5 DEF t
  <2> HIDE DEF one
  <2> QED BY <1>2, <1>3, <2>1, <2>2
<1>6. CASE UpgradeStops
  <2>1. k3s' = [k3s EXCEPT ![This].up = FALSE]
    BY <1>6 DEF UpgradeStops
  <2>2. ~ UpgradeSwaps /\ ~ UpgradeRestarts
    BY <1>6 DEF UpgradeSwaps, UpgradeStops, UpgradeRestarts, Upgrading
  <2> QED BY <1>1, <1>2, <1>5, <2>1, <2>2 DEF t
<1>7. CASE UpgradeRestarts
  <2>1. k3s' = [k3s EXCEPT ![This].up = TRUE]
          \/ (k3s' = [k3s EXCEPT ![This].up = FALSE] /\ This \in upgrade'.died)
    BY <1>7, RestartRolls
  <2>2. ~ UpgradeSwaps
    BY <1>7 DEF UpgradeSwaps, UpgradeRestarts, Upgrading
  <2> QED BY <1>1, <1>2, <1>5, <2>1, <2>2 DEF t
<1> QED BY <1>4, <1>6, <1>7

LEMMA UpgradeMachines ==
  ASSUME TypeOK, UpgradeSwaps \/ UpgradeStops \/ UpgradeRestarts
  PROVE  Machines'
<1>1. UNCHANGED <<vm, row, nodeState, agent, agentState, gen>>
  BY DEF UpgradeSwaps, UpgradeStops, UpgradeRestarts, vmVars
<1>2. /\ k3s' \in [Node -> K3s \cup {None}] /\ k3s[This] # None /\ This \in Node
      /\ k3s'[This].gen = k3s[This].gen
      /\ \A k \in Node : k # This => k3s'[k] = k3s[k]
  BY Swapped
<1>3. \A k \in Node : k3s'[k] # None => k3s[k] # None /\ k3s'[k].gen = k3s[k].gen
  BY <1>2
<1> QED BY <1>1, <1>2, <1>3 DEF TypeOK, Machines, VMTypeOK

\* The invariant: types, plans, lists, and the property itself.
ClusterInv == TypeOK /\ OpInv /\ ListInv /\ DeleteFindsAll

LEMMA ClusterInit ==
  Init => ClusterInv
<1> SUFFICES ASSUME Init PROVE ClusterInv
  OBVIOUS
<1>1. left \in Bounds
  BY ClusterConstants DEF Init
<1>2. TypeOK
  <2>1. VMTypeOK
    BY DEF Init, VMInit, VMTypeOK
  <2>2. gen = 0 /\ nodeState = [n \in Node |-> 0] /\ k3s = [n \in Node |-> None]
        /\ agent = [n \in Node |-> FALSE]
    BY DEF Init
  <2>3. k3s \in [Node -> K3s \cup {None}] /\ nodeState \in [Node -> Nat]
    BY <2>2
  <2>4. agent \in [Node -> BOOLEAN] /\ agentState \in [Node -> BOOLEAN]
    BY DEF Init
  <2>5. \A n \in Node : k3s[n] = None /\ ~ agent[n] /\ nodeState[n] = 0
    BY <2>2
  <2>6. \A n \in Node : nodeState[n] <= gen
    BY <2>2, <2>5
  <2>7. /\ ca \in BOOLEAN /\ gen \in Nat /\ state \in State \cup {None}
        /\ op \in Oper \cup {None} /\ upgrade \in Rolling \cup {None}
        /\ unlisted \subseteq Node
    BY DEF Init
  <2> QED BY <1>1, <2>1, <2>3, <2>4, <2>5, <2>6, <2>7, Zenon DEF TypeOK
<1>3. OpInv /\ ListInv
  BY DEF Init, OpInv, ListInv
<1>4. DeleteFindsAll
  BY DEF Init, DeleteFindsAll, VMInit
<1> QED BY <1>2, <1>3, <1>4 DEF ClusterInv

\* The rest of the types.
LEMMA TypeRest ==
  ASSUME Machines', ca' \in BOOLEAN, state' \in State \cup {None}, op' \in Oper \cup {None},
         upgrade' \in Rolling \cup {None}, left' \in Bounds, unlisted' \subseteq Node
  PROVE  TypeOK'
BY DEF TypeOK, Machines

LEMMA ClusterStep ==
  ClusterInv /\ [Next]_vars => ClusterInv'
<1> SUFFICES ASSUME ClusterInv, [Next]_vars PROVE ClusterInv'
  OBVIOUS
<1>0. TypeOK /\ OpInv /\ ListInv /\ DeleteFindsAll
  BY DEF ClusterInv
<1>1. /\ ca \in BOOLEAN /\ state \in State \cup {None} /\ op \in Oper \cup {None}
      /\ upgrade \in Rolling \cup {None} /\ left \in Bounds /\ unlisted \subseteq Node /\ Machines
  BY <1>0 DEF TypeOK, Machines
<1>2. ASSUME UNCHANGED <<vmVars, nodeVars, gen>> PROVE Machines'
  BY <1>1, <1>2 DEF Machines, VMTypeOK, vmVars, nodeVars
<1>3. CASE UNCHANGED vars
  <2>1. UNCHANGED <<vmVars, nodeVars, gen>> /\ UNCHANGED <<vm, ca, state, op, upgrade, left, unlisted>>
    BY <1>3 DEF vars, vmVars, nodeVars
  <2>2. TypeOK'
    BY <1>1, <1>2, <2>1, TypeRest
  <2>3. OpInv' /\ ListInv' /\ DeleteFindsAll'
    BY <1>0, <2>1, BesideKeeps
  <2> QED BY <2>2, <2>3 DEF ClusterInv
<1>4. ASSUME NEW m \in left.manifests, Create(m) \/ Converge(m) PROVE ClusterInv'
  <2>1. m \in Manifest
    BY <1>1 DEF Bounds
  <2>2. op' \in Oper /\ OpInv' /\ ListInv' /\ DeleteFindsAll'
    BY <1>0, <1>4, <2>1, CreateKeeps, ConvergeKeeps
  <2>3. /\ UNCHANGED <<vmVars, nodeVars, ca, state, gen, unlisted>>
        /\ upgrade' = IF upgrade = None THEN None ELSE [upgrade EXCEPT !.calm = FALSE]
    BY <1>4 DEF Create, Converge, Begins
  <2>4. upgrade' \in Rolling \cup {None}
    BY <1>1, <2>3, Disturbed
  <2>5. left' \in Bounds
    <3>1. CASE Create(m)
      BY <1>1, <3>1, SpendKeeps DEF Create
    <3>2. CASE Converge(m)
      <4>1. PICK u \in BOOLEAN :
              /\ left.ops > 0 /\ (u => left.faults > 0)
              /\ left' = [left EXCEPT !.ops = @ - 1, !.faults = IF ~u THEN @ ELSE @ - 1]
        BY <3>2 DEF Converge
      <4>2. left.ops - 1 \in Nat /\ (IF ~u THEN left.faults ELSE left.faults - 1) \in Nat
        BY <1>1, <4>1 DEF Bounds
      <4> QED BY <1>1, <4>1, <4>2 DEF Bounds
    <3> QED BY <1>4, <3>1, <3>2
  <2>6. TypeOK'
    BY <1>1, <1>2, <2>2, <2>3, <2>4, <2>5, TypeRest
  <2> QED BY <2>2, <2>6 DEF ClusterInv
<1>5. CASE Delete
  <2>1. op' \in Oper /\ OpInv' /\ ListInv' /\ DeleteFindsAll'
    BY <1>0, <1>5, DeleteKeeps
  <2>2. /\ UNCHANGED <<vmVars, nodeVars, ca, state, gen, unlisted>>
        /\ upgrade' = IF upgrade = None THEN None ELSE [upgrade EXCEPT !.calm = FALSE]
    BY <1>5 DEF Delete, Begins
  <2>3. upgrade' \in Rolling \cup {None}
    BY <1>1, <2>2, Disturbed
  <2>4. left' \in Bounds
    BY <1>1, <1>5, SpendKeeps DEF Delete
  <2>5. TypeOK'
    BY <1>1, <1>2, <2>1, <2>2, <2>3, <2>4, TypeRest
  <2> QED BY <2>1, <2>5 DEF ClusterInv
<1>6. CASE Fails
  <2>1. op' = None /\ UNCHANGED <<vmVars, nodeVars, ca, state, gen, upgrade, left, unlisted>> /\ vm' = vm
    BY <1>6 DEF Fails, vmVars
  <2>2. OpInv' /\ ListInv' /\ DeleteFindsAll'
    BY <1>0, <2>1, BesideKeeps
  <2>3. TypeOK'
    BY <1>1, <1>2, <2>1, TypeRest
  <2> QED BY <2>2, <2>3 DEF ClusterInv
<1>7. CASE StubSaved \/ ReadySaved \/ StateRewritten
  <2>1. /\ state' \in State /\ op' \in Oper
        /\ OpInv' /\ ListInv' /\ DeleteFindsAll'
    BY <1>0, <1>7, StubKeeps, ReadyKeeps, RewriteKeeps
  <2>2. UNCHANGED <<vmVars, nodeVars, ca, gen, upgrade, left>>
    BY <1>7 DEF StubSaved, ReadySaved, StateRewritten
  <2>3. unlisted' \subseteq Node
    <3>1. CASE StubSaved
      <4>1. op \in Oper
        BY <1>1, <3>1 DEF StubSaved, At
      <4>2. op.listed \in Seq(Node)
        BY <4>1, OperIs, ChildrenAre
      <4>3. Range(op.listed) \subseteq Node
        BY <4>2, Held
      <4> QED BY <1>1, <3>1, <4>3 DEF StubSaved
    <3>2. CASE ReadySaved \/ StateRewritten
      BY <1>1, <3>2 DEF ReadySaved, StateRewritten
    <3> QED BY <1>7, <3>1, <3>2
  <2>4. TypeOK'
    BY <1>1, <1>2, <2>1, <2>2, <2>3, TypeRest
  <2> QED BY <2>1, <2>4 DEF ClusterInv
<1>8. CASE StateRemoved
  <2>1. OpInv' /\ ListInv' /\ DeleteFindsAll'
    BY <1>0, <1>8, GoneKeeps
  <2>2. /\ UNCHANGED <<vmVars, nodeVars, gen, upgrade, left, unlisted>>
        /\ op' = None /\ state' = None /\ ca' = FALSE
    BY <1>8 DEF StateRemoved
  <2>3. TypeOK'
    BY <1>1, <1>2, <2>2, TypeRest
  <2> QED BY <2>1, <2>3 DEF ClusterInv
<1>9. CASE CASaved
  <2>1. /\ At("ca", None) /\ Done /\ ca' = TRUE /\ vm' = vm
        /\ UNCHANGED <<vmVars, nodeVars, state, gen, upgrade, left, unlisted>>
    BY <1>9 DEF CASaved, vmVars
  <2>2. Works
    <3>1. "ca" \notin Closing \cup {"stub", "delVM", "destroy"}
      BY DEF Closing
    <3> QED BY <1>0, <2>1, <3>1, QuietDone
  <2>3. op' \in Oper /\ OpInv'
    BY <2>2 DEF Works, Advances
  <2>4. ListInv' /\ DeleteFindsAll'
    BY <1>0, <2>2, WorksKeeps
  <2>5. TypeOK'
    BY <1>1, <1>2, <2>1, <2>3, TypeRest
  <2> QED BY <2>3, <2>4, <2>5 DEF ClusterInv
<1>10. ASSUME NEW n \in Node, NodeStep(n) PROVE ClusterInv'
  <2>1. Machines'
    BY <1>0, <1>10, NodeMachines
  <2>2. CASE VMLost(n)
    <3>1. /\ UNCHANGED <<ca, state>> /\ unlisted' = unlisted \ {n} /\ vm' = [vm EXCEPT ![n] = None]
          /\ op' = IF op = None THEN None ELSE [op EXCEPT !.sound = FALSE]
          /\ upgrade' = IF upgrade = None THEN None ELSE [upgrade EXCEPT !.calm = FALSE]
      BY <2>2 DEF VMLost, Wiped
    <3>2. left' \in Bounds
      BY <1>1, <2>2, SpendKeeps DEF VMLost
    <3>3. upgrade' \in Rolling \cup {None}
      BY <1>1, <3>1, Disturbed
    <3>4. /\ op' \in Oper \cup {None}
          /\ \/ op' = None
             \/ /\ op # None /\ op' # None /\ op' \in Oper
                /\ op'.type = op.type /\ op'.m = op.m /\ op'.listed = op.listed /\ op'.todo = op.todo
      BY <1>1, <3>1, Unsound
    <3>5. \A k \in Node : vm'[k] # None => vm[k] # None /\ (k \in unlisted => k \in unlisted')
      BY <1>1, <3>1 DEF Machines, VMTypeOK
    <3>6. OpInv' /\ ListInv' /\ DeleteFindsAll'
      BY <1>0, <3>1, <3>4, <3>5, BesideKeeps
    <3>7. TypeOK'
      BY <1>1, <2>1, <3>1, <3>2, <3>3, <3>4, TypeRest
    <3> QED BY <3>6, <3>7 DEF ClusterInv
  <2>3. ASSUME ~ VMLost(n)
        PROVE  /\ ca' = ca /\ state' = state /\ upgrade' = upgrade /\ left' \in Bounds
               /\ unlisted' \subseteq Node
    <3>1. ca' = ca /\ state' = state /\ upgrade' = upgrade
      BY <1>10, <2>3 DEF NodeStep, VMCached, VMCreated, VMResized, VMStarted, VMSaved, AlreadyInstalled,
         InstallFirst, InstallJoining, Installs, NodeSaved, AgentAlready, AgentInstalled, AgentSaved,
         NothingToRemove, AgentUninstalled, AgentForgotten, NodeUninstalled, NodeForgotten,
         VMStopped, VMDeleted, RowDeleted, VMDestroyed, FilesRemoved
    <3>2. left' = left \/ Spend("faults")
      BY <1>10, <2>3 DEF NodeStep, VMCached, VMCreated, VMResized, VMStarted, VMSaved, AlreadyInstalled,
         InstallFirst, InstallJoining, Installs, NodeSaved, AgentAlready, AgentInstalled, AgentSaved,
         NothingToRemove, AgentUninstalled, AgentForgotten, NodeUninstalled, NodeForgotten,
         VMStopped, VMDeleted, RowDeleted, VMDestroyed, FilesRemoved
    <3>3. unlisted' \subseteq unlisted \cup {n}
      BY <1>10, <2>3 DEF NodeStep, VMCached, VMCreated, VMResized, VMStarted, VMSaved, AlreadyInstalled,
         InstallFirst, InstallJoining, Installs, NodeSaved, AgentAlready, AgentInstalled, AgentSaved,
         NothingToRemove, AgentUninstalled, AgentForgotten, NodeUninstalled, NodeForgotten,
         VMStopped, VMDeleted, RowDeleted, VMDestroyed, FilesRemoved, Wiped
    <3> QED BY <1>1, <3>1, <3>2, <3>3, SpendKeeps
  <2>4. CASE ~ VMLost(n) /\ Works
    <3>1. op' \in Oper /\ OpInv'
      BY <2>4 DEF Works, Advances
    <3>2. ListInv' /\ DeleteFindsAll'
      BY <1>0, <2>4, WorksKeeps
    <3>3. TypeOK'
      BY <1>1, <2>1, <2>3, <2>4, <3>1, TypeRest
    <3> QED BY <3>1, <3>2, <3>3 DEF ClusterInv
  <2>5. CASE /\ ~ VMLost(n) /\ op' = op /\ unlisted' = unlisted
             /\ \A k \in Node : vm'[k] # None => vm[k] # None
    <3>1. state' = state
      BY <2>3, <2>5
    <3>2. OpInv' /\ ListInv' /\ DeleteFindsAll'
      BY <1>0, <2>5, <3>1, BesideKeeps
    <3>3. TypeOK'
      BY <1>1, <2>1, <2>3, <2>5, TypeRest
    <3> QED BY <3>2, <3>3 DEF ClusterInv
  <2> QED BY <1>0, <1>10, <2>2, <2>4, <2>5, NodeWorks
<1>11. CASE UpgradeStarts
  <2>1. /\ UNCHANGED <<vmVars, nodeVars, ca, state, gen, unlisted>> /\ vm' = vm
        /\ op' = IF op = None THEN None ELSE [op EXCEPT !.sound = FALSE]
    BY <1>11 DEF UpgradeStarts, vmVars
  <2>2. upgrade' \in Rolling
    BY <1>0, <1>11, StartsRolling
  <2>3. left' \in Bounds
    BY <1>1, <1>11, SpendKeeps DEF UpgradeStarts
  <2>4. /\ op' \in Oper \cup {None}
        /\ \/ op' = None
           \/ /\ op # None /\ op' # None /\ op' \in Oper
              /\ op'.type = op.type /\ op'.m = op.m /\ op'.listed = op.listed /\ op'.todo = op.todo
    BY <1>1, <2>1, Unsound
  <2>5. OpInv' /\ ListInv' /\ DeleteFindsAll'
    BY <1>0, <2>1, <2>4, BesideKeeps
  <2>6. TypeOK'
    BY <1>1, <1>2, <2>1, <2>2, <2>3, <2>4, TypeRest
  <2> QED BY <2>5, <2>6 DEF ClusterInv
<1>12. CASE UpgradeSkips \/ UpgradeSwaps \/ UpgradeStops \/ UpgradeRestarts \/ UpgradeChecks \/ UpgradeEnds
  <2>1. UNCHANGED <<ca, state, op, left, unlisted, vm>>
    BY <1>12 DEF UpgradeSkips, UpgradeSwaps, UpgradeStops, UpgradeRestarts, UpgradeChecks, UpgradeEnds, vmVars
  <2>2. Machines'
    <3>1. CASE UpgradeSwaps \/ UpgradeStops \/ UpgradeRestarts
      BY <1>0, <3>1, UpgradeMachines
    <3>2. CASE UpgradeSkips \/ UpgradeChecks \/ UpgradeEnds
      BY <1>2, <3>2 DEF UpgradeSkips, UpgradeChecks, UpgradeEnds
    <3> QED BY <1>12, <3>1, <3>2
  <2>3. upgrade' \in Rolling \cup {None}
    BY <1>0, <1>12, UpgradeRolls
  <2>4. OpInv' /\ ListInv' /\ DeleteFindsAll'
    BY <1>0, <2>1, BesideKeeps
  <2>5. TypeOK'
    BY <1>1, <2>1, <2>2, <2>3, TypeRest
  <2> QED BY <2>4, <2>5 DEF ClusterInv
<1> QED
  BY <1>3, <1>4, <1>5, <1>6, <1>7, <1>8, <1>9, <1>10, <1>11, <1>12 DEF Next

\* The types of the cluster's state, which no failure, crash, lost VM or
\* concurrent upgrade breaks: what k3s and agent have on a disk goes with the VM,
\* and a node's file names a cluster that was initialised.
THEOREM ClusterTypes == ClusterSpec => []TypeOK
<1>1. Init => ClusterInv
  BY ClusterInit
<1>2. ClusterInv /\ [Next]_vars => ClusterInv'
  BY ClusterStep
<1>3. ClusterInv => TypeOK
  BY DEF ClusterInv
<1> QED BY <1>1, <1>2, <1>3, PTL DEF ClusterSpec

\* Whatever fails in between, no write of the state file drops a VM that
\* exists from the list that Cluster.Delete walks (saveClusterStateStub,
\* saveClusterStateFromChildren, rewriteState and Delete).
THEOREM VMsAreFound == ClusterSpec => []DeleteFindsAll
<1>1. Init => ClusterInv
  BY ClusterInit
<1>2. ClusterInv /\ [Next]_vars => ClusterInv'
  BY ClusterStep
<1>3. ClusterInv => DeleteFindsAll
  BY DEF ClusterInv
<1> QED BY <1>1, <1>2, <1>3, PTL DEF ClusterSpec

------------------------------------------------------------------------------
(* The rolling upgrade *)

\* An upgrade that nothing has disturbed: every listed node answers and is up but
\* for the one that restarts and those whose service did not stay up, the versions recorded for the nodes to come are
\* those of their binaries, each comes once and the control planes come first,
\* and a control plane that is not among them has the new version.
Calm == upgrade # None /\ upgrade.calm

AllAnswer ==
  \A n \in Range(state.children) :
    /\ Answers(n) /\ k3s[n] # None
    /\ k3s[n].up \/ n \in upgrade.died \/ (Upgrading("restarting") /\ n = This)

VersionsTrue ==
  \A i \in DOMAIN upgrade.todo :
    /\ upgrade.todo[i].node \in Range(state.children)
    /\ i > 1 \/ upgrade.at = "next" => upgrade.todo[i].ver = k3s[upgrade.todo[i].node].ver
    /\ i = 1 /\ upgrade.at # "next" => k3s[upgrade.todo[i].node].ver = 2

CPsFirst ==
  \A i, j \in DOMAIN upgrade.todo : i < j =>
    /\ upgrade.todo[i].node # upgrade.todo[j].node
    /\ IsCP(upgrade.todo[j].node) => IsCP(upgrade.todo[i].node)

CPsToCome ==
  \A c \in Range(CPs) \cap Range(state.children) :
    k3s[c].ver = 2 \/ \E i \in DOMAIN upgrade.todo : upgrade.todo[i].node = c

RollInv ==
  Calm => Idle /\ state # None /\ AllAnswer /\ ServersLead /\ VersionsTrue /\ CPsFirst /\ CPsToCome

\* The order puts control planes first.
LEMMA OrderCPsFirst ==
  ASSUME NEW S, NEW i \in DOMAIN Those(CPs \o Workers, S), NEW j \in DOMAIN Those(CPs \o Workers, S),
         i < j, IsCP(Those(CPs \o Workers, S)[j])
  PROVE  IsCP(Those(CPs \o Workers, S)[i])
<1> DEFINE all == CPs \o Workers
           at == Spots(all, S)
           N == Cardinality(at)
           T == Those(all, S)
<1>1. /\ all \in Seq(Node) /\ Range(CPs) \cap Range(Workers) = {}
  BY Names
<1>2. /\ Len(CPs) \in Nat /\ DOMAIN CPs = 1..Len(CPs)
      /\ \A k \in 1..Len(CPs) : all[k] = CPs[k]
      /\ \A k \in DOMAIN all : k \in Nat /\ (k <= Len(CPs) => k \in 1..Len(CPs))
      /\ \A k \in DOMAIN all : k > Len(CPs) => all[k] \in Range(Workers)
  <2>1. CPs \in Seq(Node) /\ Workers \in Seq(Node)
    BY ClusterConstants
  <2>2. /\ Len(CPs) \in Nat /\ DOMAIN CPs = 1..Len(CPs) /\ Len(Workers) \in Nat
        /\ DOMAIN Workers = 1..Len(Workers)
        /\ DOMAIN all = 1..(Len(CPs) + Len(Workers))
        /\ \A k \in 1..Len(CPs) : all[k] = CPs[k]
    BY <2>1
  <2>3. ASSUME NEW k \in DOMAIN all, k > Len(CPs)
        PROVE  all[k] \in Range(Workers)
    <3>1. k - Len(CPs) \in DOMAIN Workers /\ all[k] = Workers[k - Len(CPs)]
      BY <2>1, <2>2, <2>3
    <3> HIDE DEF all
    <3> QED BY <3>1 DEF Range
  <2> HIDE DEF all
  <2> QED BY <2>2, <2>3
<1>3. PICK f \in [1..N -> at] :
        /\ N \in Nat
        /\ T = [k \in 1..N |-> all[f[k]]]
        /\ \A k, l \in 1..N : k < l => f[k] < f[l]
  BY <1>1, ThoseAt
<1>4. at \subseteq DOMAIN all
  BY DEF Spots
<1>5. i \in DOMAIN T /\ j \in DOMAIN T /\ i < j /\ T[j] \in Range(CPs)
  BY DEF IsCP
<1> HIDE DEF all, at, N, T
<1>6. i \in 1..N /\ j \in 1..N /\ f[i] < f[j] /\ T[i] = all[f[i]] /\ T[j] = all[f[j]]
  BY <1>3, <1>5
<1>7. f[i] \in DOMAIN all /\ f[j] \in DOMAIN all
  BY <1>3, <1>4, <1>6
<1>8. ~ (f[j] > Len(CPs))
  BY <1>1, <1>2, <1>5, <1>6, <1>7
<1>9. f[i] \in 1..Len(CPs)
  BY <1>2, <1>6, <1>7, <1>8
<1>10. T[i] \in Range(CPs)
  BY <1>2, <1>6, <1>9 DEF Range
<1> QED BY <1>10 DEF IsCP, T, all

\* An upgrade that starts calm.
LEMMA StartsCalm ==
  ASSUME TypeOK, UpgradeStarts
  PROVE  RollInv'
<1> SUFFICES ASSUME Calm' PROVE RollInv'
  BY DEF RollInv
<1> DEFINE order == upgradeOrder
<1>1. /\ upgrade' \in Rolling /\ upgrade' # None /\ upgrade'.at = "next"
      /\ Len(upgrade'.todo) = Len(order)
      /\ \A i \in 1..Len(order) :
           upgrade'.todo[i] = [node |-> order[i], ver |-> Health(order[i])]
      /\ Idle /\ ServersLead
      /\ \A n \in Range(state.children) : Healthy(n) /\ nodeState[n] # 0
  BY StartsRolling DEF Calm
<1>2. /\ state # None /\ UNCHANGED <<vmVars, nodeVars, ca, state, gen, unlisted>>
      /\ op' = IF op = None THEN None ELSE [op EXCEPT !.sound = FALSE]
  BY DEF UpgradeStarts
<1>3. /\ order \in Seq(Node) /\ IsInjective(order)
      /\ Range(order) = {n \in Range(state.children) : nodeState[n] # 0}
  BY <1>2, OrderIs
<1>4. \A i, j \in DOMAIN order : i < j /\ IsCP(order[j]) => IsCP(order[i])
  BY OrderCPsFirst DEF upgradeOrder
<1>5. /\ Len(order) \in Nat /\ DOMAIN order = 1..Len(order)
      /\ DOMAIN upgrade'.todo = 1..Len(order)
  <2>1. upgrade'.todo \in Seq([node : Node, ver : 0..2])
    BY <1>1 DEF Rolling
  <2> QED BY <1>1, <1>3, <2>1
<1> HIDE DEF order
<1>6. \A i \in 1..Len(order) : upgrade'.todo[i].node = order[i] /\ upgrade'.todo[i].ver = Health(order[i])
  <2> TAKE i \in 1..Len(order)
  <2> DEFINE e == upgrade'.todo[i]
  <2>1. e = [node |-> order[i], ver |-> Health(order[i])]
    BY <1>1
  <2> HIDE DEF e
  <2>2. e.node = order[i] /\ e.ver = Health(order[i])
    BY <2>1
  <2> QED BY <2>2 DEF e
<1>7. Range(order) = Range(state.children)
  BY <1>1, <1>3
<1>8. \A i \in 1..Len(order) : order[i] \in Range(state.children)
  BY <1>5, <1>7 DEF Range
<1>9. Idle' /\ state' # None
  <2>1. op' = None \/ (op # None /\ op'.todo = op.todo)
    BY <1>2, Unsound DEF TypeOK
  <2> QED BY <1>1, <1>2, <2>1 DEF Idle
<1>10. state' = state /\ k3s' = k3s /\ vm' = vm /\ agent' = agent
  BY <1>2 DEF vmVars, nodeVars
<1>11. \A n \in Range(state.children) :
         Runs(n) /\ agent[n] /\ k3s[n] # None /\ k3s[n].up /\ Health(n) = k3s[n].ver
  BY <1>1 DEF Healthy, Up, Health, Answers
<1>12. AllAnswer'
  BY <1>10, <1>11 DEF AllAnswer, Answers, Runs
<1>13. ServersLead'
  BY <1>1, <1>10 DEF ServersLead
<1>14. VersionsTrue'
  BY <1>1, <1>5, <1>6, <1>8, <1>10, <1>11 DEF VersionsTrue
<1>15. CPsFirst'
  <2>1. \A i, j \in 1..Len(order) : i < j => order[i] # order[j]
    BY <1>3, <1>5 DEF IsInjective
  <2> QED BY <1>4, <1>5, <1>6, <2>1 DEF CPsFirst, IsCP
<1>16. CPsToCome'
  <2>1. \A c \in Range(state.children) : \E i \in 1..Len(order) : order[i] = c
    BY <1>5, <1>7 DEF Range
  <2> QED BY <1>5, <1>6, <1>10, <2>1 DEF CPsToCome
<1> QED BY <1>9, <1>12, <1>13, <1>14, <1>15, <1>16 DEF RollInv

\* An upgrade goes on to the next node.
LEMMA NextKeeps ==
  ASSUME TypeOK, RollInv, Calm', Upgrading(upgrade.at), NextNode, k3s[This].ver = 2,
         upgrade.at # "restarting", UNCHANGED <<vm, agent, k3s, state, op>>
  PROVE  RollInv'
<1> DEFINE R == [node : Node, ver : 0..2]
           q == upgrade.todo
<1>1. /\ upgrade \in Rolling /\ q \in Seq(R) /\ q # <<>> /\ This = q[1].node
  BY ThisIs
<1>2. /\ upgrade'.todo = Tail(q) /\ upgrade'.at = "next" /\ upgrade'.calm = upgrade.calm
      /\ upgrade'.died = upgrade.died
  BY <1>1 DEF NextNode, Rolling
<1>3. Calm
  BY <1>2 DEF Calm, Upgrading
<1>4. Idle /\ state # None /\ AllAnswer /\ ServersLead /\ VersionsTrue /\ CPsFirst /\ CPsToCome
  BY <1>3 DEF RollInv
<1> HIDE DEF R
<1>5. /\ Len(q) \in Nat /\ DOMAIN q = 1..Len(q) /\ Len(q) >= 1
      /\ DOMAIN Tail(q) = 1..(Len(q) - 1)
      /\ \A i \in 1..(Len(q) - 1) : Tail(q)[i] = q[i + 1]
  BY <1>1
<1>6. Idle' /\ state' # None
  BY <1>4 DEF Idle
<1>7. AllAnswer'
  BY <1>2, <1>4 DEF AllAnswer, Answers, Runs, Upgrading
<1>8. ServersLead'
  BY <1>4 DEF ServersLead
<1>9. DOMAIN upgrade'.todo = 1..(Len(q) - 1) /\ \A i \in 1..(Len(q) - 1) : upgrade'.todo[i] = q[i + 1]
  BY <1>2, <1>5
<1>10. \A i \in 1..(Len(q) - 1) : i + 1 \in DOMAIN q /\ i + 1 > 1
  BY <1>5
<1>11. VersionsTrue'
  <2>1. \A i \in 1..(Len(q) - 1) :
          q[i + 1].node \in Range(state.children) /\ q[i + 1].ver = k3s[q[i + 1].node].ver
    BY <1>4, <1>10 DEF VersionsTrue
  <2> QED BY <1>2, <1>9, <2>1 DEF VersionsTrue
<1>12. CPsFirst'
  <2>1. \A i, j \in 1..(Len(q) - 1) : i < j => i + 1 < j + 1
    BY <1>5
  <2>2. \A i, j \in 1..(Len(q) - 1) : i < j =>
          q[i + 1].node # q[j + 1].node /\ (IsCP(q[j + 1].node) => IsCP(q[i + 1].node))
    BY <1>4, <1>10, <2>1 DEF CPsFirst
  <2>3. ASSUME NEW i \in DOMAIN upgrade'.todo, NEW j \in DOMAIN upgrade'.todo, i < j
        PROVE  /\ upgrade'.todo[i].node # upgrade'.todo[j].node
               /\ IsCP(upgrade'.todo[j].node) => IsCP(upgrade'.todo[i].node)
    <3>1. /\ i \in 1..(Len(q) - 1) /\ j \in 1..(Len(q) - 1)
          /\ upgrade'.todo[i] = q[i + 1] /\ upgrade'.todo[j] = q[j + 1]
      BY <1>9, <2>3
    <3> HIDE DEF q
    <3> QED BY <2>2, <2>3, <3>1
  <2> QED BY <2>3 DEF CPsFirst, IsCP
<1>13. CPsToCome'
  <2> SUFFICES ASSUME NEW c \in Range(CPs) \cap Range(state.children), k3s[c].ver # 2
               PROVE  \E i \in 1..(Len(q) - 1) : q[i + 1].node = c
    <3>1. ASSUME NEW i \in 1..(Len(q) - 1), NEW c, q[i + 1].node = c
          PROVE  i \in DOMAIN upgrade'.todo /\ upgrade'.todo[i].node = c
      BY <1>9, <3>1
    <3>2. k3s' = k3s /\ state' = state
      OBVIOUS
    <3> HIDE DEF q
    <3> QED BY <3>1, <3>2 DEF CPsToCome
  <2>1. PICK i \in DOMAIN q : q[i].node = c
    BY <1>4 DEF CPsToCome
  <2>2. i # 1
    BY <1>1, <2>1
  <2>3. i - 1 \in 1..(Len(q) - 1) /\ (i - 1) + 1 = i
    BY <1>5, <2>2
  <2> QED BY <2>1, <2>3
<1> QED BY <1>6, <1>7, <1>8, <1>11, <1>12, <1>13 DEF RollInv

\* The binary of the node at hand is swapped: a worker's only when every listed
\* control plane has the new one.
LEMMA SwapKeeps ==
  ASSUME TypeOK, RollInv, Calm', UpgradeSwaps
  PROVE  RollInv'
<1> DEFINE R == [node : Node, ver : 0..2]
           q == upgrade.todo
<1>1. /\ upgrade \in Rolling /\ q \in Seq(R) /\ q # <<>> /\ This = q[1].node /\ 1 \in DOMAIN q
      /\ upgrade.at = "next" /\ upgrade # None
  BY ThisIs DEF UpgradeSwaps
<1>2. /\ upgrade'.todo = q /\ upgrade'.at = "swapped" /\ upgrade'.calm = upgrade.calm
      /\ upgrade'.died = upgrade.died
  BY <1>1 DEF UpgradeSwaps, Rolling
<1>3. Calm
  BY <1>1, <1>2 DEF Calm
<1>4. Idle /\ state # None /\ AllAnswer /\ ServersLead /\ VersionsTrue /\ CPsFirst /\ CPsToCome
  BY <1>3 DEF RollInv
<1>5. vm' = vm /\ agent' = agent /\ state' = state /\ op' = op
  BY DEF UpgradeSwaps, vmVars
<1>6. /\ This \in Node /\ k3s[This] # None /\ k3s'[This] # None /\ k3s'[This].ver = 2
      /\ k3s'[This].up = k3s[This].up
      /\ \A k \in Node : k # This => k3s'[k] = k3s[k]
  BY Swapped
<1>7. Range(state.children) \subseteq Node
  BY <1>4, ListedNodes DEF Listed
<1>8. \A n \in Range(state.children) : k3s[n] \in K3s /\ k3s[n].ver \in {1, 2}
  BY <1>4, <1>7 DEF AllAnswer, TypeOK, K3s, Version
<1> HIDE DEF R
<1>9. Idle' /\ state' # None
  BY <1>4, <1>5 DEF Idle
<1>11. AllAnswer'
  <2>1. \A n \in Range(state.children) : Answers(n) /\ k3s[n] # None /\ (k3s[n].up \/ n \in upgrade.died)
    BY <1>1, <1>4 DEF AllAnswer, Upgrading
  <2>2. \A n \in Range(state.children) : k3s'[n] # None /\ k3s'[n].up = k3s[n].up
    BY <1>6, <1>7, <2>1
  <2> QED BY <1>2, <1>5, <2>1, <2>2 DEF AllAnswer, Answers, Runs
<1>12. ASSUME NEW w \in Range(Workers), NEW c \in Range(CPs), {w, c} \subseteq Range(state.children)
       PROVE  k3s'[w].ver <= k3s'[c].ver
  <2>1. w \in Node /\ c \in Node /\ w # c
    BY <1>7, <1>12, Names
  <2>2. k3s[w].ver <= k3s[c].ver /\ k3s[w].ver \in {1, 2} /\ k3s[c].ver \in {1, 2}
    BY <1>4, <1>8, <1>12 DEF ServersLead
  <2>3. CASE This = w
    <3>1. k3s[c].ver = 2
      <4>1. SUFFICES ASSUME k3s[c].ver # 2 PROVE FALSE
        OBVIOUS
      <4>2. PICK i \in DOMAIN q : q[i].node = c
        BY <1>4, <1>12, <4>1 DEF CPsToCome
      <4>3. i > 1
        <5>1. i # 1
          BY <1>1, <2>1, <2>3, <4>2
        <5>2. i \in Nat /\ i >= 1
          BY <1>1
        <5> QED BY <5>1, <5>2
      <4>4. IsCP(This)
        BY <1>1, <1>4, <1>12, <4>2, <4>3 DEF CPsFirst, IsCP
      <4> QED BY <2>3, <4>4, <1>12, Names DEF IsCP
    <3>2. k3s'[c] = k3s[c] /\ k3s'[w].ver = 2
      BY <1>6, <2>1, <2>3
    <3> QED BY <3>1, <3>2
  <2>4. CASE This = c
    <3>1. k3s'[w] = k3s[w] /\ k3s'[c].ver = 2
      BY <1>6, <2>1, <2>4
    <3> QED BY <2>2, <3>1
  <2>5. CASE This # w /\ This # c
    BY <1>6, <2>1, <2>2, <2>5
  <2> QED BY <2>3, <2>4, <2>5
<1>13. ServersLead'
  BY <1>5, <1>12 DEF ServersLead
<1>14. VersionsTrue'
  <2> SUFFICES ASSUME NEW i \in DOMAIN q
               PROVE  /\ q[i].node \in Range(state.children)
                      /\ i > 1 => q[i].ver = k3s'[q[i].node].ver
                      /\ i = 1 => k3s'[q[i].node].ver = 2
    BY <1>2, <1>5 DEF VersionsTrue
  <2>1. q[i].node \in Range(state.children) /\ q[i].ver = k3s[q[i].node].ver
    BY <1>1, <1>4 DEF VersionsTrue
  <2>2. i > 1 => q[i].node # This
    BY <1>1, <1>4 DEF CPsFirst
  <2>3. i > 1 => k3s'[q[i].node] = k3s[q[i].node]
    BY <1>6, <1>7, <2>1, <2>2
  <2> QED BY <1>1, <1>6, <2>1, <2>3
<1>15. CPsFirst'
  BY <1>2, <1>4 DEF CPsFirst, IsCP
<1>16. CPsToCome'
  BY <1>2, <1>4, <1>5, <1>6, <1>7 DEF CPsToCome
<1> QED BY <1>9, <1>11, <1>13, <1>14, <1>15, <1>16 DEF RollInv

\* The service of the node at hand is stopped, or started again.
LEMMA RestartKeeps ==
  ASSUME TypeOK, RollInv, Calm', UpgradeStops \/ UpgradeRestarts
  PROVE  RollInv'
<1> DEFINE q == upgrade.todo
<1>1. /\ upgrade \in Rolling /\ q # <<>> /\ This = q[1].node /\ 1 \in DOMAIN q
      /\ upgrade.at \in {"swapped", "restarting"} /\ upgrade # None
  BY ThisIs DEF UpgradeStops, UpgradeRestarts
<1>2. /\ upgrade'.todo = q /\ upgrade'.calm = upgrade.calm
      /\ upgrade'.at = IF UpgradeStops THEN "restarting" ELSE "check"
      /\ upgrade.died \subseteq upgrade'.died
  <2>1. CASE UpgradeStops
    <3>1. upgrade' = [upgrade EXCEPT !.at = "restarting"]
      BY <2>1 DEF UpgradeStops
    <3>2. /\ upgrade'.todo = q /\ upgrade'.calm = upgrade.calm /\ upgrade'.at = "restarting"
          /\ upgrade'.died = upgrade.died
      BY <1>1, <3>1 DEF Rolling
    <3> QED BY <2>1, <3>2
  <2>2. CASE ~ UpgradeStops
    BY <2>2, RestartRolls
  <2> QED BY <2>1, <2>2
<1>3. Calm
  BY <1>1, <1>2 DEF Calm
<1>4. Idle /\ state # None /\ AllAnswer /\ ServersLead /\ VersionsTrue /\ CPsFirst /\ CPsToCome
  BY <1>3 DEF RollInv
<1>5. vm' = vm /\ agent' = agent /\ state' = state /\ op' = op
  BY DEF UpgradeStops, UpgradeRestarts, vmVars
<1>6. /\ This \in Node /\ k3s[This] # None /\ k3s'[This] # None
      /\ k3s'[This].ver = k3s[This].ver
      /\ UpgradeStops \/ k3s'[This].up \/ This \in upgrade'.died
      /\ \A k \in Node : k # This => k3s'[k] = k3s[k]
  <2>1. ~ UpgradeSwaps
    BY DEF UpgradeSwaps, UpgradeStops, UpgradeRestarts, Upgrading
  <2> QED BY <2>1, Swapped
<1>7. Range(state.children) \subseteq Node
  BY <1>4, ListedNodes DEF Listed
<1>8. \A n \in Range(state.children) : k3s'[n].ver = k3s[n].ver
  BY <1>6, <1>7
<1>9. Idle' /\ state' # None
  BY <1>4, <1>5 DEF Idle
<1>10. AllAnswer'
  <2>1. This' = This /\ upgrade' # None
    BY <1>2 DEF This, Calm
  <2>2. UpgradeStops => Upgrading("restarting")'
    BY <1>1, <1>2, <2>1 DEF Upgrading
  <2>3. \A n \in Range(state.children) : n # This =>
          /\ Answers(n) /\ k3s[n] # None /\ (k3s[n].up \/ n \in upgrade.died)
          /\ k3s'[n] = k3s[n]
    BY <1>4, <1>6, <1>7 DEF AllAnswer
  <2>4. This \in Range(state.children) => Answers(This)
    BY <1>4 DEF AllAnswer
  <2>5. ASSUME NEW n \in Range(state.children)
        PROVE  /\ Answers(n)' /\ k3s'[n] # None
               /\ k3s'[n].up \/ n \in upgrade'.died \/ (Upgrading("restarting")' /\ n = This')
    <3>1. CASE n = This
      BY <1>5, <1>6, <2>1, <2>2, <2>4, <3>1 DEF Answers, Runs
    <3>2. CASE n # This
      BY <1>2, <1>5, <2>3, <3>2 DEF Answers, Runs
    <3> QED BY <3>1, <3>2
  <2> QED BY <1>5, <2>5 DEF AllAnswer
<1>11. ServersLead'
  BY <1>4, <1>5, <1>8 DEF ServersLead
<1>12. VersionsTrue'
  BY <1>1, <1>2, <1>4, <1>5, <1>8 DEF VersionsTrue
<1>13. CPsFirst'
  BY <1>2, <1>4 DEF CPsFirst, IsCP
<1>14. CPsToCome'
  BY <1>2, <1>4, <1>5, <1>8 DEF CPsToCome
<1> QED BY <1>9, <1>10, <1>11, <1>12, <1>13, <1>14 DEF RollInv

\* While an upgrade is calm no operation runs: one that begins, or a lost VM, ends
\* the calm, and the steps of an operation need one that runs.
LEMMA RollStep ==
  ASSUME TypeOK, RollInv, [Next]_vars
  PROVE  RollInv'
<1> SUFFICES ASSUME Calm' PROVE RollInv'
  BY DEF RollInv
<1>0. upgrade \in Rolling \cup {None}
  BY DEF TypeOK
<1>1. CASE UNCHANGED vars
  <2>1. UNCHANGED <<vm, k3s, agent, state, op, upgrade>>
    BY <1>1 DEF vars, vmVars, nodeVars
  <2> QED BY <2>1 DEF RollInv, Calm, Idle, AllAnswer, ServersLead, VersionsTrue, CPsFirst, CPsToCome,
             Answers, Runs, Upgrading, This, IsCP
<1>2. ASSUME upgrade' = IF upgrade = None THEN None ELSE [upgrade EXCEPT !.calm = FALSE]
      PROVE  FALSE
  BY <1>0, <1>2, Disturbed DEF Calm
<1>3. CASE (\E m \in left.manifests : Create(m) \/ Converge(m)) \/ Delete
  BY <1>2, <1>3 DEF Create, Converge, Delete, Begins
<1>4. ASSUME upgrade' = upgrade, ~ Idle
      PROVE  FALSE
  BY <1>4 DEF Calm, RollInv
<1>5. CASE Fails
  BY <1>4, <1>5 DEF Fails
<1>6. ASSUME NEW what, NEW n, At(what, n)
      PROVE  ~ Idle
  BY <1>6 DEF At, Idle
<1>7. CASE StubSaved \/ CASaved \/ ReadySaved \/ StateRewritten \/ StateRemoved
  <2>1. upgrade' = upgrade /\ \E what \in {"stub", "ca", "ready", "rewrite", "gone"} : At(what, None)
    BY <1>7 DEF StubSaved, CASaved, ReadySaved, StateRewritten, StateRemoved
  <2> QED BY <1>4, <1>6, <2>1
<1>8. ASSUME NEW n \in Node, NodeStep(n)
      PROVE  FALSE
  <2>1. CASE VMLost(n)
    BY <1>2, <2>1 DEF VMLost
  <2>2. CASE ~ VMLost(n)
    <3>1. upgrade' = upgrade
      BY <1>8, <2>2 DEF NodeStep, VMCached, VMCreated, VMResized, VMStarted, VMSaved, AlreadyInstalled,
         InstallFirst, InstallJoining, Installs, NodeSaved, AgentAlready, AgentInstalled, AgentSaved,
         NothingToRemove, AgentUninstalled, AgentForgotten, NodeUninstalled, NodeForgotten,
         VMStopped, VMDeleted, RowDeleted, VMDestroyed, FilesRemoved
    <3>2. op # None /\ op.todo # <<>>
      BY <1>8, <2>2 DEF At, NodeStep, VMCached, VMCreated, VMResized, VMStarted, VMSaved, AlreadyInstalled,
         InstallFirst, InstallJoining, Installs, NodeSaved, AgentAlready, AgentInstalled, AgentSaved,
         NothingToRemove, AgentUninstalled, AgentForgotten, NodeUninstalled, NodeForgotten,
         VMStopped, VMDeleted, RowDeleted, VMDestroyed, FilesRemoved
    <3> QED BY <1>4, <3>1, <3>2 DEF Idle
  <2> QED BY <2>1, <2>2
<1>9. CASE UpgradeStarts
  BY <1>9, StartsCalm
<1>10. CASE UpgradeSkips
  <2>1. /\ Upgrading("next") /\ upgrade.at = "next" /\ Head(upgrade.todo).ver = 2 /\ NextNode
        /\ UNCHANGED <<vm, agent, k3s, state, op>>
    BY <1>10 DEF UpgradeSkips, Upgrading, vmVars, nodeVars
  <2>2. /\ upgrade \in Rolling /\ 1 \in DOMAIN upgrade.todo /\ Head(upgrade.todo) = upgrade.todo[1]
        /\ This = upgrade.todo[1].node
    BY <2>1, ThisIs
  <2>3. Calm
    BY <2>1, <2>2 DEF Calm, NextNode, Rolling, Upgrading
  <2>4. k3s[This].ver = 2
    BY <2>1, <2>2, <2>3 DEF RollInv, VersionsTrue
  <2> QED BY <2>1, <2>4, NextKeeps
<1>11. CASE UpgradeSwaps
  BY <1>11, SwapKeeps
<1>12. CASE UpgradeStops \/ UpgradeRestarts
  BY <1>12, RestartKeeps
<1>13. CASE UpgradeChecks
  <2>1. /\ Upgrading("check") /\ upgrade.at = "check" /\ Health(This) = 2 /\ NextNode
        /\ UNCHANGED <<vm, agent, k3s, state, op>>
    BY <1>13 DEF UpgradeChecks, Upgrading, vmVars, nodeVars
  <2>2. k3s[This].ver = 2
    BY <2>1 DEF Health
  <2> QED BY <2>1, <2>2, NextKeeps
<1>14. CASE UpgradeEnds
  BY <1>14 DEF UpgradeEnds, Calm
<1> QED BY <1>1, <1>3, <1>5, <1>7, <1>8, <1>9, <1>10, <1>11, <1>12, <1>13, <1>14 DEF Next

\* "Serial CP upgrade preserves etcd quorum" (upgrade.go): an upgrade that began
\* with every listed node healthy and no worker ahead, and beside which no
\* operation ran, takes down no node but the one at hand, and gives no worker the
\* new version before every listed control plane has it (upgradeOrder, runUpgrade,
\* waitForNodeHealth), however many nodes there are and wherever it halts.  Nodes
\* whose service did not stay up after a restart that reported success are
\* excepted: waitForNodeHealth does not look at the service.
THEOREM UpgradesOneAtATime == ClusterSpec => []UpgradeOneAtATime
<1>1. Init => ClusterInv /\ RollInv
  <2>1. Init => RollInv
    BY DEF Init, RollInv, Calm
  <2> QED BY <2>1, ClusterInit
<1>2. ClusterInv /\ RollInv /\ [Next]_vars => (ClusterInv /\ RollInv)'
  BY ClusterStep, RollStep DEF ClusterInv
<1>3. ClusterInv /\ RollInv => UpgradeOneAtATime
  BY DEF RollInv, Calm, UpgradeOneAtATime, AllAnswer, Answers, Up
<1> QED BY <1>1, <1>2, <1>3, PTL DEF ClusterSpec

------------------------------------------------------------------------------
(* What a sound apply has done and has still to do *)

\* The order of a node's steps: those that continue a step have its rank.
Rank(what) ==
  CASE what \in {"delAgent", "agentFile"} -> 1
    [] what \in {"delNode", "nodeFile"} -> 2
    [] what \in {"delVM", "delRow"} -> 3
    [] what \in {"vm", "start", "row"} -> 4
    [] what \in {"install", "installed"} -> 5
    [] what \in {"agent", "agentInstalled"} -> 6
    [] OTHER -> 0
Destroys == {"delAgent", "agentFile", "delNode", "nodeFile", "delVM", "delRow"}

Wants(m) == Range(NodeNames(m))

\* Step y may come after step x: a node's steps are in order, and the listed nodes
\* that stay are recreated last, one after the other as they are listed.
Follows(m, listed, x, y) ==
  /\ x.node = y.node /\ x.node \in Node => Rank(x.do) < Rank(y.do)
  /\ \A p \in DOMAIN listed :
       x.node = listed[p] /\ x.node \in Wants(m) /\ y.node \in Node =>
         \E q \in DOMAIN listed : y.node = listed[q] /\ y.node \in Wants(m) /\ p <= q

InOrder(m, listed, todo) ==
  \A i, j \in DOMAIN todo : i < j => Follows(m, listed, todo[i], todo[j])

Sounds == op # None /\ op.sound /\ op.type # "delete"

\* The list that a convergence recreates the nodes of.
Recreated == IF op.type = "converge" THEN op.listed ELSE <<>>

\* A step that continues another one is the first; only the first control plane
\* of a creation joins nobody.
PlanOrder(type, m, listed, todo) ==
  /\ InOrder(m, listed, todo)
  /\ \A i \in DOMAIN todo :
       /\ todo[i].do \in Onward => i = 1
       /\ todo[i].do = "install" /\ todo[i].join = None => type = "create" /\ todo[i].node = CPs[1]

OrderInv == PlanOrder(op.type, op.m, Recreated, op.todo)

\* The steps that a node has still to come.
Coming(todo, n) == {todo[i].do : i \in {j \in DOMAIN todo : todo[j].node = n}}
ToCome(n) == Coming(op.todo, n)
Stuck == "stuck" \in ToCome(None)

\* The files tell the truth about a node, but for what its next step repairs; a
\* VM goes when its files have gone.
FilesInv(n) ==
  /\ nodeState[n] # 0 => "nodeFile" \in ToCome(n) \/ (Up(n) /\ k3s[n].gen = nodeState[n])
  /\ agentState[n] => "agentFile" \in ToCome(n) \/ agent[n]
  /\ "vm" \in ToCome(n) /\ row[n] # None /\ vm[n] # None => row[n] = vm[n].size
  /\ "delVM" \in ToCome(n) =>
       /\ nodeState[n] # 0 => ToCome(n) \cap {"delNode", "nodeFile"} # {}
       /\ agentState[n] => ToCome(n) \cap {"delAgent", "agentFile"} # {}
  /\ "installed" \in ToCome(n) => Up(n)
  /\ "agentInstalled" \in ToCome(n) => agent[n]
  /\ op.type = "converge" /\ ToCome(n) \cap Destroys # {} => n \in Range(op.listed)

\* A wanted node has what it needs, or it is still to come.
WantedInv(n) ==
  /\ ToCome(n) \cap Destroys # {} => {"vm", "install", "agent"} \subseteq ToCome(n)
  /\ "vm" \in ToCome(n) \/ Stuck \/ (vm[n] # None /\ vm[n].size = Wanted(n))
  /\ \/ nodeState[n] # 0 \/ ToCome(n) \cap {"install", "installed"} # {}
     \/ Stuck /\ n \notin Range(op.listed) /\ op.m.force
  /\ "agent" \in ToCome(n) \/ Stuck \/ agent[n]

\* Every k3s belongs to one cluster, which a creation starts at the first control plane.
SameCluster ==
  /\ \A n, k \in Node : k3s[n] # None /\ k3s[k] # None => k3s[n].gen = k3s[k].gen
  /\ op.type = "create" /\ k3s[CPs[1]] = None => \A n \in Node : k3s[n] = None

\* The state file lists the wanted nodes, or the step that writes it is to come.
ClosingInv ==
  \/ ToCome(None) \cap {"ready", "rewrite"} # {}
  \/ "stub" \notin ToCome(None) /\ Ready /\ Range(state.children) = Wants(op.m)

SoundInv ==
  Sounds =>
    /\ upgrade = None /\ OrderInv /\ SameCluster /\ ClosingInv
    /\ \A n \in Node : FilesInv(n)
    /\ \A n \in Wants(op.m) : WantedInv(n)

\* The first step of a plan in order: the other steps of its node have a higher
\* rank, and no other one continues a step.
LEMMA FirstComes ==
  ASSUME NEW type, NEW m, NEW listed, NEW todo \in Seq(Step), todo # <<>>,
         PlanOrder(type, m, listed, todo)
  PROVE  /\ 1 \in DOMAIN todo /\ Head(todo) = todo[1]
         /\ todo[1].do \in Coming(todo, todo[1].node)
         /\ todo[1].node \in Node =>
              \A v \in Coming(todo, todo[1].node) : v = todo[1].do \/ Rank(todo[1].do) < Rank(v)
         /\ \A k : \A v \in Coming(todo, k) \cap Onward : k = todo[1].node /\ v = todo[1].do
<1>1. 1 \in DOMAIN todo /\ Head(todo) = todo[1] /\ \A i \in DOMAIN todo : i \in Nat /\ (i = 1 \/ 1 < i)
  OBVIOUS
<1>2. todo[1].do \in Coming(todo, todo[1].node)
  BY <1>1 DEF Coming
<1>3. ASSUME todo[1].node \in Node, NEW v \in Coming(todo, todo[1].node), v # todo[1].do
      PROVE  Rank(todo[1].do) < Rank(v)
  <2>1. PICK i \in DOMAIN todo : todo[i].node = todo[1].node /\ v = todo[i].do
    BY <1>3 DEF Coming
  <2>2. 1 < i
    BY <1>1, <1>3, <2>1
  <2>3. Follows(m, listed, todo[1], todo[i])
    BY <1>1, <2>2 DEF PlanOrder, InOrder
  <2> QED BY <1>3, <2>1, <2>3 DEF Follows
<1>4. ASSUME NEW k, NEW v \in Coming(todo, k) \cap Onward
      PROVE  k = todo[1].node /\ v = todo[1].do
  <2>1. PICK i \in DOMAIN todo : todo[i].node = k /\ v = todo[i].do
    BY <1>4 DEF Coming
  <2>2. i = 1
    BY <1>4, <2>1 DEF PlanOrder
  <2> QED BY <2>1, <2>2
<1> QED BY <1>1, <1>2, <1>3, <1>4

\* What comes after the first step of a plan in order.
LEMMA RestComes ==
  ASSUME NEW type, NEW m, NEW listed, NEW todo \in Seq(Step), todo # <<>>,
         PlanOrder(type, m, listed, todo)
  PROVE  /\ PlanOrder(type, m, listed, Tail(todo))
         /\ \A k : k # todo[1].node => Coming(Tail(todo), k) = Coming(todo, k)
         /\ todo[1].node \in Node =>
              Coming(Tail(todo), todo[1].node) = Coming(todo, todo[1].node) \ {todo[1].do}
         /\ \A k, v : v # todo[1].do => (v \in Coming(Tail(todo), k) <=> v \in Coming(todo, k))
         /\ \A k : Coming(Tail(todo), k) \cap Onward = {}
<1> DEFINE t == Tail(todo)
<1>1. /\ Len(todo) \in Nat /\ Len(todo) # 0 /\ DOMAIN todo = 1..Len(todo)
      /\ DOMAIN t = 1..(Len(todo) - 1) /\ \A i \in 1..(Len(todo) - 1) : t[i] = todo[i + 1]
  OBVIOUS
<1> HIDE DEF t
<1>2. \A i \in DOMAIN t : i \in Nat /\ i + 1 \in DOMAIN todo /\ t[i] = todo[i + 1] /\ i + 1 # 1
  BY <1>1
<1>3. \A i \in DOMAIN todo : i # 1 => i - 1 \in DOMAIN t /\ t[i - 1] = todo[i]
  <2> TAKE i \in DOMAIN todo
  <2> HAVE i # 1
  <2>1. i - 1 \in 1..(Len(todo) - 1) /\ (i - 1) + 1 = i
    BY <1>1
  <2> QED BY <1>1, <2>1
<1>4. InOrder(m, listed, t)
  <2>1. ASSUME NEW i \in DOMAIN t, NEW j \in DOMAIN t, i < j
        PROVE  Follows(m, listed, t[i], t[j])
    <3>1. i + 1 < j + 1
      BY <1>2, <2>1
    <3>2. Follows(m, listed, todo[i + 1], todo[j + 1])
      BY <1>2, <3>1 DEF PlanOrder, InOrder
    <3> QED BY <1>2, <3>2
  <2> QED BY <2>1 DEF InOrder
<1>5. \A i \in DOMAIN t : t[i].do \notin Onward
  BY <1>2 DEF PlanOrder
<1>6. PlanOrder(type, m, listed, t)
  BY <1>2, <1>4, <1>5 DEF PlanOrder
<1>7. \A k, v : v \in Coming(t, k) => v \in Coming(todo, k)
  BY <1>2 DEF Coming
<1>8. \A k, v : v \in Coming(todo, k) => v \in Coming(t, k) \/ (k = todo[1].node /\ v = todo[1].do)
  <2> SUFFICES ASSUME NEW k, NEW v \in Coming(todo, k)
               PROVE  v \in Coming(t, k) \/ (k = todo[1].node /\ v = todo[1].do)
    OBVIOUS
  <2>1. PICK i \in DOMAIN todo : todo[i].node = k /\ v = todo[i].do
    BY DEF Coming
  <2>2. CASE i = 1
    BY <2>1, <2>2
  <2>3. CASE i # 1
    BY <1>3, <2>1, <2>3 DEF Coming
  <2> QED BY <2>2, <2>3
<1>9. ASSUME todo[1].node \in Node PROVE todo[1].do \notin Coming(t, todo[1].node)
  <2> SUFFICES ASSUME NEW i \in DOMAIN t, t[i].node = todo[1].node, t[i].do = todo[1].do PROVE FALSE
    BY DEF Coming
  <2>1. 1 \in DOMAIN todo /\ i + 1 \in DOMAIN todo /\ 1 < i + 1 /\ t[i] = todo[i + 1]
    BY <1>1, <1>2
  <2>2. Follows(m, listed, todo[1], todo[i + 1])
    BY <2>1 DEF PlanOrder, InOrder
  <2>3. Rank(todo[1].do) < Rank(todo[1].do)
    BY <1>9, <2>1, <2>2 DEF Follows
  <2>4. Rank(todo[1].do) \in Nat
    BY DEF Rank
  <2> QED BY <2>3, <2>4
<1>10. \A k : Coming(t, k) \cap Onward = {}
  BY <1>5 DEF Coming
<1>11. \A k, v : v # todo[1].do => (v \in Coming(t, k) <=> v \in Coming(todo, k))
  BY <1>7, <1>8
<1>12. \A k : k # todo[1].node => Coming(t, k) = Coming(todo, k)
  <2> SUFFICES ASSUME NEW k, k # todo[1].node PROVE Coming(t, k) = Coming(todo, k)
    OBVIOUS
  <2>1. \A v : v \in Coming(t, k) <=> v \in Coming(todo, k)
    BY <1>7, <1>8
  <2> QED BY <2>1
<1>13. todo[1].node \in Node => Coming(t, todo[1].node) = Coming(todo, todo[1].node) \ {todo[1].do}
  <2> HAVE todo[1].node \in Node
  <2> DEFINE k == todo[1].node
             A == Coming(t, k)
             B == Coming(todo, k) \ {todo[1].do}
  <2>1. \A v : v \in A <=> v \in B
    BY <1>7, <1>8, <1>9
  <2> HIDE DEF A, B
  <2>2. A = B
    BY <2>1
  <2> QED BY <2>2 DEF A, B
<1> QED BY <1>6, <1>10, <1>11, <1>12, <1>13 DEF t

\* What comes when the first step goes on as another one.
LEMMA OnwardComes ==
  ASSUME NEW type, NEW m, NEW listed, NEW todo \in Seq(Step), todo # <<>>,
         PlanOrder(type, m, listed, todo), NEW what, Rank(what) = Rank(todo[1].do), what # "install",
         NEW next, DOMAIN next = DOMAIN todo, next[1].do = what, next[1].node = todo[1].node,
         \A i \in DOMAIN todo : i # 1 => next[i] = todo[i],
         todo[1].node \in Node, what \in Onward
  PROVE  /\ PlanOrder(type, m, listed, next)
         /\ \A k : k # todo[1].node => Coming(next, k) = Coming(todo, k)
         /\ Coming(next, todo[1].node) = (Coming(todo, todo[1].node) \ {todo[1].do}) \cup {what}
<1>1. 1 \in DOMAIN todo /\ \A i \in DOMAIN todo : i \in Nat /\ 1 <= i
  OBVIOUS
<1>2. InOrder(m, listed, next)
  <2>1. ASSUME NEW i \in DOMAIN todo, NEW j \in DOMAIN todo, i < j
        PROVE  Follows(m, listed, next[i], next[j])
    <3>1. j # 1 /\ next[j] = todo[j]
      BY <1>1, <2>1
    <3>2. Follows(m, listed, todo[i], todo[j])
      BY <2>1 DEF PlanOrder, InOrder
    <3>3. next[i].node = todo[i].node /\ Rank(next[i].do) = Rank(todo[i].do)
      BY <1>1
    <3> QED BY <3>1, <3>2, <3>3 DEF Follows
  <2> QED BY <2>1 DEF InOrder
<1>3. PlanOrder(type, m, listed, next)
  BY <1>1, <1>2 DEF PlanOrder
<1>4. \A k : k # todo[1].node => Coming(next, k) = Coming(todo, k)
  <2> SUFFICES ASSUME NEW k, k # todo[1].node PROVE Coming(next, k) = Coming(todo, k)
    OBVIOUS
  <2>1. \A i \in DOMAIN todo : /\ next[i].node = k <=> todo[i].node = k
                               /\ todo[i].node = k => next[i] = todo[i]
    BY <1>1
  <2>2. \A v : v \in Coming(next, k) <=> v \in Coming(todo, k)
    BY <2>1 DEF Coming
  <2> QED BY <2>2
<1>5. Coming(next, todo[1].node) = (Coming(todo, todo[1].node) \ {todo[1].do}) \cup {what}
  <2> DEFINE k == todo[1].node
  <2>1. \A i \in DOMAIN todo : i # 1 /\ todo[i].node = k => todo[i].do # todo[1].do
    <3> SUFFICES ASSUME NEW i \in DOMAIN todo, i # 1, todo[i].node = k, todo[i].do = todo[1].do
                 PROVE  FALSE
      OBVIOUS
    <3>1. Follows(m, listed, todo[1], todo[i])
      BY <1>1 DEF PlanOrder, InOrder
    <3>2. Rank(todo[1].do) < Rank(todo[1].do)
      BY <3>1 DEF Follows
    <3>3. Rank(todo[1].do) \in Nat
      BY DEF Rank
    <3> QED BY <3>2, <3>3
  <2>2. what \in Coming(next, k)
    BY <1>1 DEF Coming
  <2>3. \A v : v \in Coming(todo, k) /\ v # todo[1].do => v \in Coming(next, k)
    BY DEF Coming
  <2>4. \A v : v \in Coming(next, k) => v = what \/ (v \in Coming(todo, k) /\ v # todo[1].do)
    BY <2>1 DEF Coming
  <2> QED BY <2>2, <2>3, <2>4
<1> QED BY <1>3, <1>4, <1>5

\* The operation goes on, and only what n has still to come changes.
Carried(n) ==
  /\ Sounds' /\ OrderInv'
  /\ op'.type = op.type /\ op'.m = op.m /\ op'.listed = op.listed /\ op'.gap = op.gap
  /\ \A k : k # n => ToCome(k)' = ToCome(k)

LEMMA FieldsStay ==
  ASSUME op \in Oper, NEW t \in Seq(Step)
  PROVE  [op EXCEPT !.todo = t].sound = op.sound /\ [op EXCEPT !.todo = t].gap = op.gap
BY DEF Oper

\* What the step at hand says about the steps to come.
LEMMA AtComes ==
  ASSUME TypeOK, OpInv, Sounds, OrderInv, NEW what, NEW n, At(what, n)
  PROVE  /\ op.todo \in Seq(Step) /\ op.todo # <<>> /\ op \in Oper
         /\ op.todo[1].do = what /\ op.todo[1].node = n /\ Head(op.todo) = op.todo[1]
         /\ what \in Doing(op.type) /\ what \in ToCome(n)
         /\ n \in Node => \A v \in ToCome(n) : v = what \/ Rank(what) < Rank(v)
         /\ \A k : \A v \in ToCome(k) \cap Onward : k = n /\ v = what
<1>1. /\ op \in Oper /\ op.todo # <<>> /\ op.todo[1].do = what /\ op.todo[1].node = n
      /\ what \in Doing(op.type)
  BY AtIs
<1>2. op.todo \in Seq(Step)
  BY <1>1, OperIs
<1> QED BY <1>1, <1>2, FirstComes DEF OrderInv, ToCome

\* The step is over: its node has one less to come.
LEMMA DoneComes ==
  ASSUME TypeOK, OpInv, Sounds, OrderInv, NEW what, NEW n, At(what, n), Done
  PROVE  /\ Carried(n)
         /\ op'.todo = Tail(op.todo)
         /\ n \in Node => ToCome(n)' = ToCome(n) \ {what}
         /\ \A k, v : v # what => (v \in ToCome(k)' <=> v \in ToCome(k))
         /\ \A k : ToCome(k)' \cap Onward = {}
<1>1. /\ op \in Oper /\ op.todo # <<>> /\ op.todo[1].do = what /\ op.todo[1].node = n
      /\ op.todo \in Seq(Step)
  BY AtComes
<1>2. Tail(op.todo) \in Seq(Step)
  BY <1>1
<1>3. /\ op' = [op EXCEPT !.todo = Tail(op.todo)] /\ op' # None
      /\ op'.todo = Tail(op.todo) /\ op'.type = op.type /\ op'.m = op.m /\ op'.listed = op.listed
      /\ op'.sound = op.sound /\ op'.gap = op.gap
  <2>1. op' = [op EXCEPT !.todo = Tail(op.todo)]
    BY DEF Done
  <2>2. op' \in Oper /\ op' # None
    BY <1>1, <2>1, <1>2, OperIs, ClusterConstants
  <2> QED BY <1>1, <1>2, <2>1, <2>2, OperIs, FieldsStay
<1>4. Sounds' /\ Recreated' = Recreated
  BY <1>3 DEF Sounds, Recreated
<1>5. OrderInv'
  BY <1>1, <1>3, <1>4, RestComes DEF OrderInv
<1>6. \A k : ToCome(k)' = Coming(Tail(op.todo), k)
  BY <1>3 DEF ToCome
<1>7. \A k : ToCome(k) = Coming(op.todo, k)
  BY DEF ToCome
<1>8. /\ \A k : k # n => Coming(Tail(op.todo), k) = Coming(op.todo, k)
      /\ n \in Node => Coming(Tail(op.todo), n) = Coming(op.todo, n) \ {what}
      /\ \A k, v : v # what => (v \in Coming(Tail(op.todo), k) <=> v \in Coming(op.todo, k))
      /\ \A k : Coming(Tail(op.todo), k) \cap Onward = {}
  <2> DEFINE h == op.todo[1]
  <2>1. PlanOrder(op.type, op.m, Recreated, op.todo)
    BY DEF OrderInv
  <2>2. /\ \A k : k # h.node => Coming(Tail(op.todo), k) = Coming(op.todo, k)
        /\ h.node \in Node => Coming(Tail(op.todo), h.node) = Coming(op.todo, h.node) \ {h.do}
        /\ \A k, v : v # h.do => (v \in Coming(Tail(op.todo), k) <=> v \in Coming(op.todo, k))
        /\ \A k : Coming(Tail(op.todo), k) \cap Onward = {}
    BY <1>1, <2>1, RestComes, ZenonT(30)
  <2>3. h.node = n /\ h.do = what
    BY <1>1
  <2> HIDE DEF h
  <2> QED BY <2>2, <2>3
<1>9. Carried(n)
  BY <1>3, <1>4, <1>5, <1>6, <1>7, <1>8 DEF Carried
<1> QED BY <1>3, <1>6, <1>7, <1>8, <1>9

\* The step goes on as another one.
LEMMA OnComes ==
  ASSUME TypeOK, OpInv, Sounds, OrderInv, NEW what, NEW n \in Node, At(what, n),
         NEW next \in Onward \cap Doing(op.type), Rank(next) = Rank(what), GoesOn(next)
  PROVE  /\ Carried(n) /\ op'.todo # <<>> /\ Head(op'.todo).node = n
         /\ ToCome(n)' = (ToCome(n) \ {what}) \cup {next}
<1>1. /\ op \in Oper /\ op.todo # <<>> /\ op.todo[1].do = what /\ op.todo[1].node = n
      /\ op.todo \in Seq(Step) /\ op.type \in OpType /\ PlanOK(op.todo, op.type)
  BY AtComes, OperIs DEF OpInv
<1> DEFINE t == [op.todo EXCEPT ![1].do = next]
<1>2. next \in Doing(op.type) \ (Closing \cup {"stub"}) /\ next # "install"
  BY DEF Onward, Closing
<1>3. /\ PlanOK(t, op.type) /\ DOMAIN t = DOMAIN op.todo /\ 1 \in DOMAIN op.todo
      /\ t[1].do = next /\ t[1].node = op.todo[1].node
      /\ \A i \in DOMAIN op.todo : i # 1 => t[i] = op.todo[i]
  BY <1>1, <1>2, PlanOn
<1>4. t \in Seq(Step) /\ t # <<>> /\ Head(t) = t[1]
  <2>1. t \in Seq(Step)
    BY <1>3 DEF PlanOK
  <2> HIDE DEF t
  <2> QED BY <1>3, <2>1
<1>5. op' = [op EXCEPT !.todo = t]
  BY DEF GoesOn
<1> HIDE DEF t
<1>6. /\ op' # None
      /\ op'.todo = t /\ op'.type = op.type /\ op'.m = op.m /\ op'.listed = op.listed
      /\ op'.sound = op.sound /\ op'.gap = op.gap
  <2>1. op' \in Oper /\ op' # None
    BY <1>1, <1>4, <1>5, OperIs, ClusterConstants
  <2> QED BY <1>1, <1>4, <1>5, <2>1, OperIs, FieldsStay
<1>7. Sounds' /\ Recreated' = Recreated
  BY <1>6 DEF Sounds, Recreated
<1>8. /\ PlanOrder(op.type, op.m, Recreated, t)
      /\ \A k : k # op.todo[1].node => Coming(t, k) = Coming(op.todo, k)
      /\ Coming(t, op.todo[1].node) = (Coming(op.todo, op.todo[1].node) \ {op.todo[1].do}) \cup {next}
  BY <1>1, <1>2, <1>3, OnwardComes DEF OrderInv
<1>9. OrderInv'
  BY <1>6, <1>7, <1>8 DEF OrderInv
<1>10. \A k : ToCome(k)' = Coming(t, k)
  BY <1>6 DEF ToCome
<1> QED BY <1>1, <1>3, <1>4, <1>6, <1>7, <1>8, <1>9, <1>10 DEF Carried, ToCome

\* Nothing changes on a node.
SameOn(k) ==
  /\ vm'[k] = vm[k] /\ row'[k] = row[k] /\ k3s'[k] = k3s[k] /\ nodeState'[k] = nodeState[k]
  /\ agent'[k] = agent[k] /\ agentState'[k] = agentState[k]

LEMMA OthersKeep ==
  ASSUME NEW n, Carried(n), Stuck' = Stuck, NEW k \in Node, k # n, SameOn(k)
  PROVE  /\ FilesInv(k) => FilesInv(k)'
         /\ WantedInv(k) => WantedInv(k)'
<1>1. ToCome(k)' = ToCome(k)
  BY DEF Carried
<1>2. Up(k)' = Up(k) /\ Wanted(k)' = Wanted(k)
  BY DEF Up, Runs, Wanted, desiredSizeFor, Carried, SameOn
<1>3. op'.type = op.type /\ op'.m = op.m /\ op'.listed = op.listed
  BY DEF Carried
<1>4. FilesInv(k) => FilesInv(k)'
  BY <1>1, <1>2, <1>3 DEF FilesInv, SameOn
<1>5. WantedInv(k) => WantedInv(k)'
  BY <1>1, <1>2, <1>3 DEF WantedInv, SameOn
<1> QED BY <1>4, <1>5

\* Nodes that an operation has to do with.
LEMMA NodesOfOp ==
  ASSUME TypeOK, OpInv, Sounds
  PROVE  /\ op \in Oper /\ op.m \in Manifest /\ op.type \in {"create", "converge"}
         /\ Wants(op.m) \subseteq Node /\ NodeNames(op.m) \in Seq(Node) /\ IsInjective(NodeNames(op.m))
         /\ \A k \in Node : Wanted(k) \in Size /\ Wanted(k) # None
         /\ None \notin Node
<1>1. op \in Oper /\ op.m \in Manifest /\ op.type \in {"create", "converge"}
  <2>1. op \in Oper
    BY DEF Sounds, TypeOK
  <2> QED BY <2>1, OperIs DEF Sounds, OpInv, OpType
<1>2. NodeNames(op.m) \in Seq(Node) /\ IsInjective(NodeNames(op.m))
  BY <1>1, NamesOf, ChildrenAre
<1>3. Wants(op.m) \subseteq Node
  BY <1>2, Held DEF Wants
<1>4. None \notin Node /\ None \notin Size
  BY ClusterConstants
<1>5. \A k \in Node : Wanted(k) \in Size
  BY <1>1 DEF Wanted, desiredSizeFor, Manifest
<1> QED BY <1>1, <1>2, <1>3, <1>4, <1>5

\* What a step on a node owes to the invariant.
LEMMA NodeOwes ==
  ASSUME TypeOK, OpInv, Sounds, SoundInv, NEW n \in Node, Carried(n),
         upgrade' = upgrade, state' = state, \A k \in Node : k # n => SameOn(k),
         SameCluster', FilesInv(n)', n \in Wants(op.m) => WantedInv(n)'
  PROVE  SoundInv'
<1>1. /\ None \notin Node /\ Wants(op.m) \subseteq Node
      /\ upgrade = None /\ ClosingInv
      /\ \A k \in Node : FilesInv(k)
      /\ \A k \in Wants(op.m) : WantedInv(k)
  BY NodesOfOp DEF SoundInv
<1>2. ToCome(None)' = ToCome(None) /\ Stuck' = Stuck
  BY <1>1 DEF Carried, Stuck
<1>3. op'.m = op.m /\ OrderInv' /\ Wants(op.m)' = Wants(op.m)
  BY DEF Carried
<1>4. ClosingInv'
  BY <1>1, <1>2, <1>3 DEF ClosingInv, Ready
<1>5. \A k \in Node : FilesInv(k)'
  BY <1>1, <1>2, OthersKeep
<1>6. \A k \in Wants(op.m) : WantedInv(k)'
  BY <1>1, <1>2, OthersKeep
<1> QED BY <1>1, <1>3, <1>4, <1>5, <1>6 DEF SoundInv

\* Removing k3s keeps to one cluster, and so does a step that leaves it alone.
LEMMA ClusterStays ==
  ASSUME SameCluster, op'.type = op.type, \A k \in Node : k3s'[k] = k3s[k]
  PROVE  SameCluster'
<1>1. CPs[1] \in Node
  BY ClusterConstants
<1> QED BY <1>1 DEF SameCluster

\* At a step of a node, and after it.
LEMMA StepOn ==
  ASSUME TypeOK, OpInv, Sounds, SoundInv, NEW n \in Node, NEW what, At(what, n)
  PROVE  /\ what \in ToCome(n) /\ what \in Doing(op.type) /\ op.type \in {"create", "converge"}
         /\ \A v \in ToCome(n) : v = what \/ (Rank(what) < Rank(v) /\ v \notin Onward)
         /\ OrderInv /\ SameCluster /\ FilesInv(n) /\ (n \in Wants(op.m) => WantedInv(n))
         /\ Wanted(n) \in Size /\ Wanted(n) # None
         /\ vm[n] \in VM \cup {None} /\ k3s[n] \in K3s \cup {None} /\ nodeState[n] \in Nat
         /\ (k3s[n] # None \/ agent[n] => vm[n] # None)
<1>1. OrderInv /\ SameCluster /\ FilesInv(n) /\ (n \in Wants(op.m) => WantedInv(n))
  BY DEF SoundInv
<1>2. /\ what \in ToCome(n) /\ what \in Doing(op.type)
      /\ \A v \in ToCome(n) : v = what \/ Rank(what) < Rank(v)
      /\ \A v \in ToCome(n) \cap Onward : v = what
  BY <1>1, AtComes
<1>3. op.type \in {"create", "converge"} /\ Wanted(n) \in Size /\ Wanted(n) # None
  BY NodesOfOp
<1>4. /\ vm[n] \in VM \cup {None} /\ k3s[n] \in K3s \cup {None} /\ nodeState[n] \in Nat
      /\ (k3s[n] # None \/ agent[n] => vm[n] # None)
  BY DEF TypeOK, VMTypeOK
<1> QED BY <1>1, <1>2, <1>3, <1>4

LEMMA DoneOn ==
  ASSUME TypeOK, OpInv, Sounds, SoundInv, NEW n \in Node, NEW what, At(what, n), Done
  PROVE  /\ Carried(n) /\ ToCome(n)' = ToCome(n) \ {what} /\ Stuck' = Stuck
         /\ op'.type = op.type /\ op'.m = op.m /\ op'.listed = op.listed /\ Wanted(n)' = Wanted(n)
<1>1. OrderInv /\ None \notin Node
  BY NodesOfOp DEF SoundInv
<1>2. Carried(n) /\ ToCome(n)' = ToCome(n) \ {what}
  BY <1>1, DoneComes
<1>3. op'.type = op.type /\ op'.m = op.m /\ op'.listed = op.listed /\ ToCome(None)' = ToCome(None)
  BY <1>1, <1>2 DEF Carried
<1> QED BY <1>2, <1>3 DEF Stuck, Wanted, desiredSizeFor

LEMMA GoneOn ==
  ASSUME TypeOK, OpInv, Sounds, SoundInv, NEW n \in Node, NEW what, At(what, n),
         NEW next \in Onward, Rank(next) = Rank(what), next \in Doing(op.type), GoesOn(next)
  PROVE  /\ Carried(n) /\ ToCome(n)' = (ToCome(n) \ {what}) \cup {next} /\ Stuck' = Stuck
         /\ op'.type = op.type /\ op'.m = op.m /\ op'.listed = op.listed /\ Wanted(n)' = Wanted(n)
<1>1. OrderInv /\ None \notin Node
  BY NodesOfOp DEF SoundInv
<1>2. Carried(n) /\ ToCome(n)' = (ToCome(n) \ {what}) \cup {next}
  BY <1>1, OnComes
<1>3. op'.type = op.type /\ op'.m = op.m /\ op'.listed = op.listed /\ ToCome(None)' = ToCome(None)
  BY <1>1, <1>2 DEF Carried
<1> QED BY <1>2, <1>3 DEF Stuck, Wanted, desiredSizeFor

\* The steps on a VM.
LEMMA VMCachedSound ==
  ASSUME TypeOK, OpInv, Sounds, SoundInv, NEW n \in Node, VMCached(n)
  PROVE  SoundInv'
<1>1. At("vm", n) /\ Done /\ row[n] = Wanted(n) /\ vm[n] # None /\ UNCHANGED <<upgrade, state>>
      /\ \A k \in Node : SameOn(k)
  BY DEF VMCached, CacheHit, SameOn, vmVars, nodeVars
<1>2. /\ \A v \in ToCome(n) : v = "vm" \/ (Rank("vm") < Rank(v) /\ v \notin Onward)
      /\ SameCluster /\ FilesInv(n) /\ (n \in Wants(op.m) => WantedInv(n)) /\ "vm" \in ToCome(n)
      /\ Wanted(n) # None
  BY <1>1, StepOn
<1>3. /\ Carried(n) /\ ToCome(n)' = ToCome(n) \ {"vm"} /\ Stuck' = Stuck
      /\ op'.type = op.type /\ op'.m = op.m /\ op'.listed = op.listed /\ Wanted(n)' = Wanted(n)
  BY <1>1, DoneOn
<1>4. Up(n)' = Up(n) /\ SameCluster'
  BY <1>1, <1>2, <1>3, ClusterStays DEF Up, Runs, SameOn
<1>5. FilesInv(n)'
  BY <1>1, <1>2, <1>3, <1>4 DEF FilesInv, SameOn, Destroys
<1>6. n \in Wants(op.m) => WantedInv(n)'
  <2>1. ToCome(n) \cap Destroys = {}
    BY <1>2 DEF Rank, Destroys
  <2> QED BY <1>1, <1>2, <1>3, <2>1 DEF FilesInv, WantedInv, SameOn
<1> QED BY <1>1, <1>3, <1>4, <1>5, <1>6, NodeOwes

LEMMA VMCreatedSound ==
  ASSUME TypeOK, OpInv, Sounds, SoundInv, NEW n \in Node, VMCreated(n)
  PROVE  SoundInv'
<1>1. /\ At("vm", n) /\ GoesOn("start") /\ UNCHANGED <<upgrade, state, nodeVars, row>>
      /\ vm[n] = None /\ vm' = [vm EXCEPT ![n] = [size |-> Wanted(n), on |-> FALSE]]
  BY DEF VMCreated, createVM
<1>2. /\ \A v \in ToCome(n) : v = "vm" \/ (Rank("vm") < Rank(v) /\ v \notin Onward)
      /\ SameCluster /\ FilesInv(n) /\ (n \in Wants(op.m) => WantedInv(n)) /\ "vm" \in ToCome(n)
      /\ k3s[n] = None /\ ~agent[n] /\ "vm" \in Doing(op.type) /\ op.type \in {"create", "converge"}
  BY <1>1, StepOn
<1>3. /\ Carried(n) /\ ToCome(n)' = (ToCome(n) \ {"vm"}) \cup {"start"} /\ Stuck' = Stuck
      /\ op'.type = op.type /\ op'.m = op.m /\ op'.listed = op.listed /\ Wanted(n)' = Wanted(n)
  <2>1. "start" \in Onward /\ "start" \in Doing(op.type) /\ Rank("start") = Rank("vm")
    BY <1>2, OnwardIs DEF Onward, OpType, Rank
  <2> QED BY <1>1, <2>1, GoneOn
<1>4. /\ vm'[n] = [size |-> Wanted(n), on |-> FALSE] /\ vm'[n] # None
      /\ \A k \in Node : k # n => SameOn(k)
  <2>1. vm \in [Node -> VM \cup {None}] /\ [size |-> Wanted(n), on |-> FALSE] \in VM
    BY <1>1, StepOn DEF TypeOK, VMTypeOK, VM
  <2>2. vm'[n] = [size |-> Wanted(n), on |-> FALSE] /\ \A k \in Node : k # n => vm'[k] = vm[k]
    BY <1>1, <2>1
  <2>3. None \notin VM
    BY ClusterConstants
  <2> QED BY <1>1, <2>1, <2>2, <2>3 DEF SameOn, nodeVars
<1>5. SameCluster'
  BY <1>1, <1>2, <1>3, ClusterStays DEF nodeVars
<1>6. nodeState[n] = 0 /\ ~agentState[n]
  BY <1>2 DEF FilesInv, Up, Rank, Onward
<1>7. FilesInv(n)'
  <2>1. ToCome(n) \cap Destroys = {}
    BY <1>2 DEF Rank, Destroys
  <2> QED BY <1>1, <1>2, <1>3, <1>6, <2>1 DEF FilesInv, Destroys, nodeVars, Onward
<1>8. n \in Wants(op.m) => WantedInv(n)'
  <2>1. ToCome(n)' \cap Destroys = {}
    BY <1>2, <1>3 DEF Rank, Destroys
  <2> QED BY <1>1, <1>2, <1>3, <1>4, <2>1 DEF WantedInv, nodeVars
<1> QED BY <1>1, <1>3, <1>4, <1>5, <1>7, <1>8, NodeOwes

LEMMA VMResizedSound ==
  ASSUME TypeOK, OpInv, Sounds, SoundInv, NEW n \in Node, VMResized(n)
  PROVE  SoundInv'
<1>1. /\ At("vm", n) /\ GoesOn("row") /\ UNCHANGED <<upgrade, state, nodeVars, row>>
      /\ vm[n] # None /\ vm' = [vm EXCEPT ![n].size = Wanted(n)]
  BY DEF VMResized, resizeVM
<1>2. /\ \A v \in ToCome(n) : v = "vm" \/ (Rank("vm") < Rank(v) /\ v \notin Onward)
      /\ SameCluster /\ FilesInv(n) /\ (n \in Wants(op.m) => WantedInv(n)) /\ "vm" \in ToCome(n)
      /\ "vm" \in Doing(op.type) /\ op.type \in {"create", "converge"}
  BY <1>1, StepOn
<1>3. /\ Carried(n) /\ ToCome(n)' = (ToCome(n) \ {"vm"}) \cup {"row"} /\ Stuck' = Stuck
      /\ op'.type = op.type /\ op'.m = op.m /\ op'.listed = op.listed /\ Wanted(n)' = Wanted(n)
  <2>1. "row" \in Onward /\ "row" \in Doing(op.type) /\ Rank("row") = Rank("vm")
    BY <1>2, OnwardIs DEF Onward, OpType, Rank
  <2> QED BY <1>1, <2>1, GoneOn
<1>4. /\ vm'[n].size = Wanted(n) /\ vm'[n].on = vm[n].on /\ vm'[n] # None
      /\ \A k \in Node : k # n => SameOn(k)
  <2>1. vm \in [Node -> VM \cup {None}] /\ vm[n] \in VM /\ Wanted(n) \in Size /\ None \notin VM
    BY <1>1, StepOn, ClusterConstants DEF TypeOK, VMTypeOK
  <2>2. vm'[n] = [vm[n] EXCEPT !.size = Wanted(n)] /\ \A k \in Node : k # n => vm'[k] = vm[k]
    BY <1>1, <2>1
  <2>3. vm'[n] \in VM /\ vm'[n].size = Wanted(n) /\ vm'[n].on = vm[n].on
    BY <2>1, <2>2 DEF VM
  <2> QED BY <1>1, <2>1, <2>2, <2>3 DEF SameOn, nodeVars
<1>5. SameCluster' /\ Up(n)' = Up(n)
  BY <1>1, <1>2, <1>3, <1>4, ClusterStays DEF nodeVars, Up, Runs
<1>6. ToCome(n) \cap Destroys = {}
  BY <1>2 DEF Rank, Destroys
<1>7. FilesInv(n)'
  BY <1>1, <1>2, <1>3, <1>5, <1>6 DEF FilesInv, Destroys, nodeVars, Onward
<1>8. n \in Wants(op.m) => WantedInv(n)'
  <2>1. ToCome(n)' \cap Destroys = {}
    BY <1>3, <1>6 DEF Destroys
  <2> QED BY <1>1, <1>2, <1>3, <1>4, <2>1 DEF WantedInv, nodeVars
<1> QED BY <1>1, <1>3, <1>4, <1>5, <1>7, <1>8, NodeOwes

LEMMA VMStartedSound ==
  ASSUME TypeOK, OpInv, Sounds, SoundInv, NEW n \in Node, VMStarted(n)
  PROVE  SoundInv'
<1>1. /\ At("start", n) /\ GoesOn("row") /\ UNCHANGED <<upgrade, state, nodeVars, row>>
      /\ vm[n] # None /\ vm' = [vm EXCEPT ![n].on = TRUE]
  BY DEF VMStarted, StartVM
<1>2. /\ \A v \in ToCome(n) : v = "start" \/ (Rank("start") < Rank(v) /\ v \notin Onward)
      /\ SameCluster /\ FilesInv(n) /\ (n \in Wants(op.m) => WantedInv(n)) /\ "start" \in ToCome(n)
      /\ "start" \in Doing(op.type) /\ op.type \in {"create", "converge"}
  BY <1>1, StepOn
<1>3. /\ Carried(n) /\ ToCome(n)' = (ToCome(n) \ {"start"}) \cup {"row"} /\ Stuck' = Stuck
      /\ op'.type = op.type /\ op'.m = op.m /\ op'.listed = op.listed /\ Wanted(n)' = Wanted(n)
  <2>1. "row" \in Onward /\ "row" \in Doing(op.type) /\ Rank("row") = Rank("start")
    BY <1>2, OnwardIs DEF Onward, OpType, Rank
  <2> QED BY <1>1, <2>1, GoneOn
<1>4. /\ vm'[n].size = vm[n].size /\ vm'[n].on /\ vm'[n] # None
      /\ \A k \in Node : k # n => SameOn(k)
  <2>1. vm \in [Node -> VM \cup {None}] /\ vm[n] \in VM /\ None \notin VM
    BY <1>1, StepOn, ClusterConstants DEF TypeOK, VMTypeOK
  <2>2. vm'[n] = [vm[n] EXCEPT !.on = TRUE] /\ \A k \in Node : k # n => vm'[k] = vm[k]
    BY <1>1, <2>1
  <2>3. vm'[n] \in VM /\ vm'[n].size = vm[n].size /\ vm'[n].on
    BY <2>1, <2>2 DEF VM
  <2> QED BY <1>1, <2>1, <2>2, <2>3 DEF SameOn, nodeVars
<1>5. SameCluster' /\ (Up(n) => Up(n)')
  BY <1>1, <1>2, <1>3, <1>4, ClusterStays DEF nodeVars, Up, Runs
<1>6. ToCome(n) \cap Destroys = {} /\ "vm" \notin ToCome(n) /\ "row" \notin ToCome(n)
  BY <1>2 DEF Rank, Destroys
<1>7. FilesInv(n)'
  BY <1>1, <1>2, <1>3, <1>5, <1>6 DEF FilesInv, Destroys, nodeVars, Onward
<1>8. n \in Wants(op.m) => WantedInv(n)'
  <2>1. ToCome(n)' \cap Destroys = {}
    BY <1>3, <1>6 DEF Destroys
  <2> QED BY <1>1, <1>2, <1>3, <1>4, <1>6, <2>1 DEF WantedInv, nodeVars
<1> QED BY <1>1, <1>3, <1>4, <1>5, <1>7, <1>8, NodeOwes

LEMMA VMSavedSound ==
  ASSUME TypeOK, OpInv, Sounds, SoundInv, NEW n \in Node, VMSaved(n)
  PROVE  SoundInv'
<1>1. /\ At("row", n) /\ Done /\ UNCHANGED <<upgrade, state, nodeVars, vm>>
      /\ row' = row \/ row' = [row EXCEPT ![n] = Wanted(n)]
  BY DEF VMSaved, SaveRow, vmVars
<1>2. /\ \A v \in ToCome(n) : v = "row" \/ (Rank("row") < Rank(v) /\ v \notin Onward)
      /\ SameCluster /\ FilesInv(n) /\ (n \in Wants(op.m) => WantedInv(n)) /\ "row" \in ToCome(n)
  BY <1>1, StepOn
<1>3. /\ Carried(n) /\ ToCome(n)' = ToCome(n) \ {"row"} /\ Stuck' = Stuck
      /\ op'.type = op.type /\ op'.m = op.m /\ op'.listed = op.listed /\ Wanted(n)' = Wanted(n)
  BY <1>1, DoneOn
<1>4. \A k \in Node : k # n => SameOn(k)
  <2>1. row \in [Node -> Size \cup {None}]
    BY DEF TypeOK, VMTypeOK
  <2> QED BY <1>1, <2>1 DEF SameOn, nodeVars
<1>5. SameCluster' /\ Up(n)' = Up(n)
  BY <1>1, <1>2, <1>3, ClusterStays DEF nodeVars, Up, Runs
<1>6. ToCome(n) \cap Destroys = {} /\ "vm" \notin ToCome(n)
  BY <1>2 DEF Rank, Destroys
<1>7. FilesInv(n)'
  BY <1>1, <1>2, <1>3, <1>5, <1>6 DEF FilesInv, Destroys, nodeVars, Onward
<1>8. n \in Wants(op.m) => WantedInv(n)'
  BY <1>1, <1>2, <1>3, <1>6 DEF WantedInv, nodeVars
<1> QED BY <1>1, <1>3, <1>4, <1>5, <1>7, <1>8, NodeOwes

\* The steps on k3s.
LEMMA AlreadyInstalledSound ==
  ASSUME TypeOK, OpInv, Sounds, SoundInv, NEW n \in Node, AlreadyInstalled(n)
  PROVE  SoundInv'
<1>1. /\ At("install", n) /\ Done /\ nodeState[n] # 0 /\ UNCHANGED <<upgrade, state, nodeVars, vmVars>>
      /\ \A k \in Node : SameOn(k)
  BY DEF AlreadyInstalled, SameOn, vmVars, nodeVars
<1>2. /\ \A v \in ToCome(n) : v = "install" \/ (Rank("install") < Rank(v) /\ v \notin Onward)
      /\ SameCluster /\ FilesInv(n) /\ (n \in Wants(op.m) => WantedInv(n)) /\ "install" \in ToCome(n)
  BY <1>1, StepOn
<1>3. /\ Carried(n) /\ ToCome(n)' = ToCome(n) \ {"install"} /\ Stuck' = Stuck
      /\ op'.type = op.type /\ op'.m = op.m /\ op'.listed = op.listed /\ Wanted(n)' = Wanted(n)
  BY <1>1, DoneOn
<1>4. SameCluster' /\ Up(n)' = Up(n)
  BY <1>1, <1>2, <1>3, ClusterStays DEF nodeVars, vmVars, Up, Runs
<1>5. ToCome(n) \cap Destroys = {} /\ "vm" \notin ToCome(n)
  BY <1>2 DEF Rank, Destroys
<1>6. FilesInv(n)'
  BY <1>1, <1>2, <1>3, <1>4, <1>5 DEF FilesInv, Destroys, nodeVars, vmVars, Onward
<1>7. n \in Wants(op.m) => WantedInv(n)'
  BY <1>1, <1>2, <1>3, <1>5 DEF WantedInv, nodeVars, vmVars
<1> QED BY <1>1, <1>3, <1>4, <1>6, <1>7, NodeOwes

\* An install that gives its node the cluster of the others.
LEMMA InstallsSound ==
  ASSUME TypeOK, OpInv, Sounds, SoundInv, NEW n \in Node, NEW g \in Nat, Installs(n, g),
         \/ \A k \in Node : k3s[k] = None
         \/ k3s[n] # None
         \/ \E c \in Node : k3s[c] # None /\ k3s[c].gen = g,
         op.type = "create" /\ k3s[CPs[1]] = None => n = CPs[1]
  PROVE  SoundInv'
<1>1. /\ At("install", n) /\ GoesOn("installed") /\ nodeState[n] = 0 /\ Runs(n)
      /\ UNCHANGED <<upgrade, state, vm, row, nodeState, agent, agentState>>
      /\ k3s' = [k3s EXCEPT ![n] = [gen |-> IF @ = None THEN g ELSE @.gen, ver |-> 1, up |-> TRUE]]
  BY DEF Installs, vmVars
<1>2. /\ \A v \in ToCome(n) : v = "install" \/ (Rank("install") < Rank(v) /\ v \notin Onward)
      /\ SameCluster /\ FilesInv(n) /\ (n \in Wants(op.m) => WantedInv(n)) /\ "install" \in ToCome(n)
      /\ "install" \in Doing(op.type) /\ op.type \in {"create", "converge"}
      /\ k3s[n] \in K3s \cup {None}
  BY <1>1, StepOn
<1>3. /\ Carried(n) /\ ToCome(n)' = (ToCome(n) \ {"install"}) \cup {"installed"} /\ Stuck' = Stuck
      /\ op'.type = op.type /\ op'.m = op.m /\ op'.listed = op.listed /\ Wanted(n)' = Wanted(n)
  <2>1. "installed" \in Onward /\ "installed" \in Doing(op.type) /\ Rank("installed") = Rank("install")
    BY <1>2, OnwardIs DEF Onward, OpType, Rank
  <2> QED BY <1>1, <2>1, GoneOn
<1>4. /\ k3s'[n] # None /\ k3s'[n].up /\ k3s'[n].gen = IF k3s[n] = None THEN g ELSE k3s[n].gen
      /\ \A k \in Node : k # n => SameOn(k) /\ k3s'[k] = k3s[k]
  <2> DEFINE h == IF k3s[n] = None THEN g ELSE k3s[n].gen
  <2>1. k3s \in [Node -> K3s \cup {None}] /\ None \notin K3s /\ h \in Nat
    BY <1>2, ClusterConstants DEF TypeOK, K3s
  <2>2. k3s'[n] = [gen |-> h, ver |-> 1, up |-> TRUE] /\ \A k \in Node : k # n => k3s'[k] = k3s[k]
    BY <1>1, <2>1
  <2>3. [gen |-> h, ver |-> 1, up |-> TRUE] \in K3s
    BY <2>1 DEF K3s, Version
  <2> QED BY <1>1, <2>1, <2>2, <2>3 DEF SameOn
<1>5. SameCluster'
  <2>1. \A k \in Node : k # n /\ k3s[k] # None => k3s'[n].gen = k3s[k].gen
    BY <1>2, <1>4 DEF SameCluster
  <2>2. \A i, k \in Node : k3s'[i] # None /\ k3s'[k] # None => k3s'[i].gen = k3s'[k].gen
    BY <1>2, <1>4, <2>1 DEF SameCluster
  <2>3. CPs[1] \in Node
    BY ClusterConstants
  <2>4. op.type = "create" /\ k3s'[CPs[1]] = None => \A k \in Node : k3s'[k] = None
    BY <1>2, <1>4, <2>3 DEF SameCluster
  <2> QED BY <1>3, <2>2, <2>4 DEF SameCluster
<1>6. Up(n)'
  BY <1>1, <1>4 DEF Up, Runs
<1>7. ToCome(n) \cap Destroys = {} /\ "vm" \notin ToCome(n)
  BY <1>2 DEF Rank, Destroys
<1>8. FilesInv(n)'
  BY <1>1, <1>2, <1>3, <1>6, <1>7 DEF FilesInv, Destroys, Onward
<1>9. n \in Wants(op.m) => WantedInv(n)'
  <2>1. ToCome(n)' \cap Destroys = {}
    BY <1>3, <1>7 DEF Destroys
  <2> QED BY <1>1, <1>2, <1>3, <1>7, <2>1 DEF WantedInv
<1> QED BY <1>1, <1>3, <1>4, <1>5, <1>8, <1>9, NodeOwes

LEMMA InstallFirstSound ==
  ASSUME TypeOK, OpInv, Sounds, SoundInv, NEW n \in Node, InstallFirst(n)
  PROVE  SoundInv'
<1>1. Installs(n, gen + 1) /\ Join = None /\ At("install", n) /\ gen + 1 \in Nat
  BY DEF InstallFirst, Installs, TypeOK
<1>2. op.type = "create" /\ n = CPs[1]
  <2>1. /\ 1 \in DOMAIN op.todo /\ op.todo[1].do = "install" /\ op.todo[1].node = n
        /\ Head(op.todo) = op.todo[1] /\ OrderInv
    BY <1>1, AtComes, AtIs DEF SoundInv
  <2> QED BY <1>1, <2>1 DEF OrderInv, PlanOrder, Join
<1>3. SameCluster
  BY DEF SoundInv
<1> QED BY <1>1, <1>2, <1>3, InstallsSound DEF SameCluster

LEMMA InstallJoiningSound ==
  ASSUME TypeOK, OpInv, Sounds, SoundInv, NEW n \in Node, InstallJoining(n)
  PROVE  SoundInv'
<1>1. Installs(n, k3s[Join].gen) /\ Join # None /\ At("install", n) /\ k3s[Join] # None
  BY DEF InstallJoining, Installs, Joinable, Up
<1>2. Join \in Node
  <2>1. /\ op.todo \in Seq(Step) /\ op.todo # <<>> /\ Head(op.todo) = op.todo[1] /\ 1 \in DOMAIN op.todo
    BY <1>1, AtComes, AtIs DEF SoundInv
  <2>2. op.todo[1] \in Step
    BY <2>1
  <2> QED BY <1>1, <2>1, <2>2 DEF Step, Join
<1>3. k3s[Join].gen \in Nat
  BY <1>1, <1>2 DEF TypeOK, K3s
<1>4. SameCluster
  BY DEF SoundInv
<1> QED BY <1>1, <1>2, <1>3, <1>4, InstallsSound DEF SameCluster

LEMMA NodeSavedSound ==
  ASSUME TypeOK, OpInv, Sounds, SoundInv, NEW n \in Node, NodeSaved(n)
  PROVE  SoundInv'
<1>1. /\ At("installed", n) /\ Done /\ UNCHANGED <<upgrade, state, vm, row, k3s, agent, agentState>>
      /\ nodeState' = [nodeState EXCEPT ![n] = k3s[n].gen] /\ k3s[n] # None
  BY DEF NodeSaved, vmVars
<1>2. /\ \A v \in ToCome(n) : v = "installed" \/ (Rank("installed") < Rank(v) /\ v \notin Onward)
      /\ SameCluster /\ FilesInv(n) /\ (n \in Wants(op.m) => WantedInv(n)) /\ "installed" \in ToCome(n)
  BY <1>1, StepOn
<1>3. /\ Carried(n) /\ ToCome(n)' = ToCome(n) \ {"installed"} /\ Stuck' = Stuck
      /\ op'.type = op.type /\ op'.m = op.m /\ op'.listed = op.listed /\ Wanted(n)' = Wanted(n)
  BY <1>1, DoneOn
<1>4. /\ nodeState'[n] = k3s[n].gen /\ nodeState'[n] # 0
      /\ \A k \in Node : k # n => SameOn(k)
  <2>1. nodeState \in [Node -> Nat] /\ k3s[n].gen \in 1..gen /\ gen \in Nat
    BY <1>1 DEF TypeOK
  <2> QED BY <1>1, <2>1 DEF SameOn
<1>5. SameCluster' /\ Up(n)' = Up(n)
  BY <1>1, <1>2, <1>3, ClusterStays DEF Up, Runs
<1>6. ToCome(n) \cap Destroys = {} /\ "vm" \notin ToCome(n)
  BY <1>2 DEF Rank, Destroys
<1>7. FilesInv(n)'
  BY <1>1, <1>2, <1>3, <1>4, <1>5, <1>6 DEF FilesInv, Destroys, Onward
<1>8. n \in Wants(op.m) => WantedInv(n)'
  BY <1>1, <1>2, <1>3, <1>4, <1>6 DEF WantedInv
<1> QED BY <1>1, <1>3, <1>4, <1>5, <1>7, <1>8, NodeOwes

\* The steps on the agent.
LEMMA AgentAlreadySound ==
  ASSUME TypeOK, OpInv, Sounds, SoundInv, NEW n \in Node, AgentAlready(n)
  PROVE  SoundInv'
<1>1. /\ At("agent", n) /\ Done /\ agentState[n] /\ UNCHANGED <<upgrade, state, nodeVars, vmVars>>
      /\ \A k \in Node : SameOn(k)
  BY DEF AgentAlready, SameOn, vmVars, nodeVars
<1>2. /\ \A v \in ToCome(n) : v = "agent" \/ (Rank("agent") < Rank(v) /\ v \notin Onward)
      /\ SameCluster /\ FilesInv(n) /\ (n \in Wants(op.m) => WantedInv(n)) /\ "agent" \in ToCome(n)
  BY <1>1, StepOn
<1>3. /\ Carried(n) /\ ToCome(n)' = ToCome(n) \ {"agent"} /\ Stuck' = Stuck
      /\ op'.type = op.type /\ op'.m = op.m /\ op'.listed = op.listed /\ Wanted(n)' = Wanted(n)
  BY <1>1, DoneOn
<1>4. SameCluster' /\ Up(n)' = Up(n)
  BY <1>1, <1>2, <1>3, ClusterStays DEF nodeVars, vmVars, Up, Runs
<1>5. ToCome(n) = {"agent"}
  BY <1>2 DEF Rank
<1>6. FilesInv(n)'
  BY <1>1, <1>2, <1>3, <1>4, <1>5 DEF FilesInv, Destroys, nodeVars, vmVars
<1>7. n \in Wants(op.m) => WantedInv(n)'
  BY <1>1, <1>2, <1>3, <1>5 DEF FilesInv, WantedInv, nodeVars, vmVars, Destroys
<1> QED BY <1>1, <1>3, <1>4, <1>6, <1>7, NodeOwes

LEMMA AgentInstalledSound ==
  ASSUME TypeOK, OpInv, Sounds, SoundInv, NEW n \in Node, AgentInstalled(n)
  PROVE  SoundInv'
<1>1. /\ At("agent", n) /\ GoesOn("agentInstalled")
      /\ UNCHANGED <<upgrade, state, vm, row, k3s, nodeState, agentState>>
      /\ agent' = [agent EXCEPT ![n] = TRUE]
  BY DEF AgentInstalled, vmVars
<1>2. /\ \A v \in ToCome(n) : v = "agent" \/ (Rank("agent") < Rank(v) /\ v \notin Onward)
      /\ SameCluster /\ FilesInv(n) /\ (n \in Wants(op.m) => WantedInv(n)) /\ "agent" \in ToCome(n)
      /\ "agent" \in Doing(op.type) /\ op.type \in {"create", "converge"}
  BY <1>1, StepOn
<1>3. /\ Carried(n) /\ ToCome(n)' = (ToCome(n) \ {"agent"}) \cup {"agentInstalled"} /\ Stuck' = Stuck
      /\ op'.type = op.type /\ op'.m = op.m /\ op'.listed = op.listed /\ Wanted(n)' = Wanted(n)
  <2>1. /\ "agentInstalled" \in Onward /\ "agentInstalled" \in Doing(op.type)
        /\ Rank("agentInstalled") = Rank("agent")
    BY <1>2, OnwardIs DEF Onward, OpType, Rank
  <2> QED BY <1>1, <2>1, GoneOn
<1>4. agent'[n] /\ \A k \in Node : k # n => SameOn(k)
  <2>1. agent \in [Node -> BOOLEAN]
    BY DEF TypeOK
  <2> QED BY <1>1, <2>1 DEF SameOn
<1>5. SameCluster' /\ Up(n)' = Up(n)
  BY <1>1, <1>2, <1>3, ClusterStays DEF Up, Runs
<1>6. ToCome(n) = {"agent"}
  BY <1>2 DEF Rank
<1>7. FilesInv(n)'
  BY <1>1, <1>2, <1>3, <1>4, <1>5, <1>6 DEF FilesInv, Destroys
<1>8. n \in Wants(op.m) => WantedInv(n)'
  BY <1>1, <1>2, <1>3, <1>4, <1>6 DEF WantedInv, Destroys
<1> QED BY <1>1, <1>3, <1>4, <1>5, <1>7, <1>8, NodeOwes

LEMMA AgentSavedSound ==
  ASSUME TypeOK, OpInv, Sounds, SoundInv, NEW n \in Node, AgentSaved(n)
  PROVE  SoundInv'
<1>1. /\ At("agentInstalled", n) /\ Done
      /\ UNCHANGED <<upgrade, state, vm, row, k3s, nodeState, agent>>
      /\ agentState' = [agentState EXCEPT ![n] = TRUE]
  BY DEF AgentSaved, vmVars
<1>2. /\ \A v \in ToCome(n) : v = "agentInstalled" \/ (Rank("agentInstalled") < Rank(v) /\ v \notin Onward)
      /\ SameCluster /\ FilesInv(n) /\ (n \in Wants(op.m) => WantedInv(n))
      /\ "agentInstalled" \in ToCome(n)
  BY <1>1, StepOn
<1>3. /\ Carried(n) /\ ToCome(n)' = ToCome(n) \ {"agentInstalled"} /\ Stuck' = Stuck
      /\ op'.type = op.type /\ op'.m = op.m /\ op'.listed = op.listed /\ Wanted(n)' = Wanted(n)
  BY <1>1, DoneOn
<1>4. \A k \in Node : k # n => SameOn(k)
  <2>1. agentState \in [Node -> BOOLEAN]
    BY DEF TypeOK
  <2> QED BY <1>1, <2>1 DEF SameOn
<1>5. SameCluster' /\ Up(n)' = Up(n)
  BY <1>1, <1>2, <1>3, ClusterStays DEF Up, Runs
<1>6. ToCome(n) = {"agentInstalled"}
  BY <1>2 DEF Rank
<1>7. FilesInv(n)'
  BY <1>1, <1>2, <1>3, <1>5, <1>6 DEF FilesInv, Destroys
<1>8. n \in Wants(op.m) => WantedInv(n)'
  BY <1>1, <1>2, <1>3, <1>6 DEF FilesInv, WantedInv, Destroys
<1> QED BY <1>1, <1>3, <1>4, <1>5, <1>7, <1>8, NodeOwes

\* The steps that remove a node.
LEMMA NothingSound ==
  ASSUME TypeOK, OpInv, Sounds, SoundInv, NEW n \in Node, NothingToRemove(n)
  PROVE  SoundInv'
<1> SUFFICES ASSUME NEW w \in {"delAgent", "delNode"}, At(w, n), Done,
                    w = "delAgent" => ~agentState[n], w = "delNode" => nodeState[n] = 0,
                    UNCHANGED <<upgrade, state, nodeVars, vmVars>>
             PROVE  SoundInv'
  BY DEF NothingToRemove
<1>1. \A k \in Node : SameOn(k)
  BY DEF SameOn, vmVars, nodeVars
<1>2. /\ \A v \in ToCome(n) : v = w \/ (Rank(w) < Rank(v) /\ v \notin Onward)
      /\ SameCluster /\ FilesInv(n) /\ (n \in Wants(op.m) => WantedInv(n)) /\ w \in ToCome(n)
  BY StepOn
<1>3. /\ Carried(n) /\ ToCome(n)' = ToCome(n) \ {w} /\ Stuck' = Stuck
      /\ op'.type = op.type /\ op'.m = op.m /\ op'.listed = op.listed /\ Wanted(n)' = Wanted(n)
  BY DoneOn
<1>4. SameCluster' /\ Up(n)' = Up(n)
  BY <1>2, <1>3, ClusterStays DEF nodeVars, vmVars, Up, Runs
<1>5. FilesInv(n)'
  <2>1. CASE w = "delAgent"
    BY <1>2, <1>3, <1>4, <2>1 DEF FilesInv, Destroys, nodeVars, vmVars
  <2>2. CASE w = "delNode"
    BY <1>2, <1>3, <1>4, <2>2 DEF FilesInv, Destroys, nodeVars, vmVars
  <2> QED BY <2>1, <2>2
<1>6. n \in Wants(op.m) => WantedInv(n)'
  BY <1>2, <1>3 DEF WantedInv, nodeVars, vmVars, Destroys
<1> QED BY <1>1, <1>3, <1>4, <1>5, <1>6, NodeOwes

LEMMA AgentUninstalledSound ==
  ASSUME TypeOK, OpInv, Sounds, SoundInv, NEW n \in Node, AgentUninstalled(n)
  PROVE  SoundInv'
<1>1. /\ At("delAgent", n) /\ GoesOn("agentFile")
      /\ UNCHANGED <<upgrade, state, vm, row, k3s, nodeState, agentState>>
      /\ \E b : agent' = [agent EXCEPT ![n] = b]
  BY DEF AgentUninstalled, vmVars
<1>2. /\ \A v \in ToCome(n) : v = "delAgent" \/ (Rank("delAgent") < Rank(v) /\ v \notin Onward)
      /\ SameCluster /\ FilesInv(n) /\ (n \in Wants(op.m) => WantedInv(n)) /\ "delAgent" \in ToCome(n)
      /\ "delAgent" \in Doing(op.type) /\ op.type \in {"create", "converge"}
  BY <1>1, StepOn
<1>3. /\ Carried(n) /\ ToCome(n)' = (ToCome(n) \ {"delAgent"}) \cup {"agentFile"} /\ Stuck' = Stuck
      /\ op'.type = op.type /\ op'.m = op.m /\ op'.listed = op.listed /\ Wanted(n)' = Wanted(n)
  <2>1. /\ "agentFile" \in Onward /\ "agentFile" \in Doing(op.type)
        /\ Rank("agentFile") = Rank("delAgent")
    BY <1>2, OnwardIs DEF Onward, OpType, Rank
  <2> QED BY <1>1, <2>1, GoneOn
<1>4. \A k \in Node : k # n => SameOn(k)
  <2>1. agent \in [Node -> BOOLEAN]
    BY DEF TypeOK
  <2> QED BY <1>1, <2>1 DEF SameOn
<1>5. SameCluster' /\ Up(n)' = Up(n)
  BY <1>1, <1>2, <1>3, ClusterStays DEF Up, Runs
<1>6. FilesInv(n)'
  BY <1>1, <1>2, <1>3, <1>5 DEF FilesInv, Destroys, Onward
<1>7. n \in Wants(op.m) => WantedInv(n)'
  BY <1>1, <1>2, <1>3 DEF WantedInv, Destroys
<1> QED BY <1>1, <1>3, <1>4, <1>5, <1>6, <1>7, NodeOwes

LEMMA AgentForgottenSound ==
  ASSUME TypeOK, OpInv, Sounds, SoundInv, NEW n \in Node, AgentForgotten(n)
  PROVE  SoundInv'
<1>1. /\ At("agentFile", n) /\ Done
      /\ UNCHANGED <<upgrade, state, vm, row, k3s, nodeState, agent>>
      /\ agentState' = [agentState EXCEPT ![n] = FALSE]
  BY DEF AgentForgotten, vmVars
<1>2. /\ \A v \in ToCome(n) : v = "agentFile" \/ (Rank("agentFile") < Rank(v) /\ v \notin Onward)
      /\ SameCluster /\ FilesInv(n) /\ (n \in Wants(op.m) => WantedInv(n)) /\ "agentFile" \in ToCome(n)
  BY <1>1, StepOn
<1>3. /\ Carried(n) /\ ToCome(n)' = ToCome(n) \ {"agentFile"} /\ Stuck' = Stuck
      /\ op'.type = op.type /\ op'.m = op.m /\ op'.listed = op.listed /\ Wanted(n)' = Wanted(n)
  BY <1>1, DoneOn
<1>4. ~agentState'[n] /\ \A k \in Node : k # n => SameOn(k)
  <2>1. agentState \in [Node -> BOOLEAN]
    BY DEF TypeOK
  <2> QED BY <1>1, <2>1 DEF SameOn
<1>5. SameCluster' /\ Up(n)' = Up(n)
  BY <1>1, <1>2, <1>3, ClusterStays DEF Up, Runs
<1>6. FilesInv(n)'
  BY <1>1, <1>2, <1>3, <1>4, <1>5 DEF FilesInv, Destroys
<1>7. n \in Wants(op.m) => WantedInv(n)'
  BY <1>1, <1>2, <1>3 DEF WantedInv, Destroys
<1> QED BY <1>1, <1>3, <1>4, <1>5, <1>6, <1>7, NodeOwes

\* A k3s goes, in a convergence.
LEMMA ClusterShrinks ==
  ASSUME SameCluster, NEW n \in Node, op'.type = op.type, op.type # "create",
         \A k \in Node : k # n => k3s'[k] = k3s[k], k3s'[n] \in {k3s[n], None}
  PROVE  SameCluster'
BY DEF SameCluster

LEMMA NodeUninstalledSound ==
  ASSUME TypeOK, OpInv, Sounds, SoundInv, NEW n \in Node, NodeUninstalled(n)
  PROVE  SoundInv'
<1>1. /\ At("delNode", n) /\ GoesOn("nodeFile")
      /\ UNCHANGED <<upgrade, state, vm, row, nodeState, agent, agentState>>
      /\ k3s' = k3s \/ k3s' = [k3s EXCEPT ![n] = None]
  BY DEF NodeUninstalled, vmVars
<1>2. /\ \A v \in ToCome(n) : v = "delNode" \/ (Rank("delNode") < Rank(v) /\ v \notin Onward)
      /\ SameCluster /\ FilesInv(n) /\ (n \in Wants(op.m) => WantedInv(n)) /\ "delNode" \in ToCome(n)
      /\ "delNode" \in Doing(op.type) /\ op.type \in {"create", "converge"}
  BY <1>1, StepOn
<1>3. /\ Carried(n) /\ ToCome(n)' = (ToCome(n) \ {"delNode"}) \cup {"nodeFile"} /\ Stuck' = Stuck
      /\ op'.type = op.type /\ op'.m = op.m /\ op'.listed = op.listed /\ Wanted(n)' = Wanted(n)
  <2>1. /\ "nodeFile" \in Onward /\ "nodeFile" \in Doing(op.type)
        /\ Rank("nodeFile") = Rank("delNode")
    BY <1>2, OnwardIs DEF Onward, OpType, Rank
  <2> QED BY <1>1, <2>1, GoneOn
<1>4. /\ k3s'[n] \in {k3s[n], None}
      /\ \A k \in Node : k # n => SameOn(k) /\ k3s'[k] = k3s[k]
  <2>1. k3s \in [Node -> K3s \cup {None}]
    BY DEF TypeOK
  <2> QED BY <1>1, <2>1 DEF SameOn
<1>5. SameCluster'
  <2>1. op.type # "create"
    BY <1>2 DEF Doing
  <2> QED BY <1>2, <1>3, <1>4, <2>1, ClusterShrinks
<1>6. FilesInv(n)'
  <2>1. "installed" \notin ToCome(n) /\ "agentInstalled" \notin ToCome(n)
    BY <1>2 DEF Onward
  <2> QED BY <1>1, <1>2, <1>3, <2>1 DEF FilesInv, Destroys
<1>7. n \in Wants(op.m) => WantedInv(n)'
  BY <1>1, <1>2, <1>3 DEF WantedInv, Destroys
<1> QED BY <1>1, <1>3, <1>4, <1>5, <1>6, <1>7, NodeOwes

LEMMA NodeForgottenSound ==
  ASSUME TypeOK, OpInv, Sounds, SoundInv, NEW n \in Node, NodeForgotten(n)
  PROVE  SoundInv'
<1>1. /\ At("nodeFile", n) /\ Done
      /\ UNCHANGED <<upgrade, state, vm, row, k3s, agent, agentState>>
      /\ nodeState' = [nodeState EXCEPT ![n] = 0]
  BY DEF NodeForgotten, vmVars
<1>2. /\ \A v \in ToCome(n) : v = "nodeFile" \/ (Rank("nodeFile") < Rank(v) /\ v \notin Onward)
      /\ SameCluster /\ FilesInv(n) /\ (n \in Wants(op.m) => WantedInv(n)) /\ "nodeFile" \in ToCome(n)
  BY <1>1, StepOn
<1>3. /\ Carried(n) /\ ToCome(n)' = ToCome(n) \ {"nodeFile"} /\ Stuck' = Stuck
      /\ op'.type = op.type /\ op'.m = op.m /\ op'.listed = op.listed /\ Wanted(n)' = Wanted(n)
  BY <1>1, DoneOn
<1>4. nodeState'[n] = 0 /\ \A k \in Node : k # n => SameOn(k)
  <2>1. nodeState \in [Node -> Nat]
    BY DEF TypeOK
  <2> QED BY <1>1, <2>1 DEF SameOn
<1>5. SameCluster' /\ Up(n)' = Up(n)
  BY <1>1, <1>2, <1>3, ClusterStays DEF Up, Runs
<1>6. FilesInv(n)'
  BY <1>1, <1>2, <1>3, <1>4, <1>5 DEF FilesInv, Destroys
<1>7. n \in Wants(op.m) => WantedInv(n)'
  BY <1>1, <1>2, <1>3 DEF WantedInv, Destroys
<1> QED BY <1>1, <1>3, <1>4, <1>5, <1>6, <1>7, NodeOwes

LEMMA VMStoppedSound ==
  ASSUME TypeOK, OpInv, Sounds, SoundInv, NEW n \in Node, VMStopped(n)
  PROVE  SoundInv'
<1>1. /\ UNCHANGED <<upgrade, state, op, nodeVars, row>>
      /\ vm[n] # None /\ vm' = [vm EXCEPT ![n].on = FALSE]
  BY DEF VMStopped, StopVM, Runs
<1>2. At("delVM", n)
  <2>1. ~At("destroy", n)
    <3> SUFFICES ASSUME At("destroy", n) PROVE FALSE
      OBVIOUS
    <3>1. "destroy" \in Doing(op.type) /\ op.type \in {"create", "converge"}
      BY StepOn
    <3> QED BY <3>1 DEF Doing
  <2> QED BY <2>1 DEF VMStopped
<1>3. /\ \A v \in ToCome(n) : v = "delVM" \/ (Rank("delVM") < Rank(v) /\ v \notin Onward)
      /\ SameCluster /\ FilesInv(n) /\ (n \in Wants(op.m) => WantedInv(n)) /\ "delVM" \in ToCome(n)
  BY <1>2, StepOn
<1>4. /\ vm'[n].size = vm[n].size /\ vm'[n] # None
      /\ \A k \in Node : k # n => SameOn(k)
  <2>1. vm \in [Node -> VM \cup {None}] /\ vm[n] \in VM /\ None \notin VM
    BY <1>1, ClusterConstants DEF TypeOK, VMTypeOK
  <2>2. vm'[n] = [vm[n] EXCEPT !.on = FALSE] /\ \A k \in Node : k # n => vm'[k] = vm[k]
    BY <1>1, <2>1
  <2>3. vm'[n] \in VM /\ vm'[n].size = vm[n].size
    BY <2>1, <2>2 DEF VM
  <2> QED BY <1>1, <2>1, <2>2, <2>3 DEF SameOn, nodeVars
<1>5. /\ Carried(n) /\ Stuck' = Stuck /\ ToCome(n)' = ToCome(n) /\ Wanted(n)' = Wanted(n)
      /\ SameCluster'
  <2>1. OrderInv
    BY DEF SoundInv
  <2>2. \A k : ToCome(k)' = ToCome(k)
    BY <1>1 DEF ToCome
  <2>3. Sounds' /\ OrderInv'
    BY <1>1, <2>1 DEF Sounds, OrderInv, Recreated
  <2>4. Carried(n)
    BY <1>1, <2>2, <2>3 DEF Carried
  <2>5. SameCluster'
    BY <1>1, <1>3, ClusterStays DEF nodeVars
  <2> QED BY <1>1, <2>2, <2>4, <2>5 DEF Stuck, Wanted, desiredSizeFor
<1>6. ToCome(n) \cap {"delNode", "nodeFile", "delAgent", "agentFile", "installed"} = {}
  BY <1>3 DEF Rank, Onward
<1>7. FilesInv(n)'
  BY <1>1, <1>3, <1>4, <1>5, <1>6 DEF FilesInv, nodeVars
<1>8. n \in Wants(op.m) => WantedInv(n)'
  BY <1>1, <1>3, <1>4, <1>5 DEF WantedInv, nodeVars
<1> QED BY <1>1, <1>4, <1>5, <1>7, <1>8, NodeOwes

LEMMA VMDeletedSound ==
  ASSUME TypeOK, OpInv, Sounds, SoundInv, NEW n \in Node, VMDeleted(n)
  PROVE  SoundInv'
<1>1. /\ At("delVM", n) /\ GoesOn("delRow")
      /\ UNCHANGED <<upgrade, state, row, nodeState, agentState>>
      /\ vm' = [vm EXCEPT ![n] = None] /\ k3s' = [k3s EXCEPT ![n] = None]
      /\ agent' = [agent EXCEPT ![n] = FALSE]
  BY DEF VMDeleted, DeleteVM, Wiped
<1>2. /\ \A v \in ToCome(n) : v = "delVM" \/ (Rank("delVM") < Rank(v) /\ v \notin Onward)
      /\ SameCluster /\ FilesInv(n) /\ (n \in Wants(op.m) => WantedInv(n)) /\ "delVM" \in ToCome(n)
      /\ "delVM" \in Doing(op.type) /\ op.type \in {"create", "converge"}
  BY <1>1, StepOn
<1>3. /\ Carried(n) /\ ToCome(n)' = (ToCome(n) \ {"delVM"}) \cup {"delRow"} /\ Stuck' = Stuck
      /\ op'.type = op.type /\ op'.m = op.m /\ op'.listed = op.listed /\ Wanted(n)' = Wanted(n)
  <2>1. /\ "delRow" \in Onward /\ "delRow" \in Doing(op.type)
        /\ Rank("delRow") = Rank("delVM")
    BY <1>2, OnwardIs DEF Onward, OpType, Rank
  <2> QED BY <1>1, <2>1, GoneOn
<1>4. /\ vm'[n] = None /\ k3s'[n] = None
      /\ \A k \in Node : k # n => SameOn(k) /\ k3s'[k] = k3s[k]
  <2>1. /\ vm \in [Node -> VM \cup {None}] /\ k3s \in [Node -> K3s \cup {None}]
        /\ agent \in [Node -> BOOLEAN]
    BY DEF TypeOK, VMTypeOK
  <2> QED BY <1>1, <2>1 DEF SameOn
<1>5. SameCluster'
  <2>1. op.type # "create"
    BY <1>2 DEF Doing
  <2> QED BY <1>2, <1>3, <1>4, <2>1, ClusterShrinks
<1>6. ToCome(n) \cap {"delNode", "nodeFile", "delAgent", "agentFile", "installed", "agentInstalled"} = {}
  BY <1>2 DEF Rank, Onward
<1>7. FilesInv(n)'
  BY <1>1, <1>2, <1>3, <1>4, <1>6 DEF FilesInv, Destroys
<1>8. n \in Wants(op.m) => WantedInv(n)'
  BY <1>1, <1>2, <1>3 DEF WantedInv, Destroys
<1> QED BY <1>1, <1>3, <1>4, <1>5, <1>7, <1>8, NodeOwes

LEMMA RowDeletedSound ==
  ASSUME TypeOK, OpInv, Sounds, SoundInv, NEW n \in Node, RowDeleted(n)
  PROVE  SoundInv'
<1>1. /\ At("delRow", n) /\ Done /\ UNCHANGED <<upgrade, state, nodeVars, vm>>
      /\ row' = row \/ row' = [row EXCEPT ![n] = None]
  BY DEF RowDeleted, DeleteRow, vmVars
<1>2. /\ \A v \in ToCome(n) : v = "delRow" \/ (Rank("delRow") < Rank(v) /\ v \notin Onward)
      /\ SameCluster /\ FilesInv(n) /\ (n \in Wants(op.m) => WantedInv(n)) /\ "delRow" \in ToCome(n)
  BY <1>1, StepOn
<1>3. /\ Carried(n) /\ ToCome(n)' = ToCome(n) \ {"delRow"} /\ Stuck' = Stuck
      /\ op'.type = op.type /\ op'.m = op.m /\ op'.listed = op.listed /\ Wanted(n)' = Wanted(n)
  BY <1>1, DoneOn
<1>4. row'[n] \in {row[n], None} /\ \A k \in Node : k # n => SameOn(k)
  <2>1. row \in [Node -> Size \cup {None}]
    BY DEF TypeOK, VMTypeOK
  <2> QED BY <1>1, <2>1 DEF SameOn, nodeVars
<1>5. SameCluster' /\ Up(n)' = Up(n)
  BY <1>1, <1>2, <1>3, ClusterStays DEF nodeVars, Up, Runs
<1>6. FilesInv(n)'
  BY <1>1, <1>2, <1>3, <1>4, <1>5 DEF FilesInv, Destroys, nodeVars
<1>7. n \in Wants(op.m) => WantedInv(n)'
  BY <1>1, <1>2, <1>3 DEF WantedInv, nodeVars, Destroys
<1> QED BY <1>1, <1>3, <1>4, <1>5, <1>6, <1>7, NodeOwes

\* A sound apply stays sound at its steps on nodes.
LEMMA NodeSound ==
  ASSUME TypeOK, OpInv, Sounds, SoundInv, NEW n \in Node, NodeStep(n), ~VMLost(n)
  PROVE  SoundInv'
<1>1. ~VMDestroyed(n) /\ ~FilesRemoved(n)
  <2> SUFFICES ASSUME NEW w \in {"destroy", "files"}, At(w, n) PROVE FALSE
    BY DEF VMDestroyed, FilesRemoved
  <2>1. w \in Doing(op.type) /\ op.type \in {"create", "converge"}
    BY StepOn
  <2> QED BY <2>1 DEF Doing
<1> QED BY <1>1, VMCachedSound, VMCreatedSound, VMResizedSound, VMStartedSound, VMSavedSound,
           AlreadyInstalledSound, InstallFirstSound, InstallJoiningSound, NodeSavedSound,
           AgentAlreadySound, AgentInstalledSound, AgentSavedSound, NothingSound,
           AgentUninstalledSound, AgentForgottenSound, NodeUninstalledSound, NodeForgottenSound,
           VMStoppedSound, VMDeletedSound, RowDeletedSound DEF NodeStep

\* A step of the whole cluster.
LEMMA WholeOwes ==
  ASSUME TypeOK, OpInv, Sounds, SoundInv, NEW what, what # "stuck", At(what, None), Done,
         UNCHANGED <<vmVars, nodeVars, upgrade>>, ClosingInv'
  PROVE  SoundInv'
<1>1. /\ None \notin Node /\ Wants(op.m) \subseteq Node
      /\ upgrade = None /\ OrderInv /\ SameCluster
      /\ \A k \in Node : FilesInv(k)
      /\ \A k \in Wants(op.m) : WantedInv(k)
  BY NodesOfOp DEF SoundInv
<1>2. Carried(None) /\ Stuck' = Stuck
  BY <1>1, DoneComes DEF Stuck
<1>3. \A k \in Node : SameOn(k)
  BY DEF SameOn, vmVars, nodeVars
<1>4. op'.m = op.m /\ op'.type = op.type /\ OrderInv' /\ Wants(op.m)' = Wants(op.m)
  BY <1>2 DEF Carried
<1>5. SameCluster'
  BY <1>1, <1>4, ClusterStays DEF nodeVars
<1>6. \A k \in Node : FilesInv(k)'
  BY <1>1, <1>2, <1>3, OthersKeep
<1>7. \A k \in Wants(op.m) : WantedInv(k)'
  BY <1>1, <1>2, <1>3, OthersKeep
<1> QED BY <1>1, <1>4, <1>5, <1>6, <1>7 DEF SoundInv

LEMMA StubSound ==
  ASSUME TypeOK, OpInv, Sounds, SoundInv, StubSaved
  PROVE  SoundInv'
<1>1. At("stub", None) /\ Done /\ UNCHANGED <<vmVars, nodeVars, upgrade>> /\ OrderInv /\ ClosingInv
  BY DEF StubSaved, SoundInv
<1>2. "stub" \in ToCome(None) /\ \A v : v # "stub" => (v \in ToCome(None)' <=> v \in ToCome(None))
  BY <1>1, AtComes, DoneComes
<1>3. ClosingInv'
  BY <1>1, <1>2 DEF ClosingInv
<1> QED BY <1>1, <1>3, WholeOwes

LEMMA CASound ==
  ASSUME TypeOK, OpInv, Sounds, SoundInv, CASaved
  PROVE  SoundInv'
<1>1. /\ At("ca", None) /\ Done /\ UNCHANGED <<vmVars, nodeVars, upgrade, state>> /\ OrderInv
      /\ ClosingInv
  BY DEF CASaved, SoundInv
<1>2. \A v : v # "ca" => (v \in ToCome(None)' <=> v \in ToCome(None))
  BY <1>1, AtComes, DoneComes
<1>3. op'.m = op.m
  BY <1>1, DoneComes DEF Carried
<1>4. ClosingInv'
  BY <1>1, <1>2, <1>3 DEF ClosingInv, Ready
<1> QED BY <1>1, <1>4, WholeOwes

\* The last step leaves nothing to come.
LEMMA LastComes ==
  ASSUME TypeOK, OpInv, NEW what \in Closing, At(what, None), Done
  PROVE  \A k : ToCome(k)' = {}
<1>1. op \in Oper /\ op.todo # <<>> /\ op.todo[1].do = what
  BY AtIs
<1>2. DOMAIN op'.todo = {}
  BY <1>1, DoneDrops
<1> QED BY <1>2 DEF ToCome, Coming

LEMMA ReadySound ==
  ASSUME TypeOK, OpInv, Sounds, SoundInv, ReadySaved
  PROVE  SoundInv'
<1>1. /\ At("ready", None) /\ Done /\ UNCHANGED <<vmVars, nodeVars, upgrade>> /\ OrderInv
      /\ state' = [phase |-> "Ready", children |-> NodeNames(op.m)]
  BY DEF ReadySaved, SoundInv, Write
<1>2. "stub" \notin ToCome(None)'
  BY <1>1, LastComes DEF Closing
<1>3. op'.m = op.m
  BY <1>1, DoneComes DEF Carried
<1>4. state' # None
  BY <1>1, NodesOfOp, NamesOf, ClusterConstants DEF State, Phase
<1>5. ClosingInv'
  BY <1>1, <1>2, <1>3, <1>4 DEF ClosingInv, Ready, Wants
<1> QED BY <1>1, <1>5, WholeOwes

LEMMA RewriteSound ==
  ASSUME TypeOK, OpInv, Sounds, ListInv, DeleteFindsAll, SoundInv, StateRewritten
  PROVE  SoundInv'
<1>1. /\ At("rewrite", None) /\ Done /\ UNCHANGED <<vmVars, nodeVars, upgrade>> /\ OrderInv
      /\ state' = [phase |-> "Ready", children |-> Kept]
  BY DEF StateRewritten, SoundInv, Write
<1>2. "stub" \notin ToCome(None)'
  BY <1>1, LastComes DEF Closing
<1>3. op'.m = op.m
  BY <1>1, DoneComes DEF Carried
<1>4. /\ op \in Oper /\ op.m \in Manifest /\ op.type \in {"create", "converge"}
      /\ 1 \in DOMAIN op.todo /\ op.todo[1].do = "rewrite" /\ "rewrite" \in Doing(op.type)
  BY <1>1, NodesOfOp, AtIs
<1>5. op.type = "converge"
  BY <1>4 DEF Doing
<1>6. Has("rewrite")
  BY <1>4 DEF Has
<1>7. state \in State /\ op.listed = state.children /\ op.listed \in Seq(Node)
  <2>1. state # None /\ op.listed = state.children
    BY <1>4, <1>5, <1>6 DEF ListInv, Sounds
  <2> QED BY <1>4, <2>1, OperIs, ChildrenAre DEF TypeOK
<1>8. Range(Kept) = Wants(op.m)
  <2>1. /\ Those(op.listed, Wants(op.m)) \in Seq(Node)
        /\ Range(Those(op.listed, Wants(op.m))) = Range(op.listed) \cap Wants(op.m)
    BY <1>7, ThoseHolds
  <2>2. adds(op.m) \in Seq(Node) /\ Range(adds(op.m)) = Wants(op.m) \ Range(state.children)
    BY <1>4, <1>7, ChangePlan DEF Wants
  <2>3. Range(Kept) = (Range(op.listed) \cap Wants(op.m)) \cup (Wants(op.m) \ Range(state.children))
    BY <2>1, <2>2, Joined DEF Kept, Wants
  <2> QED BY <1>7, <2>3
<1>9. state' # None
  BY RewriteKeeps, ClusterConstants DEF Sounds
<1>10. ClosingInv'
  BY <1>1, <1>2, <1>3, <1>8, <1>9 DEF ClosingInv, Ready, Wants
<1> QED BY <1>1, <1>10, WholeOwes

\* Lists in order, joined.
LEMMA OrderJoined ==
  ASSUME NEW m, NEW listed, NEW s \in Seq(Step), NEW t \in Seq(Step),
         InOrder(m, listed, s), InOrder(m, listed, t),
         \A x \in Range(s), y \in Range(t) : Follows(m, listed, x, y)
  PROVE  InOrder(m, listed, s \o t)
<1> DEFINE st == s \o t
<1>1. /\ st \in Seq(Step) /\ Len(st) = Len(s) + Len(t)
      /\ \A i \in 1..Len(s) : st[i] = s[i]
      /\ \A i \in 1..Len(t) : st[Len(s) + i] = t[i]
  BY Joined
<1>2. /\ Len(s) \in Nat /\ Len(t) \in Nat /\ DOMAIN s = 1..Len(s) /\ DOMAIN t = 1..Len(t)
      /\ DOMAIN st = 1..(Len(s) + Len(t))
  BY <1>1
<1> HIDE DEF st
<1>3. \A i \in 1..Len(s) : s[i] \in Range(s)
  BY Held
<1>4. \A i \in 1..Len(t) : t[i] \in Range(t)
  BY Held
<1>5. ASSUME NEW i \in DOMAIN st, NEW j \in DOMAIN st, i < j
      PROVE  Follows(m, listed, st[i], st[j])
  <2>1. CASE j <= Len(s)
    <3>1. i \in 1..Len(s) /\ j \in 1..Len(s)
      BY <1>2, <1>5, <2>1
    <3> QED BY <1>1, <1>2, <1>5, <3>1 DEF InOrder
  <2>2. CASE i <= Len(s) /\ ~(j <= Len(s))
    <3>1. i \in 1..Len(s) /\ j - Len(s) \in 1..Len(t) /\ j = Len(s) + (j - Len(s))
      BY <1>2, <1>5, <2>2
    <3>2. st[i] = s[i] /\ st[j] = t[j - Len(s)]
      BY <1>1, <3>1
    <3> QED BY <1>3, <1>4, <3>1, <3>2
  <2>3. CASE ~(i <= Len(s))
    <3>1. /\ i - Len(s) \in 1..Len(t) /\ j - Len(s) \in 1..Len(t) /\ i - Len(s) < j - Len(s)
          /\ i = Len(s) + (i - Len(s)) /\ j = Len(s) + (j - Len(s))
      BY <1>2, <1>5, <2>3
    <3>2. st[i] = t[i - Len(s)] /\ st[j] = t[j - Len(s)]
      BY <1>1, <3>1
    <3> QED BY <1>2, <3>1, <3>2 DEF InOrder
  <2> QED BY <1>2, <2>1, <2>2, <2>3
<1> QED BY <1>5 DEF InOrder, st

\* Steps of which one is not on a node, or that are on different nodes or in
\* their order, of which the first is not on a listed node that stays.
LEMMA FollowsIf ==
  ASSUME NEW m, NEW listed \in Seq(Node), NEW x, NEW y,
         \/ x.node = None
         \/ y.node = None
         \/ /\ x.node \notin Range(listed) \cap Wants(m)
            /\ x.node # y.node \/ Rank(x.do) < Rank(y.do)
  PROVE  Follows(m, listed, x, y)
<1>1. None \notin Node
  BY ClusterConstants
<1>2. \A p \in DOMAIN listed : listed[p] \in Range(listed) /\ listed[p] \in Node
  BY Held
<1> QED BY <1>1, <1>2 DEF Follows

LEMMA OneOrder ==
  ASSUME NEW m, NEW listed, NEW x
  PROVE  InOrder(m, listed, <<x>>)
<1>1. DOMAIN <<x>> = 1..1
  OBVIOUS
<1>2. \A i, j \in 1..1 : ~(i < j)
  OBVIOUS
<1> QED BY <1>1, <1>2 DEF InOrder

\* Each: its steps, and their order.
LEMMA EachSteps ==
  ASSUME NEW what \in UNION {Doing(t) : t \in OpType}, NEW nodes \in Seq(Node),
         NEW join \in Node \cup {None}
  PROVE  /\ Each(what, nodes, join) \in Seq(Step)
         /\ \A x \in Range(Each(what, nodes, join)) :
              x.do = what /\ x.node \in Range(nodes) /\ x.join = join
         /\ \A n \in Range(nodes) : \E x \in Range(Each(what, nodes, join)) : x.do = what /\ x.node = n
<1> DEFINE s == Each(what, nodes, join)
<1>1. DOMAIN nodes = 1..Len(nodes) /\ \A i \in DOMAIN nodes : nodes[i] \in Node
  OBVIOUS
<1>2. s \in Seq(Step) /\ \A x \in Range(s) : x.do = what /\ x.node \in Range(nodes)
  BY EachIs
<1>3. DOMAIN s = DOMAIN nodes /\ \A i \in DOMAIN nodes : s[i] = Do(what, nodes[i], join)
  BY DEF Each
<1>4. \A i \in DOMAIN nodes : s[i].do = what /\ s[i].node = nodes[i] /\ s[i].join = join
  BY <1>3 DEF Do
<1> HIDE DEF s
<1>5. \A x \in Range(s) : x.join = join
  BY <1>3, <1>4 DEF Range
<1>6. \A n \in Range(nodes) : \E x \in Range(s) : x.do = what /\ x.node = n
  BY <1>3, <1>4 DEF Range
<1> QED BY <1>2, <1>5, <1>6 DEF s

LEMMA EachOrder ==
  ASSUME NEW m, NEW listed \in Seq(Node), NEW what, NEW nodes \in Seq(Node), IsInjective(nodes),
         NEW join, Range(nodes) \cap Range(listed) \cap Wants(m) = {}
  PROVE  InOrder(m, listed, Each(what, nodes, join))
<1> DEFINE s == Each(what, nodes, join)
<1>1. DOMAIN nodes = 1..Len(nodes) /\ Len(nodes) \in Nat /\ \A i \in 1..Len(nodes) : nodes[i] \in Range(nodes)
  BY Held
<1>2. DOMAIN s = DOMAIN nodes /\ \A i \in DOMAIN nodes : s[i].node = nodes[i]
  BY DEF Each, Do
<1> HIDE DEF s
<1>3. ASSUME NEW i \in DOMAIN s, NEW j \in DOMAIN s, i < j
      PROVE  Follows(m, listed, s[i], s[j])
  <2>1. nodes[i] # nodes[j]
    BY <1>1, <1>2, <1>3 DEF IsInjective
  <2>2. s[i].node \notin Range(listed) \cap Wants(m)
    BY <1>1, <1>2
  <2> QED BY <1>2, <2>1, <2>2, FollowsIf
<1> QED BY <1>3 DEF InOrder, s

\* A plan whose steps are all new.
LEMMA MadeOrder ==
  ASSUME NEW type, NEW m, NEW listed, NEW todo \in Seq(Step), InOrder(m, listed, todo),
         \A x \in Range(todo) : /\ x.do \notin Onward
                                /\ x.do = "install" /\ x.join = None => type = "create" /\ x.node = CPs[1]
  PROVE  PlanOrder(type, m, listed, todo)
<1>1. DOMAIN todo = 1..Len(todo) /\ \A i \in 1..Len(todo) : todo[i] \in Range(todo)
  BY Held
<1> QED BY <1>1 DEF PlanOrder

LEMMA ComesOf ==
  ASSUME NEW todo
  PROVE  \A n, v : v \in Coming(todo, n) <=> \E x \in Range(todo) : x.do = v /\ x.node = n
BY DEF Coming, Range

\* The steps of different nodes and of the same one, as OneByOne has them.
LEMMA PlacesOrder ==
  ASSUME NEW k \in {3, 6}, NEW n \in Nat, NEW i \in 1..(k * n), NEW j \in 1..(k * n), i < j
  PROVE  \/ ((i - 1) \div k) + 1 < ((j - 1) \div k) + 1
         \/ /\ ((i - 1) \div k) + 1 = ((j - 1) \div k) + 1
            /\ ((i - 1) % k) + 1 < ((j - 1) % k) + 1
<1>1. CASE k = 3
  BY <1>1
<1>2. CASE k = 6
  BY <1>2
<1> QED BY <1>1, <1>2

\* The first name is that of the first control plane.
LEMMA FirstName ==
  ASSUME NEW m \in Manifest
  PROVE  /\ NodeNames(m) \in Seq(Node) /\ IsInjective(NodeNames(m)) /\ NodeNames(m) # <<>>
         /\ Tail(NodeNames(m)) \in Seq(Node) /\ IsInjective(Tail(NodeNames(m)))
         /\ CPs[1] \in Node /\ CPs[1] \notin Range(Tail(NodeNames(m)))
         /\ Wants(m) = {CPs[1]} \cup Range(Tail(NodeNames(m)))
<1> DEFINE s == NodeNames(m)
           t == Tail(s)
<1>1. s \in Seq(Node) /\ IsInjective(s) /\ s # <<>>
  BY NamesOf, ChildrenAre
<1>2. s[1] = CPs[1] /\ CPs[1] \in Node
  <2> DEFINE a == SubSeq(CPs, 1, m.cps)
             b == SubSeq(Workers, 1, m.workers)
  <2>1. /\ CPs \in Seq(Node) /\ Workers \in Seq(Node) /\ m.cps \in 1..Len(CPs)
        /\ m.workers \in 0..Len(Workers)
    BY ClusterConstants DEF Manifest
  <2>2. a \in Seq(Node) /\ Len(a) = m.cps /\ 1 \in 1..Len(a) /\ a[1] = CPs[1]
    BY <2>1
  <2>3. b \in Seq(Node)
    BY <2>1
  <2>4. s = a \o b
    BY DEF NodeNames
  <2> HIDE DEF a, b
  <2>5. (a \o b)[1] = a[1]
    BY <2>2, <2>3, Joined
  <2>6. CPs[1] \in Node
    BY <2>1
  <2> QED BY <2>2, <2>4, <2>5, <2>6
<1>3. Wants(m) = Range(s)
  BY DEF Wants
<1> HIDE DEF s
<1>4. /\ t \in Seq(Node) /\ Len(s) \in Nat /\ Len(s) # 0 /\ DOMAIN s = 1..Len(s)
      /\ DOMAIN t = 1..(Len(s) - 1) /\ \A i \in 1..(Len(s) - 1) : t[i] = s[i + 1]
  BY <1>1
<1> HIDE DEF t
<1>5. \A i \in DOMAIN t : i + 1 \in DOMAIN s /\ t[i] = s[i + 1] /\ i + 1 # 1
  BY <1>4
<1>6. 1 \in DOMAIN s
  BY <1>4
<1>7. IsInjective(t)
  <2> SUFFICES ASSUME NEW i \in DOMAIN t, NEW j \in DOMAIN t, t[i] = t[j] PROVE i = j
    BY DEF IsInjective
  <2>1. i + 1 = j + 1
    BY <1>1, <1>5 DEF IsInjective
  <2> QED BY <1>4, <2>1
<1>8. CPs[1] \notin Range(t)
  <2> SUFFICES ASSUME NEW i \in DOMAIN t, t[i] = CPs[1] PROVE FALSE
    BY DEF Range
  <2> QED BY <1>1, <1>2, <1>5, <1>6 DEF IsInjective
<1>9. Range(s) = {CPs[1]} \cup Range(t)
  <2>1. \A i \in DOMAIN s : i = 1 \/ (i - 1 \in DOMAIN t /\ t[i - 1] = s[i])
    <3> TAKE i \in DOMAIN s
    <3>1. i # 1 => i - 1 \in 1..(Len(s) - 1) /\ (i - 1) + 1 = i
      BY <1>4
    <3> QED BY <1>4, <3>1
  <2>2. \A x \in Range(s) : x = CPs[1] \/ x \in Range(t)
    BY <1>2, <2>1 DEF Range
  <2>3. \A x \in Range(t) : x \in Range(s)
    BY <1>5 DEF Range
  <2>4. CPs[1] \in Range(s)
    BY <1>2, <1>6 DEF Range
  <2> QED BY <2>2, <2>3, <2>4
<1> QED BY <1>1, <1>2, <1>3, <1>4, <1>7, <1>8, <1>9 DEF s, t

\* The order of a creation, and what each node has to come.
LEMMA CreateOrder ==
  ASSUME NEW m \in Manifest
  PROVE  /\ PlanOrder("create", m, <<>>, applyClusterViaPlan(m))
         /\ \A n \in Wants(m) : {"vm", "install", "agent"} \subseteq Coming(applyClusterViaPlan(m), n)
         /\ \A n \in Node : Coming(applyClusterViaPlan(m), n) \subseteq {"vm", "install", "agent"}
         /\ "ready" \in Coming(applyClusterViaPlan(m), None)
<1> DEFINE nodes == NodeNames(m)
           stub == Do("stub", None, None)
           first == Do("install", CPs[1], None)
           ca0 == Do("ca", None, None)
           last == Do("ready", None, None)
           A == Each("vm", nodes, None)
           B == <<stub, first>>
           C == Each("install", Tail(nodes), CPs[1])
           D == <<ca0>>
           E == Each("agent", nodes, None)
           F == <<last>>
           l == << >>
<1>1. /\ nodes \in Seq(Node) /\ IsInjective(nodes) /\ Tail(nodes) \in Seq(Node) /\ IsInjective(Tail(nodes))
      /\ CPs[1] \in Node /\ CPs[1] \notin Range(Tail(nodes))
      /\ Wants(m) = {CPs[1]} \cup Range(Tail(nodes)) /\ Wants(m) = Range(nodes)
  BY FirstName DEF Wants
<1>2. None \notin Node /\ CPs[1] # None
  BY <1>1, ClusterConstants
<1>3. {"vm", "stub", "install", "ca", "agent", "ready"} \subseteq UNION {Doing(t) : t \in OpType}
  BY DEF Doing, OpType
<1>4. /\ stub \in Step /\ stub.do = "stub" /\ stub.node = None
      /\ first \in Step /\ first.do = "install" /\ first.node = CPs[1]
      /\ ca0 \in Step /\ ca0.do = "ca" /\ ca0.node = None
      /\ last \in Step /\ last.do = "ready" /\ last.node = None
  BY <1>1, <1>3, DoIs
<1>5. /\ A \in Seq(Step) /\ \A x \in Range(A) : x.do = "vm" /\ x.node \in Wants(m)
      /\ \A n \in Wants(m) : \E x \in Range(A) : x.do = "vm" /\ x.node = n
  BY <1>1, <1>3, EachSteps
<1>6. /\ C \in Seq(Step)
      /\ \A x \in Range(C) : x.do = "install" /\ x.node \in Range(Tail(nodes)) /\ x.join = CPs[1]
      /\ \A n \in Range(Tail(nodes)) : \E x \in Range(C) : x.do = "install" /\ x.node = n
  <2> DEFINE rest == Tail(nodes)
             to == CPs[1]
  <2>1. rest \in Seq(Node) /\ to \in Node \cup {None}
    BY <1>1
  <2> HIDE DEF rest, to
  <2>2. /\ Each("install", rest, to) \in Seq(Step)
        /\ \A x \in Range(Each("install", rest, to)) :
             x.do = "install" /\ x.node \in Range(rest) /\ x.join = to
        /\ \A n \in Range(rest) :
             \E x \in Range(Each("install", rest, to)) : x.do = "install" /\ x.node = n
    BY <1>3, <2>1, EachSteps
  <2> QED BY <2>2 DEF rest, to
<1>7. /\ E \in Seq(Step) /\ \A x \in Range(E) : x.do = "agent" /\ x.node \in Wants(m)
      /\ \A n \in Wants(m) : \E x \in Range(E) : x.do = "agent" /\ x.node = n
  BY <1>1, <1>3, EachSteps
<1>8. l \in Seq(Node) /\ Range(l) = {}
  BY DEF Range
<1>9. InOrder(m, l, A) /\ InOrder(m, l, C) /\ InOrder(m, l, E) /\ InOrder(m, l, D) /\ InOrder(m, l, F)
  <2>1. InOrder(m, l, A) /\ InOrder(m, l, C) /\ InOrder(m, l, E)
    BY <1>1, <1>8, EachOrder
  <2>2. InOrder(m, l, D) /\ InOrder(m, l, F)
    BY OneOrder
  <2> QED BY <2>1, <2>2
<1>10. /\ B \in Seq(Step) /\ Range(B) = {stub, first} /\ D \in Seq(Step) /\ Range(D) = {ca0}
       /\ F \in Seq(Step) /\ Range(F) = {last}
  <2>1. B \in Seq(Step) /\ DOMAIN B = 1..2 /\ B[1] = stub /\ B[2] = first
    BY <1>4
  <2>2. Range(B) = {stub, first}
    <3> HIDE DEF B
    <3>1. \A x : x \in Range(B) <=> x = B[1] \/ x = B[2]
      BY <2>1 DEF Range
    <3> QED BY <2>1, <3>1
  <2> QED BY <1>4, <2>1, <2>2, One
<1>11. InOrder(m, l, B)
  <2>1. DOMAIN B = 1..2 /\ B[1] = stub
    BY <1>4
  <2>2. \A i, j \in 1..2 : i < j => i = 1
    OBVIOUS
  <2>3. \A y : Follows(m, l, stub, y)
    BY <1>4, <1>8, FollowsIf
  <2> HIDE DEF B
  <2> QED BY <2>1, <2>2, <2>3 DEF InOrder
<1>12. applyClusterViaPlan(m) = ((((A \o B) \o C) \o D) \o E) \o F
  BY DEF applyClusterViaPlan
<1> HIDE DEF nodes, stub, first, ca0, last, A, B, C, D, E, F, l
<1>13. \A x, y : \/ x.node = None
                 \/ y.node = None
                 \/ x.node # y.node
                 \/ Rank(x.do) < Rank(y.do)
                 => Follows(m, l, x, y)
  BY <1>8, FollowsIf
<1>14. /\ Rank("vm") < Rank("install") /\ Rank("install") < Rank("agent") /\ Rank("vm") < Rank("agent")
  BY DEF Rank
<1> DEFINE AB == A \o B
           AC == AB \o C
           AD == AC \o D
           AE == AD \o E
           AF == AE \o F
<1>15. AB \in Seq(Step) /\ Range(AB) = Range(A) \cup {stub, first} /\ InOrder(m, l, AB)
  <2>1. \A x \in Range(A), y \in Range(B) : Follows(m, l, x, y)
    BY <1>4, <1>5, <1>10, <1>13, <1>14
  <2>8. A \in Seq(Step) /\ B \in Seq(Step)
    BY <1>5, <1>10
  <2>9. A \o B \in Seq(Step) /\ Range(A \o B) = Range(A) \cup Range(B)
    BY <2>8, Joined
  <2>10. InOrder(m, l, A \o B)
    BY <1>5, <1>9, <1>10, <1>11, <2>1, <2>8, OrderJoined
  <2> QED BY <1>10, <2>9, <2>10
<1> HIDE DEF AB
<1>16. AC \in Seq(Step) /\ Range(AC) = Range(AB) \cup Range(C) /\ InOrder(m, l, AC)
  <2>1. \A x \in Range(AB), y \in Range(C) : Follows(m, l, x, y)
    BY <1>1, <1>4, <1>5, <1>6, <1>13, <1>14, <1>15
  <2>8. AB \in Seq(Step) /\ C \in Seq(Step)
    BY <1>6, <1>15
  <2>9. AB \o C \in Seq(Step) /\ Range(AB \o C) = Range(AB) \cup Range(C)
    BY <2>8, Joined
  <2>10. InOrder(m, l, AB \o C)
    BY <1>6, <1>9, <1>15, <2>1, <2>8, OrderJoined
  <2> QED BY <1>10, <2>9, <2>10
<1> HIDE DEF AC
<1>17. AD \in Seq(Step) /\ Range(AD) = Range(AC) \cup {ca0} /\ InOrder(m, l, AD)
  <2>1. \A x \in Range(AC), y \in Range(D) : Follows(m, l, x, y)
    BY <1>4, <1>10, <1>13
  <2>8. AC \in Seq(Step) /\ D \in Seq(Step)
    BY <1>10, <1>16
  <2>9. AC \o D \in Seq(Step) /\ Range(AC \o D) = Range(AC) \cup Range(D)
    BY <2>8, Joined
  <2>10. InOrder(m, l, AC \o D)
    BY <1>9, <1>10, <1>16, <2>1, <2>8, OrderJoined
  <2> QED BY <1>10, <2>9, <2>10
<1> HIDE DEF AD
<1>18. AE \in Seq(Step) /\ Range(AE) = Range(AD) \cup Range(E) /\ InOrder(m, l, AE)
  <2>1. \A x \in Range(AD) : x.node = None \/ Rank(x.do) < Rank("agent")
    BY <1>4, <1>5, <1>6, <1>14, <1>15, <1>16, <1>17
  <2>2. \A x \in Range(AD), y \in Range(E) : Follows(m, l, x, y)
    BY <1>7, <1>13, <2>1
  <2>8. AD \in Seq(Step) /\ E \in Seq(Step)
    BY <1>7, <1>17
  <2>9. AD \o E \in Seq(Step) /\ Range(AD \o E) = Range(AD) \cup Range(E)
    BY <2>8, Joined
  <2>10. InOrder(m, l, AD \o E)
    BY <1>7, <1>9, <1>17, <2>2, <2>8, OrderJoined
  <2> QED BY <1>10, <2>9, <2>10
<1> HIDE DEF AE
<1>19. AF \in Seq(Step) /\ Range(AF) = Range(AE) \cup {last} /\ InOrder(m, l, AF)
  <2>1. \A x \in Range(AE), y \in Range(F) : Follows(m, l, x, y)
    BY <1>4, <1>10, <1>13
  <2>8. AE \in Seq(Step) /\ F \in Seq(Step)
    BY <1>10, <1>18
  <2>9. AE \o F \in Seq(Step) /\ Range(AE \o F) = Range(AE) \cup Range(F)
    BY <2>8, Joined
  <2>10. InOrder(m, l, AE \o F)
    BY <1>9, <1>10, <1>18, <2>1, <2>8, OrderJoined
  <2> QED BY <1>10, <2>9, <2>10
<1> HIDE DEF AF
<1>20. Range(AF) = Range(A) \cup {stub, first} \cup Range(C) \cup {ca0} \cup Range(E) \cup {last}
  BY <1>15, <1>16, <1>17, <1>18, <1>19
<1>21. \A x \in Range(AF) : x.do \in {"vm", "stub", "install", "ca", "agent", "ready"}
  BY <1>4, <1>5, <1>6, <1>7, <1>20
<1>22. \A x \in Range(AF) : x.do = "install" /\ x.join = None => x.node = CPs[1]
  BY <1>2, <1>4, <1>5, <1>6, <1>7, <1>20
<1>23. PlanOrder("create", m, l, AF)
  <2>1. \A x \in Range(AF) : x.do \notin Onward
    BY <1>21 DEF Onward
  <2> QED BY <1>19, <1>22, <2>1, MadeOrder
<1>24. \A n \in Wants(m) : {"vm", "install", "agent"} \subseteq Coming(AF, n)
  <2> TAKE n \in Wants(m)
  <2>1. \E x \in Range(AF) : x.do = "vm" /\ x.node = n
    BY <1>5, <1>20
  <2>2. \E x \in Range(AF) : x.do = "agent" /\ x.node = n
    BY <1>7, <1>20
  <2>3. \E x \in Range(AF) : x.do = "install" /\ x.node = n
    BY <1>1, <1>4, <1>6, <1>20
  <2> QED BY <2>1, <2>2, <2>3, ComesOf
<1>25. \A n \in Node : Coming(AF, n) \subseteq {"vm", "install", "agent"}
  <2> SUFFICES ASSUME NEW n \in Node, NEW x \in Range(AF), x.node = n
               PROVE  x.do \in {"vm", "install", "agent"}
    BY ComesOf
  <2> QED BY <1>2, <1>4, <1>5, <1>6, <1>7, <1>20
<1>26. "ready" \in Coming(AF, None)
  BY <1>4, <1>20, ComesOf
<1>27. applyClusterViaPlan(m) = AF
  BY <1>12 DEF AB, AC, AD, AE, AF
<1> QED BY <1>23, <1>24, <1>25, <1>26, <1>27 DEF l

\* A creation that begins soundly.
LEMMA CreateSound ==
  ASSUME TypeOK, NEW m \in Manifest, Create(m)
  PROVE  SoundInv'
<1> DEFINE todo == applyClusterViaPlan(m)
<1>1. Begins("create", m, todo, Sound, FALSE)
  BY DEF Create
<1>2. /\ PlanOrder("create", m, <<>>, todo)
      /\ \A n \in Wants(m) : {"vm", "install", "agent"} \subseteq Coming(todo, n)
      /\ \A n \in Node : Coming(todo, n) \subseteq {"vm", "install", "agent"}
      /\ "ready" \in Coming(todo, None)
  BY CreateOrder
<1>3. PlanOK(todo, "create")
  BY CreatePlan
<1> HIDE DEF todo
<1>4. op' # None /\ op'.type = "create" /\ op'.m = m /\ op'.todo = todo /\ (op'.sound => Sound)
  <2> DEFINE sound == Sound
  <2>1. "create" \in OpType /\ sound \in BOOLEAN /\ Begins("create", m, todo, sound, FALSE)
    BY <1>1 DEF OpType, Sound
  <2> HIDE DEF sound
  <2>2. op' # None /\ op'.type = "create" /\ op'.m = m /\ op'.todo = todo
    BY <1>3, <2>1, BeginsOper
  <2>3. op'.sound => sound
    BY <2>1 DEF Begins
  <2> QED BY <2>2, <2>3 DEF sound
<1> SUFFICES ASSUME Sounds' PROVE SoundInv'
  BY DEF SoundInv
<1>5. Sound
  BY <1>4 DEF Sounds
<1>6. UNCHANGED <<vm, row, k3s, nodeState, agent, agentState, state>> /\ upgrade' = None
  BY <1>1, <1>5 DEF Begins, vmVars, nodeVars, Sound
<1>7. \A n : ToCome(n)' = Coming(todo, n)
  BY <1>4 DEF ToCome
<1>8. OrderInv'
  BY <1>2, <1>4 DEF OrderInv, Recreated
<1>9. SameCluster'
  BY <1>5, <1>6 DEF SameCluster, Sound, OneCluster
<1>10. ClosingInv'
  BY <1>2, <1>7 DEF ClosingInv
<1>11. ASSUME NEW n \in Node PROVE FilesInv(n)'
  <2>1. ToCome(n)' \subseteq {"vm", "install", "agent"}
    BY <1>2, <1>7
  <2>2. /\ nodeState[n] # 0 => Up(n) /\ k3s[n].gen = nodeState[n]
        /\ agentState[n] => agent[n]
        /\ row[n] # None /\ vm[n] # None => row[n] = vm[n].size
    BY <1>5 DEF Sound, FilesTrue
  <2>3. Up(n)' = Up(n)
    BY <1>6 DEF Up, Runs
  <2> QED BY <1>4, <1>6, <2>1, <2>2, <2>3 DEF FilesInv
<1>12. ASSUME NEW n \in Wants(m) PROVE WantedInv(n)'
  <2>1. n \in Node
    BY NamesOf, Held DEF Wants
  <2>2. ToCome(n)' = {"vm", "install", "agent"}
    BY <1>2, <1>7, <2>1
  <2> QED BY <2>2 DEF WantedInv, Destroys
<1> QED BY <1>4, <1>6, <1>8, <1>9, <1>10, <1>11, <1>12 DEF SoundInv

\* The removals: their steps, and their order.
LEMMA RemovalSteps ==
  ASSUME NEW m, NEW listed \in Seq(Node), NEW nodes \in Seq(Node), IsInjective(nodes),
         Range(nodes) \cap Wants(m) = {}
  PROVE  /\ removeNodes(nodes) \in Seq(Step) /\ InOrder(m, listed, removeNodes(nodes))
         /\ \A x \in Range(removeNodes(nodes)) :
              x.node \in Range(nodes) /\ x.do \in {"delAgent", "delNode", "delVM"}
         /\ \A n \in Range(nodes), w \in {"delAgent", "delNode", "delVM"} :
              \E x \in Range(removeNodes(nodes)) : x.do = w /\ x.node = n
<1> DEFINE s == removeNodes(nodes)
           L == Len(nodes)
           c(n) == deleteNodeChildren(n)
           pos(i) == ((i - 1) \div 3) + 1
           off(i) == ((i - 1) % 3) + 1
<1>1. L \in Nat /\ DOMAIN nodes = 1..L /\ \A p \in 1..L : nodes[p] \in Node /\ nodes[p] \in Range(nodes)
  BY Held
<1>2. s \in Seq(Step)
  BY Destroying
<1>3. ASSUME NEW n \in Node
      PROVE  /\ c(n)[1].do = "delAgent" /\ c(n)[2].do = "delNode" /\ c(n)[3].do = "delVM"
             /\ c(n)[1].node = n /\ c(n)[2].node = n /\ c(n)[3].node = n
  BY DEF deleteNodeChildren, Do
<1>4. s = [i \in 1..(3 * L) |-> c(nodes[pos(i)])[off(i)]]
  BY DEF OneByOne, removeNodes
<1>5. /\ \A i \in 1..(3 * L) : pos(i) \in 1..L /\ off(i) \in 1..3
      /\ \A p \in 1..L, j \in 1..3 :
           3 * (p - 1) + j \in 1..(3 * L) /\ pos(3 * (p - 1) + j) = p /\ off(3 * (p - 1) + j) = j
  BY <1>1, Places
<1>6. \A i, j \in 1..(3 * L) : i < j => pos(i) < pos(j) \/ (pos(i) = pos(j) /\ off(i) < off(j))
  BY <1>1, PlacesOrder
<1> HIDE DEF s, c, L, pos, off
<1>7. \A j \in 1..3 : j = 1 \/ j = 2 \/ j = 3
  OBVIOUS
<1>8. \A n \in Node, j \in 1..3 : /\ c(n)[j].node = n /\ Rank(c(n)[j].do) = j
                                  /\ c(n)[j].do \in {"delAgent", "delNode", "delVM"}
  <2>1. Rank("delAgent") = 1 /\ Rank("delNode") = 2 /\ Rank("delVM") = 3
    BY DEF Rank
  <2> QED BY <1>3, <1>7, <2>1
<1>9. DOMAIN s = 1..(3 * L) /\ \A i \in 1..(3 * L) : s[i] = c(nodes[pos(i)])[off(i)]
  BY <1>4
<1>10. \A i \in 1..(3 * L) : /\ s[i].node = nodes[pos(i)] /\ Rank(s[i].do) = off(i)
                             /\ s[i].do \in {"delAgent", "delNode", "delVM"}
                             /\ s[i].node \in Range(nodes)
  <2> TAKE i \in 1..(3 * L)
  <2>1. PICK n \in Node, j \in 1..3 : n = nodes[pos(i)] /\ j = off(i) /\ n \in Range(nodes)
    BY <1>1, <1>5
  <2>2. s[i] = c(n)[j]
    BY <1>9, <2>1
  <2> QED BY <1>8, <2>1, <2>2
<1>11. InOrder(m, listed, s)
  <2>1. ASSUME NEW i \in DOMAIN s, NEW j \in DOMAIN s, i < j
        PROVE  Follows(m, listed, s[i], s[j])
    <3>1. s[i].node \notin Range(listed) \cap Wants(m)
      BY <1>9, <1>10
    <3>2. CASE pos(i) < pos(j)
      <4>1. pos(i) \in 1..L /\ pos(j) \in 1..L /\ pos(i) # pos(j)
        BY <1>1, <1>5, <1>9, <3>2
      <4>2. nodes[pos(i)] # nodes[pos(j)]
        BY <1>1, <4>1 DEF IsInjective
      <4> QED BY <1>9, <1>10, <3>1, <4>2, FollowsIf
    <3>3. CASE pos(i) = pos(j) /\ off(i) < off(j)
      BY <1>9, <1>10, <3>1, <3>3, FollowsIf
    <3> QED BY <1>6, <1>9, <2>1, <3>2, <3>3
  <2> QED BY <2>1 DEF InOrder
<1>12. \A x \in Range(s) : x.node \in Range(nodes) /\ x.do \in {"delAgent", "delNode", "delVM"}
  BY <1>9, <1>10 DEF Range
<1>13. ASSUME NEW p \in 1..L, NEW j \in 1..3
       PROVE  \E x \in Range(s) : x = c(nodes[p])[j]
  <2>1. s[3 * (p - 1) + j] = c(nodes[p])[j] /\ 3 * (p - 1) + j \in DOMAIN s
    BY <1>5, <1>9
  <2> QED BY <2>1 DEF Range
<1>14. ASSUME NEW n \in Range(nodes), NEW w \in {"delAgent", "delNode", "delVM"}
       PROVE  \E x \in Range(s) : x.do = w /\ x.node = n
  <2>1. PICK p \in 1..L : nodes[p] = n
    BY <1>1 DEF Range
  <2>2. n \in Node
    BY <1>1, <2>1
  <2>3. PICK j \in 1..3 : c(n)[j].do = w /\ c(n)[j].node = n
    <3>1. 1 \in 1..3 /\ 2 \in 1..3 /\ 3 \in 1..3
      OBVIOUS
    <3> QED BY <1>3, <2>2, <3>1
  <2> QED BY <1>13, <2>1, <2>3
<1> QED BY <1>2, <1>11, <1>12, <1>14 DEF s

\* The nodes of a list keep its order.
LEMMA ThoseInOrder ==
  ASSUME NEW nodes \in Seq(Node), IsInjective(nodes), NEW S,
         NEW a \in DOMAIN Those(nodes, S), NEW b \in DOMAIN Those(nodes, S), a < b,
         NEW p \in DOMAIN nodes, Those(nodes, S)[a] = nodes[p]
  PROVE  \E q \in DOMAIN nodes : Those(nodes, S)[b] = nodes[q] /\ p <= q
<1> DEFINE N == Cardinality(Spots(nodes, S))
<1>1. PICK f \in [1..N -> Spots(nodes, S)] :
        /\ Those(nodes, S) = [k \in 1..N |-> nodes[f[k]]]
        /\ \A k, l \in 1..N : k < l => f[k] < f[l]
  BY ThoseAt
<1> HIDE DEF N
<1>2. a \in 1..N /\ b \in 1..N /\ Those(nodes, S)[a] = nodes[f[a]] /\ Those(nodes, S)[b] = nodes[f[b]]
  BY <1>1
<1>3. f[a] \in DOMAIN nodes /\ f[b] \in DOMAIN nodes /\ f[a] < f[b]
  BY <1>1, <1>2 DEF Spots
<1>4. f[a] = p
  BY <1>2, <1>3 DEF IsInjective
<1>5. p <= f[b]
  BY <1>3, <1>4
<1> QED BY <1>2, <1>3, <1>5

\* What recreating a node does, unless it is stuck.
Recreates == {"delAgent", "delNode", "delVM", "vm", "install", "agent"}

LEMMA RespecSix ==
  ASSUME NEW m, NEW n \in Node
  PROVE  \/ /\ survivingControlPlane(m, n) = None
            /\ \A j \in 1..6 : respecNode(m, n)[j].do = "stuck" /\ respecNode(m, n)[j].node = None
         \/ /\ \A j \in 1..6 : LET x == respecNode(m, n)[j]
                               IN  /\ x.node = n /\ Rank(x.do) = j /\ x.do \in Recreates
                                   /\ x.do = "install" => x.join # None
            /\ \A w \in Recreates : \E j \in 1..6 : respecNode(m, n)[j].do = w
<1> DEFINE join == survivingControlPlane(m, n)
           c == respecNode(m, n)
<1>1. CASE join = None
  <2>1. \A j \in 1..6 : c[j] = Do("stuck", None, None)
    BY <1>1 DEF respecNode
  <2> QED BY <1>1, <2>1 DEF Do
<1>2. CASE join # None
  <2> DEFINE a == deleteNodeChildren(n)
             b == <<Do("vm", n, None), Do("install", n, join), Do("agent", n, None)>>
  <2>1. c = a \o b
    BY <1>2 DEF respecNode
  <2>2. join \in Node \cup {None}
    BY SurvivorIs
  <2> HIDE DEF join, c
  <2>3. \A w \in Recreates, to \in Node \cup {None} :
          /\ Do(w, n, to) \in Step /\ Do(w, n, to).do = w /\ Do(w, n, to).node = n
          /\ Do(w, n, to).join = to
    <3>1. Recreates \subseteq UNION {Doing(t) : t \in OpType}
      BY DEF Doing, OpType, Recreates
    <3>2. \A w, to : Do(w, n, to).join = to
      BY DEF Do
    <3> QED BY <3>1, <3>2, DoIs
  <2>4. /\ a \in Seq(Step) /\ Len(a) = 3 /\ a[1] = Do("delAgent", n, None)
        /\ a[2] = Do("delNode", n, None) /\ a[3] = Do("delVM", n, None)
    BY <2>3 DEF deleteNodeChildren, Recreates
  <2>5. /\ b \in Seq(Step) /\ Len(b) = 3 /\ b[1] = Do("vm", n, None)
        /\ b[2] = Do("install", n, join) /\ b[3] = Do("agent", n, None)
    BY <2>2, <2>3 DEF Recreates
  <2> HIDE DEF a, b
  <2>6. /\ \A i \in 1..Len(a) : (a \o b)[i] = a[i]
        /\ \A i \in 1..Len(b) : (a \o b)[Len(a) + i] = b[i]
    <3>1. a \in Seq(Step) /\ b \in Seq(Step)
      BY <2>4, <2>5
    <3> QED BY <3>1, Joined
  <2>7. /\ \A i \in 1..3 : c[i] = a[i]
        /\ \A i \in 1..3 : c[3 + i] = b[i]
    BY <2>1, <2>4, <2>5, <2>6
  <2>8. /\ c[1] = Do("delAgent", n, None) /\ c[2] = Do("delNode", n, None) /\ c[3] = Do("delVM", n, None)
        /\ c[4] = Do("vm", n, None) /\ c[5] = Do("install", n, join) /\ c[6] = Do("agent", n, None)
    <3>1. 1 \in 1..3 /\ 2 \in 1..3 /\ 3 \in 1..3 /\ 3 + 1 = 4 /\ 3 + 2 = 5 /\ 3 + 3 = 6
      OBVIOUS
    <3> QED BY <2>4, <2>5, <2>7, <3>1
  <2>9. /\ c[1].do = "delAgent" /\ c[2].do = "delNode" /\ c[3].do = "delVM"
        /\ c[4].do = "vm" /\ c[5].do = "install" /\ c[6].do = "agent" /\ c[5].join = join
        /\ c[1].node = n /\ c[2].node = n /\ c[3].node = n /\ c[4].node = n /\ c[5].node = n
        /\ c[6].node = n
    BY <2>2, <2>3, <2>8 DEF Recreates
  <2>10. \A j \in 1..6 : j = 1 \/ j = 2 \/ j = 3 \/ j = 4 \/ j = 5 \/ j = 6
    OBVIOUS
  <2>11. /\ Rank("delAgent") = 1 /\ Rank("delNode") = 2 /\ Rank("delVM") = 3
         /\ Rank("vm") = 4 /\ Rank("install") = 5 /\ Rank("agent") = 6
    BY DEF Rank
  <2>12. \A j \in 1..6 : /\ c[j].node = n /\ Rank(c[j].do) = j /\ c[j].do \in Recreates
                         /\ c[j].do = "install" => c[j].join # None
    BY <1>2, <2>9, <2>10, <2>11 DEF Recreates, join
  <2>13. \A w \in Recreates : \E j \in 1..6 : c[j].do = w
    <3>1. 1 \in 1..6 /\ 2 \in 1..6 /\ 3 \in 1..6 /\ 4 \in 1..6 /\ 5 \in 1..6 /\ 6 \in 1..6
      OBVIOUS
    <3> QED BY <2>9, <3>1 DEF Recreates
  <2> QED BY <2>12, <2>13 DEF c
<1> QED BY <1>1, <1>2

\* The recreations: their steps, and their order.
LEMMA RespecSteps ==
  ASSUME NEW m \in Manifest, NEW listed \in Seq(Node), IsInjective(listed), NEW S,
         Range(Those(listed, S)) \subseteq Wants(m)
  PROVE  LET nodes == Those(listed, S)
             P == respecNodesViaPlan(m, nodes)
         IN  /\ P \in Seq(Step) /\ InOrder(m, listed, P)
             /\ \A x \in Range(P) :
                  \/ /\ x.do = "stuck" /\ x.node = None
                     /\ \E n \in Range(nodes) : survivingControlPlane(m, n) = None
                  \/ /\ x.node \in Range(nodes) /\ x.do \in Recreates
                     /\ x.do = "install" => x.join # None
                     /\ \A w \in Recreates : \E y \in Range(P) : y.do = w /\ y.node = x.node
             /\ \A n \in Range(nodes) :
                  \/ \E x \in Range(P) : x.do = "stuck" /\ x.node = None
                  \/ \A w \in Recreates : \E y \in Range(P) : y.do = w /\ y.node = n
<1> DEFINE nodes == Those(listed, S)
           s == respecNodesViaPlan(m, nodes)
           L == Len(nodes)
           c(n) == respecNode(m, n)
           pos(i) == ((i - 1) \div 6) + 1
           off(i) == ((i - 1) % 6) + 1
           stuck(n) == /\ survivingControlPlane(m, n) = None
                       /\ \A j \in 1..6 : c(n)[j].do = "stuck" /\ c(n)[j].node = None
<1>1. nodes \in Seq(Node) /\ IsInjective(nodes)
  BY ThoseHolds
<1>2. \A a, b \in DOMAIN nodes : a < b =>
        \A p \in DOMAIN listed : nodes[a] = listed[p] =>
          \E q \in DOMAIN listed : nodes[b] = listed[q] /\ p <= q
  BY ThoseInOrder
<1>3. Range(nodes) \subseteq Wants(m)
  OBVIOUS
<1> HIDE DEF nodes
<1>4. L \in Nat /\ DOMAIN nodes = 1..L /\ \A p \in 1..L : nodes[p] \in Node /\ nodes[p] \in Range(nodes)
  BY <1>1, Held
<1>5. s \in Seq(Step)
  BY <1>1, Respeccing
<1>6. s = [i \in 1..(6 * L) |-> c(nodes[pos(i)])[off(i)]]
  BY DEF OneByOne, respecNodesViaPlan
<1>7. /\ \A i \in 1..(6 * L) : pos(i) \in 1..L /\ off(i) \in 1..6
      /\ \A p \in 1..L, j \in 1..6 :
           6 * (p - 1) + j \in 1..(6 * L) /\ pos(6 * (p - 1) + j) = p /\ off(6 * (p - 1) + j) = j
  BY <1>4, Places
<1>8. \A i, j \in 1..(6 * L) : i < j => pos(i) < pos(j) \/ (pos(i) = pos(j) /\ off(i) < off(j))
  BY <1>4, PlacesOrder
<1>9. \A n \in Node :
        \/ stuck(n)
        \/ /\ \A j \in 1..6 : /\ c(n)[j].node = n /\ Rank(c(n)[j].do) = j /\ c(n)[j].do \in Recreates
                              /\ c(n)[j].do = "install" => c(n)[j].join # None
           /\ \A w \in Recreates : \E j \in 1..6 : c(n)[j].do = w
  BY RespecSix
<1> HIDE DEF s, c, L, pos, off
<1>10. DOMAIN s = 1..(6 * L) /\ \A i \in 1..(6 * L) : s[i] = c(nodes[pos(i)])[off(i)]
  BY <1>6
<1>11. \A i \in 1..(6 * L) : \E p \in 1..L, j \in 1..6 :
         /\ p = pos(i) /\ j = off(i) /\ s[i] = c(nodes[p])[j]
         /\ nodes[p] \in Node /\ nodes[p] \in Range(nodes)
  BY <1>4, <1>7, <1>10
<1>12. \A p \in 1..L, j \in 1..6 : \E x \in Range(s) : x = c(nodes[p])[j]
  <2> TAKE p \in 1..L, j \in 1..6
  <2>1. s[6 * (p - 1) + j] = c(nodes[p])[j] /\ 6 * (p - 1) + j \in DOMAIN s
    BY <1>7, <1>10
  <2> QED BY <2>1 DEF Range
<1>13. \A n \in Range(nodes) : \E p \in 1..L : n = nodes[p] /\ n \in Node
  BY <1>4 DEF Range
<1>14. \A i \in 1..(6 * L) : \/ /\ s[i].do = "stuck" /\ s[i].node = None
                                /\ \E n \in Range(nodes) : survivingControlPlane(m, n) = None
                             \/ /\ s[i].node = nodes[pos(i)] /\ Rank(s[i].do) = off(i)
                                /\ s[i].do \in Recreates /\ (s[i].do = "install" => s[i].join # None)
                                /\ s[i].node \in Range(nodes) /\ ~stuck(s[i].node)
  <2> TAKE i \in 1..(6 * L)
  <2>1. PICK p \in 1..L, j \in 1..6 : /\ p = pos(i) /\ j = off(i) /\ s[i] = c(nodes[p])[j]
                                      /\ nodes[p] \in Node /\ nodes[p] \in Range(nodes)
    BY <1>11
  <2>2. CASE stuck(nodes[p])
    BY <2>1, <2>2
  <2>3. CASE ~stuck(nodes[p])
    <3> HIDE DEF stuck
    <3> QED BY <1>9, <2>1, <2>3
  <2> QED BY <2>2, <2>3
<1>15. \A n \in Range(nodes) : ~stuck(n) =>
         \A w \in Recreates : \E y \in Range(s) : y.do = w /\ y.node = n
  <2> TAKE n \in Range(nodes)
  <2> HAVE ~stuck(n)
  <2>1. PICK p \in 1..L : n = nodes[p] /\ n \in Node
    BY <1>13
  <2>2. /\ \A j \in 1..6 : c(n)[j].node = n
        /\ \A w \in Recreates : \E j \in 1..6 : c(n)[j].do = w
    <3> HIDE DEF stuck
    <3> QED BY <1>9, <2>1
  <2> QED BY <1>12, <2>1, <2>2
<1>16. \A n \in Range(nodes) : stuck(n) => \E x \in Range(s) : x.do = "stuck" /\ x.node = None
  <2> TAKE n \in Range(nodes)
  <2> HAVE stuck(n)
  <2>1. PICK p \in 1..L : n = nodes[p] /\ n \in Node
    BY <1>13
  <2>2. 1 \in 1..6
    OBVIOUS
  <2> QED BY <1>12, <2>1, <2>2
<1> HIDE DEF stuck
<1>17. InOrder(m, listed, s)
  <2>1. ASSUME NEW i \in DOMAIN s, NEW j \in DOMAIN s, i < j
        PROVE  Follows(m, listed, s[i], s[j])
    <3>1. CASE s[i].node = None \/ s[j].node = None
      BY <3>1, FollowsIf
    <3>2. CASE ~(s[i].node = None \/ s[j].node = None)
      <4>1. /\ s[i].node = nodes[pos(i)] /\ Rank(s[i].do) = off(i)
            /\ s[j].node = nodes[pos(j)] /\ Rank(s[j].do) = off(j)
            /\ s[j].node \in Wants(m)
        BY <1>3, <1>10, <1>14, <3>2
      <4>2. pos(i) \in 1..L /\ pos(j) \in 1..L
        BY <1>7, <1>10
      <4>3. CASE pos(i) < pos(j)
        <5>1. nodes[pos(i)] # nodes[pos(j)]
          BY <1>1, <1>4, <4>2, <4>3 DEF IsInjective
        <5>2. \A p \in DOMAIN listed : nodes[pos(i)] = listed[p] =>
                \E q \in DOMAIN listed : nodes[pos(j)] = listed[q] /\ p <= q
          BY <1>2, <1>4, <4>2, <4>3
        <5> QED BY <4>1, <5>1, <5>2 DEF Follows
      <4>4. CASE pos(i) = pos(j) /\ off(i) < off(j)
        <5>1. \A p \in DOMAIN listed : p <= p
          OBVIOUS
        <5> QED BY <4>1, <4>4, <5>1 DEF Follows
      <4> QED BY <1>8, <1>10, <2>1, <4>3, <4>4
    <3> QED BY <3>1, <3>2
  <2> QED BY <2>1 DEF InOrder
<1>18. \A x \in Range(s) :
         \/ /\ x.do = "stuck" /\ x.node = None
            /\ \E n \in Range(nodes) : survivingControlPlane(m, n) = None
         \/ /\ x.node \in Range(nodes) /\ x.do \in Recreates
            /\ x.do = "install" => x.join # None
            /\ \A w \in Recreates : \E y \in Range(s) : y.do = w /\ y.node = x.node
  <2> TAKE x \in Range(s)
  <2>1. PICK i \in 1..(6 * L) : x = s[i]
    BY <1>10 DEF Range
  <2> QED BY <1>14, <1>15, <2>1
<1>19. \A n \in Range(nodes) :
         \/ \E x \in Range(s) : x.do = "stuck" /\ x.node = None
         \/ \A w \in Recreates : \E y \in Range(s) : y.do = w /\ y.node = n
  BY <1>15, <1>16
<1> QED BY <1>5, <1>17, <1>18, <1>19 DEF s, nodes

LEMMA RemovedOnce ==
  ASSUME NEW m
  PROVE  IsInjective(removeWorkers(m) \o removeCPs(m))
<1> DEFINE w == removeWorkers(m)
           c == removeCPs(m)
<1>1. CPs \in Seq(Node) /\ Workers \in Seq(Node)
  BY ClusterConstants
<1>2. /\ w \in Seq(Node) /\ IsInjective(w) /\ Range(w) \subseteq Range(Workers)
      /\ c \in Seq(Node) /\ IsInjective(c) /\ Range(c) \subseteq Range(CPs)
  BY <1>1, ThoseHolds, Names DEF removeWorkers, removeCPs, Removed
<1> HIDE DEF w, c
<1>3. Range(w) \cap Range(c) = {}
  BY <1>2, Names
<1>4. IsInjective(w \o c)
  BY <1>2, <1>3, JoinedInjective
<1> QED BY <1>4 DEF w, c

\* The additions: their steps, and their order.
LEMMA AddSteps ==
  ASSUME NEW m \in Manifest, state \in State
  PROVE  LET A == addNodesViaPlan(m)
             new == Wants(m) \ Range(state.children)
         IN  /\ A \in Seq(Step) /\ InOrder(m, state.children, A)
             /\ \A x \in Range(A) :
                  \/ x.do = "stuck" /\ x.node = None /\ survivingControlPlane(m, None) = None
                  \/ /\ x.node \in new /\ x.do \in {"vm", "install", "agent"}
                     /\ x.do = "install" => x.join # None
             /\ \/ /\ survivingControlPlane(m, None) = None
                   /\ new # {} => \E x \in Range(A) : x.do = "stuck" /\ x.node = None
                \/ \A n \in new, w \in {"vm", "install", "agent"} :
                     \E x \in Range(A) : x.do = w /\ x.node = n
<1> DEFINE A == addNodesViaPlan(m)
           new == Wants(m) \ Range(state.children)
           l == state.children
           nodes == adds(m)
           join == survivingControlPlane(m, None)
           U == Each("vm", nodes, None)
           V == Each("install", nodes, join)
           W == Each("agent", nodes, None)
           stop == Do("stuck", None, None)
<1>1. nodes \in Seq(Node) /\ IsInjective(nodes) /\ Range(nodes) = new
  BY ChangePlan DEF Wants
<1>2. join \in Node \cup {None}
  BY SurvivorIs
<1>3. {"stuck", "vm", "install", "agent"} \subseteq UNION {Doing(t) : t \in OpType}
  BY DEF Doing, OpType
<1>4. stop \in Step /\ stop.do = "stuck" /\ stop.node = None
  BY <1>3, DoIs
<1>5. A = IF nodes = <<>> THEN <<>> ELSE IF join = None THEN <<stop>> ELSE (U \o V) \o W
  BY DEF addNodesViaPlan
<1>6. l \in Seq(Node)
  BY ChildrenAre DEF State
<1>7. nodes = <<>> => new = {}
  BY <1>1 DEF Range
<1>8. Range(nodes) \cap Range(l) = {}
  BY <1>1
<1> HIDE DEF nodes, join, stop, A, l, new
<1>9. /\ U \in Seq(Step) /\ \A x \in Range(U) : x.do = "vm" /\ x.node \in new
      /\ \A n \in new : \E x \in Range(U) : x.do = "vm" /\ x.node = n
  BY <1>1, <1>3, EachSteps
<1>10. /\ V \in Seq(Step) /\ \A x \in Range(V) : x.do = "install" /\ x.node \in new /\ x.join = join
       /\ \A n \in new : \E x \in Range(V) : x.do = "install" /\ x.node = n
  BY <1>1, <1>2, <1>3, EachSteps
<1>11. /\ W \in Seq(Step) /\ \A x \in Range(W) : x.do = "agent" /\ x.node \in new
       /\ \A n \in new : \E x \in Range(W) : x.do = "agent" /\ x.node = n
  BY <1>1, <1>3, EachSteps
<1>12. InOrder(m, l, U) /\ InOrder(m, l, V) /\ InOrder(m, l, W)
  BY <1>1, <1>6, <1>8, EachOrder
<1> HIDE DEF U, V, W
<1>13. \A x, y : x.node \in new /\ Rank(x.do) < Rank(y.do) => Follows(m, l, x, y)
  BY <1>1, <1>6, <1>8, FollowsIf
<1>14. /\ Rank("vm") < Rank("install") /\ Rank("install") < Rank("agent") /\ Rank("vm") < Rank("agent")
  BY DEF Rank
<1> DEFINE UV == U \o V
           UW == UV \o W
<1>15. UV \in Seq(Step) /\ Range(UV) = Range(U) \cup Range(V) /\ InOrder(m, l, UV)
  <2>1. \A x \in Range(U), y \in Range(V) : Follows(m, l, x, y)
    BY <1>9, <1>10, <1>13, <1>14
  <2>2. UV \in Seq(Step) /\ Range(UV) = Range(U) \cup Range(V)
    BY <1>9, <1>10, Joined
  <2>3. InOrder(m, l, UV)
    BY <1>9, <1>10, <1>12, <2>1, OrderJoined
  <2> QED BY <2>2, <2>3
<1> HIDE DEF UV
<1>16. UW \in Seq(Step) /\ Range(UW) = Range(UV) \cup Range(W) /\ InOrder(m, l, UW)
  <2>1. \A x \in Range(UV), y \in Range(W) : Follows(m, l, x, y)
    BY <1>9, <1>10, <1>11, <1>13, <1>14, <1>15
  <2>2. UW \in Seq(Step) /\ Range(UW) = Range(UV) \cup Range(W)
    BY <1>11, <1>15, Joined
  <2>3. InOrder(m, l, UW)
    BY <1>11, <1>12, <1>15, <2>1, OrderJoined
  <2> QED BY <2>2, <2>3
<1>17. A = IF nodes = <<>> THEN <<>> ELSE IF join = None THEN <<stop>> ELSE UW
  BY <1>5 DEF UV, UW
<1> HIDE DEF UW
<1> DEFINE Good ==
      /\ A \in Seq(Step) /\ InOrder(m, l, A)
      /\ \A x \in Range(A) :
           \/ x.do = "stuck" /\ x.node = None /\ join = None
           \/ /\ x.node \in new /\ x.do \in {"vm", "install", "agent"}
              /\ x.do = "install" => x.join # None
      /\ \/ /\ join = None
            /\ new # {} => \E x \in Range(A) : x.do = "stuck" /\ x.node = None
         \/ \A n \in new, w \in {"vm", "install", "agent"} :
              \E x \in Range(A) : x.do = w /\ x.node = n
<1>18. ASSUME nodes = <<>> PROVE Good
  <2>1. A \in Seq(Step) /\ Range(A) = {} /\ DOMAIN A = {}
    BY <1>17, <1>18 DEF Range
  <2>2. InOrder(m, l, A)
    BY <2>1 DEF InOrder
  <2> QED BY <1>7, <1>18, <2>1, <2>2
<1>19. ASSUME nodes # <<>>, join = None PROVE Good
  <2>1. A = <<stop>>
    BY <1>17, <1>19
  <2>2. A \in Seq(Step) /\ Range(A) = {stop} /\ InOrder(m, l, A)
    BY <1>4, <2>1, One, OneOrder
  <2> QED BY <1>4, <1>19, <2>2
<1>20. ASSUME nodes # <<>>, join # None PROVE Good
  <2>1. A = UW
    BY <1>17, <1>20
  <2>2. A \in Seq(Step) /\ InOrder(m, l, A) /\ Range(A) = Range(U) \cup Range(V) \cup Range(W)
    BY <1>15, <1>16, <2>1
  <2>3. \A x \in Range(A) : /\ x.node \in new /\ x.do \in {"vm", "install", "agent"}
                            /\ x.do = "install" => x.join # None
    BY <1>9, <1>10, <1>11, <1>20, <2>2
  <2>4. \A n \in new, w \in {"vm", "install", "agent"} : \E x \in Range(A) : x.do = w /\ x.node = n
    BY <1>9, <1>10, <1>11, <2>2
  <2> QED BY <2>2, <2>3, <2>4
<1>21. Good
  BY <1>18, <1>19, <1>20
<1> QED BY <1>21 DEF A, l, new, join

\* The order of a convergence, and what each node has to come.
LEMMA ConvergeOrder ==
  ASSUME NEW m \in Manifest, state \in State, NEW S,
         Range(Those(state.children, S)) \subseteq Wants(m)
  PROVE  LET respecs == Those(state.children, S)
             todo == applyExisting(m, respecs)
             old == Range(state.children)
         IN  /\ PlanOrder("converge", m, state.children, todo)
             /\ "rewrite" \in Coming(todo, None) /\ "stub" \notin Coming(todo, None)
             /\ \A n \in old \ Wants(m) : Coming(todo, n) = {"delAgent", "delNode", "delVM"}
             /\ \A n \in Wants(m) \ old : Coming(todo, n) \subseteq {"vm", "install", "agent"}
             /\ \/ survivingControlPlane(m, None) = None /\ (Wants(m) \ old # {} => "stuck" \in Coming(todo, None))
                \/ \A n \in Wants(m) \ old : {"vm", "install", "agent"} \subseteq Coming(todo, n)
             /\ \A n \in old \cap Wants(m) :
                  Coming(todo, n) = {} \/ (n \in Range(respecs) /\ Coming(todo, n) = Recreates)
             /\ \A n \in Range(respecs) : Coming(todo, n) = Recreates \/ "stuck" \in Coming(todo, None)
             /\ \A n \in Node : n \in old \cup Wants(m) \/ Coming(todo, n) = {}
             /\ \/ Coming(todo, None) \subseteq {"rewrite"}
                \/ \E n \in Range(respecs) \cup {None} : survivingControlPlane(m, n) = None
<1> DEFINE respecs == Those(state.children, S)
           todo == applyExisting(m, respecs)
           old == Range(state.children)
           l == state.children
           rm == removeWorkers(m) \o removeCPs(m)
           R == removeNodes(rm)
           A == addNodesViaPlan(m)
           P == respecNodesViaPlan(m, respecs)
           last == Do("rewrite", None, None)
           F == <<last>>
           del == {"delAgent", "delNode", "delVM"}
           mk == {"vm", "install", "agent"}
<1>1. l \in Seq(Node) /\ IsInjective(l) /\ old \subseteq Node /\ Wants(m) \subseteq Node
  <2>1. l \in Seq(Node) /\ IsInjective(l)
    BY ChildrenAre DEF State
  <2>2. NodeNames(m) \in Seq(Node)
    BY NamesOf
  <2> QED BY <2>1, <2>2, Held DEF Wants
<1>2. None \notin Node
  BY ClusterConstants
<1>3. Range(respecs) \subseteq old \cap Wants(m)
  BY <1>1, ThoseHolds
<1>4. rm \in Seq(Node) /\ IsInjective(rm) /\ Range(rm) = old \ Wants(m)
  BY ChangePlan, RemovedOnce DEF Wants
<1>5. /\ R \in Seq(Step) /\ InOrder(m, l, R)
      /\ \A x \in Range(R) : x.node \in old \ Wants(m) /\ x.do \in del
      /\ \A n \in old \ Wants(m), w \in del : \E x \in Range(R) : x.do = w /\ x.node = n
  <2> HIDE DEF rm
  <2>1. Range(rm) \cap Wants(m) = {}
    BY <1>4
  <2>2. /\ R \in Seq(Step) /\ InOrder(m, l, R)
        /\ \A x \in Range(R) : x.node \in Range(rm) /\ x.do \in del
        /\ \A n \in Range(rm), w \in del : \E x \in Range(R) : x.do = w /\ x.node = n
    BY <1>1, <1>4, <2>1, RemovalSteps
  <2> QED BY <1>4, <2>2
<1>6. /\ A \in Seq(Step) /\ InOrder(m, l, A)
      /\ \A x \in Range(A) : \/ x.do = "stuck" /\ x.node = None /\ survivingControlPlane(m, None) = None
                             \/ /\ x.node \in Wants(m) \ old /\ x.do \in mk
                                /\ x.do = "install" => x.join # None
      /\ \/ /\ survivingControlPlane(m, None) = None
            /\ Wants(m) \ old # {} => \E x \in Range(A) : x.do = "stuck" /\ x.node = None
         \/ \A n \in Wants(m) \ old, w \in mk : \E x \in Range(A) : x.do = w /\ x.node = n
  BY AddSteps
<1>7. /\ P \in Seq(Step) /\ InOrder(m, l, P)
      /\ \A x \in Range(P) : \/ /\ x.do = "stuck" /\ x.node = None
                                /\ \E n \in Range(respecs) : survivingControlPlane(m, n) = None
                             \/ /\ x.node \in Range(respecs) /\ x.do \in Recreates
                                /\ x.do = "install" => x.join # None
                                /\ \A w \in Recreates : \E y \in Range(P) : y.do = w /\ y.node = x.node
      /\ \A n \in Range(respecs) :
           \/ \E x \in Range(P) : x.do = "stuck" /\ x.node = None
           \/ \A w \in Recreates : \E y \in Range(P) : y.do = w /\ y.node = n
  BY <1>1, RespecSteps
<1>8. last \in Step /\ last.do = "rewrite" /\ last.node = None
  <2>1. "rewrite" \in UNION {Doing(t) : t \in OpType}
    BY DEF Doing, OpType
  <2> QED BY <2>1, DoIs
<1>9. F \in Seq(Step) /\ Range(F) = {last} /\ InOrder(m, l, F)
  BY <1>8, One, OneOrder
<1>10. todo = ((R \o A) \o P) \o F
  BY DEF applyExisting
<1> HIDE DEF todo, R, A, P, F, last, l, old, respecs, rm
<1>11. \A x, y : \/ x.node = None
                 \/ y.node = None
                 \/ x.node \notin old \cap Wants(m) /\ x.node # y.node
                 => Follows(m, l, x, y)
  BY <1>1, FollowsIf DEF old, l
<1> DEFINE RA == R \o A
           RP == RA \o P
           RF == RP \o F
<1>12. RA \in Seq(Step) /\ Range(RA) = Range(R) \cup Range(A) /\ InOrder(m, l, RA)
  <2>1. \A x \in Range(R), y \in Range(A) : Follows(m, l, x, y)
    BY <1>5, <1>6, <1>11
  <2>2. RA \in Seq(Step) /\ Range(RA) = Range(R) \cup Range(A)
    BY <1>5, <1>6, Joined
  <2>3. InOrder(m, l, RA)
    BY <1>5, <1>6, <2>1, OrderJoined
  <2> QED BY <2>2, <2>3
<1> HIDE DEF RA
<1>13. RP \in Seq(Step) /\ Range(RP) = Range(RA) \cup Range(P) /\ InOrder(m, l, RP)
  <2>1. \A x \in Range(RA) : x.node = None \/ x.node \notin old \cap Wants(m)
    BY <1>5, <1>6, <1>12
  <2>2. \A y \in Range(P) : y.node = None \/ y.node \in old \cap Wants(m)
    BY <1>3, <1>7
  <2>3. \A x \in Range(RA), y \in Range(P) : Follows(m, l, x, y)
    BY <1>11, <2>1, <2>2
  <2>4. RP \in Seq(Step) /\ Range(RP) = Range(RA) \cup Range(P)
    BY <1>7, <1>12, Joined
  <2>5. InOrder(m, l, RP)
    BY <1>7, <1>12, <2>3, OrderJoined
  <2> QED BY <2>4, <2>5
<1> HIDE DEF RP
<1>14. RF \in Seq(Step) /\ Range(RF) = Range(RP) \cup {last} /\ InOrder(m, l, RF)
  <2>1. \A x \in Range(RP), y \in Range(F) : Follows(m, l, x, y)
    BY <1>8, <1>9, <1>11
  <2>2. RF \in Seq(Step) /\ Range(RF) = Range(RP) \cup Range(F)
    BY <1>9, <1>13, Joined
  <2>3. InOrder(m, l, RF)
    BY <1>9, <1>13, <2>1, OrderJoined
  <2> QED BY <1>9, <2>2, <2>3
<1> HIDE DEF RF
<1>15. todo = RF
  BY <1>10 DEF RA, RP, RF
<1>16. todo \in Seq(Step) /\ InOrder(m, l, todo) /\ Range(todo) = Range(R) \cup Range(A) \cup Range(P) \cup {last}
  BY <1>12, <1>13, <1>14, <1>15
<1>17. PlanOrder("converge", m, l, todo)
  <2>1. \A x \in Range(todo) : x.do \notin Onward
    BY <1>5, <1>6, <1>7, <1>8, <1>16 DEF Onward, Recreates
  <2>2. \A x \in Range(todo) : ~(x.do = "install" /\ x.join = None)
    BY <1>5, <1>6, <1>7, <1>8, <1>16
  <2> QED BY <1>16, <2>1, <2>2, MadeOrder
<1>18. \A n, v : v \in Coming(todo, n) <=> \E x \in Range(todo) : x.do = v /\ x.node = n
  BY ComesOf
<1>19. "rewrite" \in Coming(todo, None) /\ "stub" \notin Coming(todo, None)
  <2>1. last \in Range(todo)
    BY <1>16
  <2>2. \A x \in Range(todo) : x.do # "stub"
    BY <1>5, <1>6, <1>7, <1>8, <1>16 DEF Recreates
  <2> QED BY <1>8, <1>18, <2>1, <2>2
<1>20. ASSUME NEW n \in old \ Wants(m) PROVE Coming(todo, n) = del
  <2>1. \A x \in Range(todo) : x.node = n => x.do \in del
    BY <1>1, <1>2, <1>3, <1>5, <1>6, <1>7, <1>8, <1>16
  <2>2. \A w \in del : \E x \in Range(todo) : x.do = w /\ x.node = n
    BY <1>5, <1>16
  <2>3. \A v : v \in Coming(todo, n) <=> v \in del
    BY <1>18, <2>1, <2>2
  <2> QED BY <2>3
<1>21. ASSUME NEW n \in Wants(m) \ old PROVE Coming(todo, n) \subseteq mk
  <2>1. \A x \in Range(todo) : x.node = n => x.do \in mk
    BY <1>1, <1>2, <1>3, <1>5, <1>6, <1>7, <1>8, <1>16
  <2> QED BY <1>18, <2>1
<1>22. \/ survivingControlPlane(m, None) = None /\ (Wants(m) \ old # {} => "stuck" \in Coming(todo, None))
       \/ \A n \in Wants(m) \ old : mk \subseteq Coming(todo, n)
  <2>1. CASE \A n \in Wants(m) \ old, w \in mk : \E x \in Range(A) : x.do = w /\ x.node = n
    BY <1>16, <1>18, <2>1
  <2>2. CASE ~ \A n \in Wants(m) \ old, w \in mk : \E x \in Range(A) : x.do = w /\ x.node = n
    BY <1>6, <1>16, <1>18, <2>2
  <2> QED BY <2>1, <2>2
<1>23. ASSUME NEW n \in old \cap Wants(m)
       PROVE  Coming(todo, n) = {} \/ (n \in Range(respecs) /\ Coming(todo, n) = Recreates)
  <2>1. \A x \in Range(todo) : x.node = n =>
          /\ n \in Range(respecs) /\ x.do \in Recreates
          /\ \A w \in Recreates : \E y \in Range(todo) : y.do = w /\ y.node = n
    <3> TAKE x \in Range(todo)
    <3> HAVE x.node = n
    <3>1. n # None
      BY <1>1, <1>2
    <3>2. x \in Range(P)
      BY <1>5, <1>6, <1>8, <1>16, <3>1
    <3>3. /\ n \in Range(respecs) /\ x.do \in Recreates
          /\ \A w \in Recreates : \E y \in Range(P) : y.do = w /\ y.node = n
      BY <1>7, <3>1, <3>2
    <3> QED BY <1>16, <3>3
  <2>2. CASE \A x \in Range(todo) : x.node # n
    BY <1>18, <2>2
  <2>3. CASE \E x \in Range(todo) : x.node = n
    <3>1. n \in Range(respecs) /\ \A w \in Recreates : \E y \in Range(todo) : y.do = w /\ y.node = n
      BY <2>1, <2>3
    <3>2. \A v : v \in Coming(todo, n) <=> v \in Recreates
      BY <1>18, <2>1, <3>1
    <3> QED BY <3>1, <3>2
  <2> QED BY <2>2, <2>3
<1>24. ASSUME NEW n \in Range(respecs) PROVE Coming(todo, n) = Recreates \/ "stuck" \in Coming(todo, None)
  <2>1. CASE \E x \in Range(P) : x.do = "stuck" /\ x.node = None
    BY <1>16, <1>18, <2>1
  <2>2. CASE \A w \in Recreates : \E y \in Range(P) : y.do = w /\ y.node = n
    <3>1. "vm" \in Coming(todo, n)
      BY <1>16, <1>18, <2>2 DEF Recreates
    <3> QED BY <1>3, <1>23, <3>1
  <2> QED BY <1>7, <2>1, <2>2
<1>25. ASSUME NEW n \in Node, n \notin old \cup Wants(m) PROVE Coming(todo, n) = {}
  <2>1. \A x \in Range(todo) : x.node # n
    BY <1>2, <1>3, <1>5, <1>6, <1>7, <1>8, <1>16, <1>25
  <2> QED BY <1>18, <2>1
<1>26. \/ Coming(todo, None) \subseteq {"rewrite"}
       \/ \E n \in Range(respecs) \cup {None} : survivingControlPlane(m, n) = None
  <2> SUFFICES ASSUME \A n \in Range(respecs) \cup {None} : survivingControlPlane(m, n) # None
               PROVE  Coming(todo, None) \subseteq {"rewrite"}
    OBVIOUS
  <2>1. \A x \in Range(todo) : x.node = None => x.do = "rewrite"
    BY <1>1, <1>2, <1>3, <1>5, <1>6, <1>7, <1>8, <1>16
  <2> QED BY <1>18, <2>1
<1> HIDE DEF del, mk
<1> QED BY <1>17, <1>19, <1>20, <1>21, <1>22, <1>23, <1>24, <1>25, <1>26 DEF todo, respecs, old, l, del, mk

\* Nothing repeated: as many nodes as entries.
LEMMA LengthIs ==
  ASSUME NEW s \in Seq(Node), IsInjective(s)
  PROVE  IsFiniteSet(Range(s)) /\ Cardinality(Range(s)) = Len(s)
<1>1. s \in [1..Len(s) -> Range(s)] /\ Len(s) \in Nat /\ DOMAIN s = 1..Len(s)
  <2>1. s \in [1..Len(s) -> Node] /\ Len(s) \in Nat
    OBVIOUS
  <2>2. \A i \in 1..Len(s) : s[i] \in Range(s)
    BY Held
  <2> QED BY <2>1, <2>2
<1>2. \A x \in Range(s) : \E i \in 1..Len(s) : s[i] = x
  BY <1>1 DEF Range
<1>3. s \in Surjection(1..Len(s), Range(s)) /\ s \in Injection(1..Len(s), Range(s))
  BY <1>1, <1>2 DEF Surjection, Injection
<1>4. IsFiniteSet(1..Len(s)) /\ Cardinality(1..Len(s)) = Len(s)
  <2> DEFINE L == Len(s)
  <2>1. L \in Nat
    BY <1>1
  <2> HIDE DEF L
  <2>2. IsFiniteSet(1..L) /\ Cardinality(1..L) = L
    BY <2>1, FS_Interval
  <2> QED BY <2>2 DEF L
<1> QED BY <1>3, <1>4, FS_Surjection

\* How many control planes a convergence finds, removes and adds.
LEMMA Counted ==
  ASSUME NEW m, NEW nodes \in {CPs, Workers}
  PROVE  /\ Len(Removed(m, nodes)) = Cardinality(Range(nodes) \cap (Range(state.children) \ Wants(m)))
         /\ Len(Added(m, nodes)) = Cardinality(Range(nodes) \cap (Wants(m) \ Range(state.children)))
<1>1. nodes \in Seq(Node) /\ IsInjective(nodes)
  BY Names, ClusterConstants
<1>2. \A S : Len(Those(nodes, S)) = Cardinality(Range(nodes) \cap S)
  <2> TAKE S
  <2>1. /\ Those(nodes, S) \in Seq(Node) /\ IsInjective(Those(nodes, S))
        /\ Range(Those(nodes, S)) = Range(nodes) \cap S
    BY <1>1, ThoseHolds
  <2>2. Cardinality(Range(Those(nodes, S))) = Len(Those(nodes, S))
    BY <2>1, LengthIs
  <2> QED BY <2>1, <2>2
<1> QED BY <1>2 DEF Removed, Added, Wants

\* How a sound convergence begins.
LEMMA ConvergeBegins ==
  ASSUME TypeOK, NEW m \in Manifest, Converge(m), Sounds'
  PROVE  /\ Sound /\ Ready /\ state \in State
         /\ UNCHANGED <<vm, row, k3s, nodeState, agent, agentState, state>> /\ upgrade' = None
         /\ op' # None /\ op'.type = "converge" /\ op'.m = m /\ op'.listed = state.children
         /\ \E S : LET respecs == Those(state.children, S)
                       changes == removed(m) # {} \/ adds(m) # <<>> \/ respecs # <<>>
                   IN  /\ Range(respecs) \subseteq Wants(m)
                       /\ \A n \in Range(state.children) \cap Wants(m) :
                            n \in Range(respecs) \/ vm[n] = None \/ vm[n].size = desiredSizeFor(m, n)
                       /\ changes => Gated(m, respecs)
                       /\ op'.todo = IF changes THEN applyExisting(m, respecs) ELSE <<>>
                       /\ op'.gap \/ ~Gap(m, respecs)
<1>1. state # None /\ state \in State /\ Ready
  BY DEF Converge, Ready, TypeOK
<1>2. PICK unseen \in {{}} \cup {{n} : n \in Range(state.children)} :
        LET respecs == computeSpecRespecs(m, unseen)
            changes == removed(m) # {} \/ adds(m) # <<>> \/ respecs # <<>>
        IN  /\ changes => Gated(m, respecs)
            /\ Begins("converge", m, IF changes THEN applyExisting(m, respecs) ELSE <<>>,
                      Sound /\ unseen = {}, Gap(m, respecs))
  BY DEF Converge
<1> DEFINE S == {n \in Node : /\ n \notin removed(m) \cup unseen
                              /\ vm[n] # None /\ vm[n].size # desiredSizeFor(m, n)}
           respecs == Those(state.children, S)
           changes == removed(m) # {} \/ adds(m) # <<>> \/ respecs # <<>>
           todo == IF changes THEN applyExisting(m, respecs) ELSE <<>>
           sound == Sound /\ unseen = {}
           gap == Gap(m, respecs)
<1>3. Begins("converge", m, todo, sound, gap) /\ (changes => Gated(m, respecs))
  BY <1>2 DEF computeSpecRespecs
<1>4. op' = [type |-> "converge", m |-> m, todo |-> todo, gap |-> gap,
             listed |-> IF state = None THEN <<>> ELSE state.children, sound |-> sound]
  BY <1>3 DEF Begins
<1>5. sound
  <2> HIDE DEF sound, todo, gap
  <2> QED BY <1>4 DEF Sounds
<1>6. Sound /\ unseen = {}
  BY <1>5
<1>7. UNCHANGED <<vm, row, k3s, nodeState, agent, agentState, state>> /\ upgrade' = None
  BY <1>3, <1>6 DEF Begins, vmVars, nodeVars, Sound
<1>8. removed(m) = Range(state.children) \ Wants(m) /\ Range(state.children) \subseteq Node
  <2>1. state.children \in Seq(Node)
    BY <1>1, ChildrenAre DEF State
  <2> QED BY <1>1, <2>1, ChangePlan, Held DEF Wants
<1>9. Range(respecs) = Range(state.children) \cap S
  <2>1. state.children \in Seq(Node)
    BY <1>1, ChildrenAre DEF State
  <2> HIDE DEF S
  <2> QED BY <2>1, ThoseHolds
<1>10. Range(respecs) \subseteq Wants(m)
  BY <1>8, <1>9
<1>11. \A n \in Range(state.children) \cap Wants(m) :
         n \in Range(respecs) \/ vm[n] = None \/ vm[n].size = desiredSizeFor(m, n)
  BY <1>6, <1>8, <1>9
<1>12. /\ op'.type = "converge" /\ op'.m = m /\ op'.listed = state.children
       /\ op'.todo = todo /\ (op'.gap \/ ~gap)
  <2> HIDE DEF sound, todo, gap
  <2> QED BY <1>1, <1>4
<1>13. op' # None
  BY DEF Sounds
<1> HIDE DEF S
<1> QED BY <1>1, <1>3, <1>6, <1>7, <1>10, <1>11, <1>12, <1>13

\* An unforced convergence has a control plane to join for whatever it adds or
\* recreates.
LEMMA SomebodyToJoin ==
  ASSUME NEW m \in Manifest, state \in State, NEW respecs,
         Range(respecs) \subseteq Range(state.children) \cap Wants(m), Gated(m, respecs), ~m.force,
         NEW n \in Range(respecs) \cup {None}
  PROVE  survivingControlPlane(m, n) # None
<1> SUFFICES ASSUME survivingControlPlane(m, n) = None PROVE FALSE
  OBVIOUS
<1> DEFINE T == Those(CPs, (Range(state.children) \ removed(m)) \ {n})
           old == Range(state.children)
           H == Range(CPs) \cap old
           R == Range(CPs) \cap (old \ Wants(m))
<1>1. CPs \in Seq(Node) /\ None \notin Node /\ IsInjective(CPs)
  BY ClusterConstants, Names
<1>2. T \in Seq(Node) /\ Range(T) = Range(CPs) \cap ((old \ removed(m)) \ {n})
  BY <1>1, ThoseHolds
<1>3. survivingControlPlane(m, n) = IF T = <<>> THEN None ELSE Head(T)
  BY DEF survivingControlPlane
<1> HIDE DEF T
<1>4. T = <<>>
  <2>1. T # <<>> => Head(T) \in Node
    BY <1>2
  <2> QED BY <1>1, <1>3, <2>1
<1>5. Range(T) = {}
  BY <1>4 DEF Range
<1>6. removed(m) = old \ Wants(m)
  BY ChangePlan DEF Wants
<1>7. ~catastrophicReason(m) /\ ~catastrophicRespecReason(respecs)
  BY DEF Gated
<1>8. Have(CPs) = Cardinality(H) /\ Len(removeCPs(m)) = Cardinality(R)
  BY Counted DEF Have, removeCPs
<1>9. IsFiniteSet(H) /\ IsFiniteSet(R) /\ Cardinality(H) \in Nat /\ Cardinality(R) \in Nat
  <2>1. IsFiniteSet(Range(CPs))
    BY <1>1, LengthIs
  <2>2. H \subseteq Range(CPs) /\ R \subseteq Range(CPs)
    OBVIOUS
  <2> HIDE DEF H, R
  <2> QED BY <2>1, <2>2, FS_Subset, FS_CardinalityType
<1>10. H \subseteq R \cup {n}
  BY <1>2, <1>5, <1>6
<1>11. CASE n \in H /\ n \notin R
  <2>1. H = R \cup {n}
    BY <1>10, <1>11
  <2> HIDE DEF H, R
  <2>2. Cardinality(H) = Cardinality(R) + 1
    BY <1>9, <1>11, <2>1, FS_AddElement
  <2>3. n \in Range(respecs) /\ IsCP(n)
    BY <1>1, <1>11, Held DEF H, IsCP
  <2>4. ~(Cardinality(H) <= 1)
    BY <1>7, <1>8, <2>3 DEF catastrophicRespecReason
  <2>5. ~(Cardinality(H) > 1 /\ Cardinality(H) - Cardinality(R) < (Cardinality(H) + 2) \div 2)
    BY <1>7, <1>8 DEF catastrophicReason
  <2> QED BY <1>9, <2>2, <2>4, <2>5
<1>12. CASE n \notin H \/ n \in R
  <2>1. H = R
    BY <1>10, <1>12
  <2>2. ~(Cardinality(H) - Cardinality(R) <= 0)
    BY <1>7, <1>8 DEF catastrophicReason
  <2> HIDE DEF H, R
  <2> QED BY <1>9, <2>1, <2>2
<1> QED BY <1>11, <1>12

\* A convergence that begins soundly.
LEMMA ConvergeSound ==
  ASSUME TypeOK, NEW m \in Manifest, Converge(m)
  PROVE  SoundInv'
<1> SUFFICES ASSUME Sounds' PROVE SoundInv'
  BY DEF SoundInv
<1> DEFINE old == Range(state.children)
<1>1. /\ Sound /\ Ready /\ state \in State
      /\ UNCHANGED <<vm, row, k3s, nodeState, agent, agentState, state>> /\ upgrade' = None
      /\ op' # None /\ op'.type = "converge" /\ op'.m = m /\ op'.listed = state.children
  BY ConvergeBegins
<1>2. PICK S : LET respecs == Those(state.children, S)
                   changes == removed(m) # {} \/ adds(m) # <<>> \/ respecs # <<>>
               IN  /\ Range(respecs) \subseteq Wants(m)
                   /\ \A n \in old \cap Wants(m) :
                        n \in Range(respecs) \/ vm[n] = None \/ vm[n].size = desiredSizeFor(m, n)
                   /\ changes => Gated(m, respecs)
                   /\ op'.todo = IF changes THEN applyExisting(m, respecs) ELSE <<>>
                   /\ op'.gap \/ ~Gap(m, respecs)
  BY ConvergeBegins
<1> DEFINE respecs == Those(state.children, S)
           changes == removed(m) # {} \/ adds(m) # <<>> \/ respecs # <<>>
           todo == op'.todo
<1>3. /\ Range(respecs) \subseteq Wants(m)
      /\ \A n \in old \cap Wants(m) :
           n \in Range(respecs) \/ vm[n] = None \/ vm[n].size = desiredSizeFor(m, n)
      /\ changes => Gated(m, respecs)
      /\ todo = IF changes THEN applyExisting(m, respecs) ELSE <<>>
  BY <1>2
<1>4. /\ removed(m) = old \ Wants(m) /\ Range(adds(m)) = Wants(m) \ old /\ adds(m) \in Seq(Node)
      /\ old \subseteq Node /\ Wants(m) \subseteq Node
  <2>1. state.children \in Seq(Node) /\ NodeNames(m) \in Seq(Node)
    BY <1>1, ChildrenAre, NamesOf DEF State
  <2> QED BY <1>1, <2>1, ChangePlan, Held DEF Wants
<1>5. \A n : ToCome(n)' = Coming(todo, n)
  BY DEF ToCome
<1>6. SameCluster'
  BY <1>1 DEF SameCluster, Sound, OneCluster
<1>7. \A n \in Node : Up(n)' = Up(n)
  BY <1>1 DEF Up, Runs
<1>8. /\ \A n \in Node : /\ nodeState[n] # 0 => Up(n) /\ k3s[n].gen = nodeState[n]
                         /\ agentState[n] => agent[n]
                         /\ row[n] # None /\ vm[n] # None => row[n] = vm[n].size
      /\ \A n \in old : Up(n) /\ agent[n] /\ vm[n] # None /\ nodeState[n] # 0
  BY <1>1 DEF Sound, FilesTrue, Healthy, Up, Runs
<1>9. Range(respecs) \subseteq old \cap Wants(m)
  <2>1. state.children \in Seq(Node)
    BY <1>1, ChildrenAre DEF State
  <2> QED BY <1>3, <2>1, ThoseHolds
<1>10. CASE ~changes
  <2>1. removed(m) = {} /\ adds(m) = <<>> /\ respecs = <<>> /\ todo = <<>>
    BY <1>3, <1>10
  <2>2. old = Wants(m) /\ Range(respecs) = {}
    BY <1>4, <2>1 DEF Range
  <2>3. \A n : ToCome(n)' = {}
    BY <1>5, <2>1 DEF Coming
  <2> HIDE DEF respecs, changes
  <2>4. OrderInv'
    BY <2>1 DEF OrderInv, PlanOrder, InOrder
  <2>5. ClosingInv'
    BY <1>1, <2>2, <2>3 DEF ClosingInv, Ready
  <2>6. ASSUME NEW n \in Node PROVE FilesInv(n)'
    BY <1>1, <1>7, <1>8, <2>3 DEF FilesInv
  <2>7. ASSUME NEW n \in Wants(m) PROVE WantedInv(n)'
    <3>1. vm[n].size = desiredSizeFor(m, n) /\ vm[n] # None /\ agent[n] /\ nodeState[n] # 0
      BY <1>3, <1>8, <2>2
    <3>2. Wanted(n)' = desiredSizeFor(m, n)
      BY <1>1 DEF Wanted, desiredSizeFor
    <3> QED BY <1>1, <2>3, <3>1, <3>2 DEF WantedInv
  <2> QED BY <1>1, <1>6, <2>4, <2>5, <2>6, <2>7 DEF SoundInv
<1>11. CASE changes
  <2>1. todo = applyExisting(m, respecs) /\ Gated(m, respecs)
    BY <1>3, <1>11
  <2>2. /\ PlanOrder("converge", m, state.children, todo)
        /\ "rewrite" \in Coming(todo, None) /\ "stub" \notin Coming(todo, None)
        /\ \A n \in old \ Wants(m) : Coming(todo, n) = {"delAgent", "delNode", "delVM"}
        /\ \A n \in Wants(m) \ old : Coming(todo, n) \subseteq {"vm", "install", "agent"}
        /\ \/ survivingControlPlane(m, None) = None /\ (Wants(m) \ old # {} => "stuck" \in Coming(todo, None))
           \/ \A n \in Wants(m) \ old : {"vm", "install", "agent"} \subseteq Coming(todo, n)
        /\ \A n \in old \cap Wants(m) :
             Coming(todo, n) = {} \/ (n \in Range(respecs) /\ Coming(todo, n) = Recreates)
        /\ \A n \in Range(respecs) : Coming(todo, n) = Recreates \/ "stuck" \in Coming(todo, None)
        /\ \A n \in Node : n \in old \cup Wants(m) \/ Coming(todo, n) = {}
    BY <1>1, <1>3, <2>1, ConvergeOrder
  <2> HIDE DEF respecs, todo, changes
  <2>3. OrderInv'
    BY <1>1, <2>2 DEF OrderInv, Recreated, todo
  <2>4. ClosingInv'
    BY <1>5, <2>2 DEF ClosingInv
  <2>5. ASSUME NEW n \in Node PROVE FilesInv(n)'
    <3> DEFINE T == Coming(todo, n)
    <3>1. T \cap Destroys # {} => n \in old
      BY <1>4, <2>2 DEF Destroys, Recreates
    <3>2. T \subseteq Recreates /\ ("delVM" \in T => {"delNode", "delAgent"} \subseteq T)
      BY <1>4, <2>2 DEF Recreates
    <3>3. ToCome(n)' = T
      BY <1>5
    <3> HIDE DEF T
    <3> QED BY <1>1, <1>7, <1>8, <3>1, <3>2, <3>3 DEF FilesInv, Recreates
  <2>6. ASSUME NEW n \in Wants(m) PROVE WantedInv(n)'
    <3>1. Wanted(n)' = desiredSizeFor(m, n)
      BY <1>1 DEF Wanted, desiredSizeFor
    <3>2. ToCome(n)' = Coming(todo, n) /\ ToCome(None)' = Coming(todo, None)
      BY <1>5
    <3>3. CASE n \in old
      <4>1. vm[n] # None /\ agent[n] /\ nodeState[n] # 0
        BY <1>8, <3>3
      <4>2. vm[n].size = desiredSizeFor(m, n) \/ Coming(todo, n) = Recreates \/ "stuck" \in Coming(todo, None)
        BY <1>3, <2>2, <3>3, <4>1
      <4>3. Coming(todo, n) = {} \/ Coming(todo, n) = Recreates
        BY <2>2, <3>3
      <4> QED BY <1>1, <3>1, <3>2, <4>1, <4>2, <4>3 DEF WantedInv, Recreates, Stuck
    <3>4. CASE n \notin old
      <4>1. Coming(todo, n) \subseteq {"vm", "install", "agent"}
        BY <2>2, <3>4
      <4>2. \/ {"vm", "install", "agent"} \subseteq Coming(todo, n)
            \/ "stuck" \in Coming(todo, None) /\ m.force
        <5>1. CASE survivingControlPlane(m, None) = None /\ "stuck" \in Coming(todo, None)
          <6>1. ~m.force => survivingControlPlane(m, None) # None
            BY <1>1, <1>9, <2>1, SomebodyToJoin
          <6> QED BY <5>1, <6>1
        <5> QED BY <2>2, <3>4, <5>1
      <4> QED BY <1>1, <3>1, <3>2, <3>4, <4>1, <4>2 DEF WantedInv, Destroys, Stuck
    <3> QED BY <3>3, <3>4
  <2> QED BY <1>1, <1>6, <2>3, <2>4, <2>5, <2>6 DEF SoundInv
<1> QED BY <1>10, <1>11

\* A step changes neither what an operation is nor whether it began soundly.
LEMMA StepsKeep ==
  ASSUME TypeOK, op # None, Done \/ \E w : GoesOn(w)
  PROVE  op'.sound = op.sound /\ op'.type = op.type
<1>1. op \in Oper
  BY DEF TypeOK
<1>2. \A t : [op EXCEPT !.todo = t].sound = op.sound /\ [op EXCEPT !.todo = t].type = op.type
  BY <1>1 DEF Oper
<1>3. \E t : op' = [op EXCEPT !.todo = t]
  BY DEF Done, GoesOn
<1> QED BY <1>2, <1>3

\* The steps of an operation.
LEMMA StepIs ==
  ASSUME \/ \E n \in Node : NodeStep(n) /\ ~VMLost(n)
         \/ StubSaved \/ CASaved \/ ReadySaved \/ StateRewritten
  PROVE  op # None /\ (Done \/ (\E w : GoesOn(w)) \/ op' = op)
<1> DEFINE Good == op # None /\ (Done \/ (\E w : GoesOn(w)) \/ op' = op)
<1>1. ASSUME NEW n \in Node, NodeStep(n), ~VMLost(n) PROVE Good
  <2>1. CASE VMCached(n) \/ VMCreated(n) \/ VMResized(n) \/ VMStarted(n) \/ VMSaved(n)
    BY <2>1 DEF VMCached, VMCreated, VMResized, VMStarted, VMSaved, At
  <2>2. CASE AlreadyInstalled(n) \/ InstallFirst(n) \/ InstallJoining(n) \/ NodeSaved(n)
    BY <2>2 DEF AlreadyInstalled, InstallFirst, InstallJoining, Installs, NodeSaved, At
  <2>3. CASE AgentAlready(n) \/ AgentInstalled(n) \/ AgentSaved(n)
    BY <2>3 DEF AgentAlready, AgentInstalled, AgentSaved, At
  <2>4. CASE \/ NothingToRemove(n) \/ AgentUninstalled(n) \/ AgentForgotten(n)
             \/ NodeUninstalled(n) \/ NodeForgotten(n)
    BY <2>4 DEF NothingToRemove, AgentUninstalled, AgentForgotten, NodeUninstalled, NodeForgotten, At
  <2>5. CASE VMStopped(n) \/ VMDeleted(n) \/ RowDeleted(n) \/ VMDestroyed(n) \/ FilesRemoved(n)
    BY <2>5 DEF VMStopped, VMDeleted, RowDeleted, VMDestroyed, FilesRemoved, At
  <2> HIDE DEF Good
  <2> QED BY <1>1, <2>1, <2>2, <2>3, <2>4, <2>5 DEF NodeStep
<1>2. CASE StubSaved \/ CASaved \/ ReadySaved \/ StateRewritten
  BY <1>2 DEF StubSaved, CASaved, ReadySaved, StateRewritten, At
<1> QED BY <1>1, <1>2

\* Every step keeps SoundInv.
LEMMA SoundStep ==
  ClusterInv /\ SoundInv /\ [Next]_vars => SoundInv'
<1> SUFFICES ASSUME ClusterInv, SoundInv, [Next]_vars PROVE SoundInv'
  OBVIOUS
<1>0. TypeOK /\ OpInv /\ ListInv /\ DeleteFindsAll /\ left \in Bounds /\ op \in Oper \cup {None}
  BY DEF ClusterInv, TypeOK
<1>1. ASSUME ~Sounds' PROVE SoundInv'
  BY <1>1 DEF SoundInv
<1>2. CASE UNCHANGED vars
  BY <1>2 DEF SoundInv, Sounds, OrderInv, Recreated, SameCluster, ClosingInv, FilesInv, WantedInv,
              ToCome, Stuck, Up, Runs, Ready, Wanted, desiredSizeFor, vars, vmVars, nodeVars
<1>3. ASSUME NEW m \in left.manifests, Create(m) \/ Converge(m) PROVE SoundInv'
  <2>1. m \in Manifest
    BY <1>0 DEF Bounds
  <2> QED BY <1>0, <1>3, <2>1, CreateSound, ConvergeSound
<1>4. CASE Delete
  <2>1. op'.type = "delete"
    BY <1>4 DEF Delete, Begins
  <2> QED BY <1>1, <2>1 DEF Sounds
<1>5. CASE Fails \/ StateRemoved
  BY <1>1, <1>5 DEF Fails, StateRemoved, Sounds
<1>6. ASSUME \/ \E n \in Node : NodeStep(n) /\ ~VMLost(n)
             \/ StubSaved \/ CASaved \/ ReadySaved \/ StateRewritten
      PROVE  SoundInv'
  <2>1. CASE Sounds
    BY <1>0, <1>6, <2>1, NodeSound, StubSound, CASound, ReadySound, RewriteSound
  <2>2. CASE ~Sounds
    <3>1. op # None /\ (Done \/ (\E w : GoesOn(w)) \/ op' = op)
      BY <1>6, StepIs
    <3>2. op'.sound = op.sound /\ op'.type = op.type
      BY <1>0, <3>1, StepsKeep
    <3>3. ~Sounds'
      BY <2>2, <3>1, <3>2 DEF Sounds
    <3> QED BY <1>1, <3>3
  <2> QED BY <2>1, <2>2
<1>7. ASSUME op' = IF op = None THEN None ELSE [op EXCEPT !.sound = FALSE]
      PROVE  SoundInv'
  <2>1. op # None => ~[op EXCEPT !.sound = FALSE].sound
    BY <1>0 DEF Oper
  <2>2. ~Sounds'
    BY <1>7, <2>1 DEF Sounds
  <2> QED BY <1>1, <2>2
<1>8. CASE UpgradeStarts \/ \E n \in Node : VMLost(n)
  BY <1>7, <1>8 DEF UpgradeStarts, VMLost
<1>9. CASE UpgradeSkips \/ UpgradeSwaps \/ UpgradeStops \/ UpgradeRestarts \/ UpgradeChecks \/ UpgradeEnds
  <2>1. op' = op /\ upgrade # None
    BY <1>9 DEF UpgradeSkips, UpgradeSwaps, UpgradeStops, UpgradeRestarts, UpgradeChecks, UpgradeEnds, Upgrading
  <2>2. ~Sounds'
    BY <2>1 DEF SoundInv, Sounds
  <2> QED BY <1>1, <2>2
<1> QED BY <1>2, <1>3, <1>4, <1>5, <1>6, <1>8, <1>9 DEF Next

\* What a sound apply has come to when nothing is left to do.
LEMMA SoundEnds ==
  ASSUME TypeOK, OpInv, SoundInv
  PROVE  Converged
<1> SUFFICES ASSUME Sounds, op.todo = <<>>
             PROVE  /\ Ready /\ Range(state.children) = Range(NodeNames(op.m))
                    /\ \A n \in Range(NodeNames(op.m)) :
                         Healthy(n) /\ nodeState[n] # 0 /\ vm[n].size = Wanted(n)
                    /\ OneCluster(Range(NodeNames(op.m)))
  BY DEF Converged, Sounds
<1>1. /\ SameCluster /\ ClosingInv
      /\ \A n \in Node : FilesInv(n)
      /\ \A n \in Wants(op.m) : WantedInv(n)
  BY DEF SoundInv
<1>2. Wants(op.m) \subseteq Node /\ op.m \in Manifest
  BY NodesOfOp
<1>3. \A n : ToCome(n) = {}
  BY DEF ToCome, Coming
<1>4. Ready /\ Range(state.children) = Wants(op.m)
  BY <1>1, <1>3 DEF ClosingInv
<1>5. ASSUME NEW n \in Wants(op.m)
      PROVE  Healthy(n) /\ nodeState[n] # 0 /\ vm[n].size = Wanted(n)
  <2>1. FilesInv(n) /\ WantedInv(n) /\ ToCome(n) = {} /\ ~Stuck
    BY <1>1, <1>2, <1>3 DEF Stuck
  <2>2. nodeState[n] # 0 /\ agent[n] /\ vm[n].size = Wanted(n)
    BY <2>1 DEF WantedInv
  <2>3. Up(n)
    BY <2>1, <2>2 DEF FilesInv
  <2> QED BY <2>2, <2>3 DEF Healthy
<1>6. CPs[1] \in Wants(op.m)
  BY <1>2, FirstName DEF Wants
<1>7. k3s[CPs[1]] # None
  BY <1>5, <1>6 DEF Healthy, Up
<1>8. OneCluster(Wants(op.m))
  BY <1>1, <1>2, <1>6, <1>7 DEF OneCluster, SameCluster
<1> QED BY <1>4, <1>5, <1>8 DEF Wants

\* When an apply that began soundly has succeeded, all wanted nodes run in one
\* cluster at the wanted size with an agent, and the state file lists exactly them,
\* however many nodes there are and whatever failed operations came before
\* (applyClusterViaPlan and applyExisting).
THEOREM AppliesConverge == ClusterSpec => []Converged
<1>1. Init => ClusterInv /\ SoundInv
  <2>1. Init => SoundInv
    BY DEF Init, SoundInv, Sounds
  <2> QED BY <2>1, ClusterInit
<1>2. (ClusterInv /\ SoundInv) /\ [Next]_vars => (ClusterInv /\ SoundInv)'
  BY ClusterStep, SoundStep
<1>3. ClusterInv /\ SoundInv => Converged
  BY SoundEnds DEF ClusterInv
<1> QED BY <1>1, <1>2, <1>3, PTL DEF ClusterSpec

------------------------------------------------------------------------------
(* The etcd quorum during a convergence *)

\* The etcd members that a convergence found, removes and adds.
Found == Range(CPs) \cap Range(op.listed)
Leave == Found \ Wants(op.m)
Enter == (Range(CPs) \cap Wants(op.m)) \ Range(op.listed)

\* What the gates let pass: a majority stays, there is always a control plane to
\* join, and a listed node that stays is down at its own turn only.
Gates == Sounds /\ op.type = "converge" /\ ~op.m.force /\ ~op.gap
GateInv ==
  Gates =>
    /\ ToCome(None) \subseteq {"rewrite"}
    /\ 2 * Cardinality(Leave) < Cardinality(Found)
    /\ \A c \in Found \cap Wants(op.m) :
         ToCome(c) # {} => 2 * (Cardinality(Leave) + 1) < Cardinality(Found) + Cardinality(Enter)
    /\ \A c \in Range(op.listed) \cap Wants(op.m) :
         nodeState[c] # 0 \/ (op.todo # <<>> /\ Head(op.todo).node = c)

\* What the gates let pass.
LEMMA ConvergeGate ==
  ASSUME TypeOK, NEW m \in Manifest, Converge(m)
  PROVE  GateInv'
<1> SUFFICES ASSUME Gates' PROVE GateInv'
  BY DEF GateInv
<1> DEFINE old == Range(state.children)
           H == Range(CPs) \cap old
           R == H \ Wants(m)
           E == (Range(CPs) \cap Wants(m)) \ old
<1>0. Sounds' /\ ~op'.m.force /\ ~op'.gap
  BY DEF Gates
<1>1. /\ Sound /\ Ready /\ state \in State
      /\ UNCHANGED <<vm, row, k3s, nodeState, agent, agentState, state>> /\ upgrade' = None
      /\ op' # None /\ op'.type = "converge" /\ op'.m = m /\ op'.listed = state.children
  BY <1>0, ConvergeBegins
<1>2. PICK S : LET respecs == Those(state.children, S)
                   changes == removed(m) # {} \/ adds(m) # <<>> \/ respecs # <<>>
               IN  /\ Range(respecs) \subseteq Wants(m)
                   /\ \A n \in old \cap Wants(m) :
                        n \in Range(respecs) \/ vm[n] = None \/ vm[n].size = desiredSizeFor(m, n)
                   /\ changes => Gated(m, respecs)
                   /\ op'.todo = IF changes THEN applyExisting(m, respecs) ELSE <<>>
                   /\ op'.gap \/ ~Gap(m, respecs)
  BY <1>0, ConvergeBegins
<1> DEFINE respecs == Those(state.children, S)
           changes == removed(m) # {} \/ adds(m) # <<>> \/ respecs # <<>>
           todo == op'.todo
<1>3. /\ Range(respecs) \subseteq Wants(m)
      /\ changes => Gated(m, respecs)
      /\ todo = IF changes THEN applyExisting(m, respecs) ELSE <<>>
      /\ ~Gap(m, respecs) /\ ~m.force
  BY <1>0, <1>1, <1>2
<1>4. /\ removed(m) = old \ Wants(m) /\ state.children \in Seq(Node) /\ CPs \in Seq(Node)
      /\ IsInjective(CPs) /\ old \subseteq Node
  <2>1. state.children \in Seq(Node)
    BY <1>1, ChildrenAre DEF State
  <2> QED BY <1>1, <2>1, ChangePlan, Held, ClusterConstants, Names DEF Wants
<1>5. Range(respecs) \subseteq old \cap Wants(m)
  BY <1>3, <1>4, ThoseHolds
<1>6. /\ \A n : ToCome(n)' = Coming(todo, n)
      /\ Found' = H /\ Leave' = R /\ Enter' = E
  BY <1>1 DEF ToCome, Found, Leave, Enter
<1>7. /\ Have(CPs) = Cardinality(H) /\ Len(removeCPs(m)) = Cardinality(R)
      /\ Len(Added(m, CPs)) = Cardinality(E)
  <2>1. R = Range(CPs) \cap (old \ Wants(m)) /\ E = Range(CPs) \cap (Wants(m) \ old)
    OBVIOUS
  <2> HIDE DEF R, E
  <2> QED BY <2>1, Counted DEF Have, removeCPs
<1>8. Cardinality(H) \in Nat /\ Cardinality(R) \in Nat /\ Cardinality(E) \in Nat /\ IsFiniteSet(H)
  <2>1. IsFiniteSet(Range(CPs))
    BY <1>4, LengthIs
  <2>2. H \subseteq Range(CPs) /\ R \subseteq Range(CPs) /\ E \subseteq Range(CPs)
    OBVIOUS
  <2> HIDE DEF H, R, E
  <2> QED BY <2>1, <2>2, FS_Subset, FS_CardinalityType
<1>9. ASSUME NEW c \in old \cap Wants(m) PROVE nodeState'[c] # 0
  BY <1>1 DEF Sound
<1>10. CASE ~changes
  <2>1. removed(m) = {} /\ adds(m) = <<>> /\ respecs = <<>> /\ todo = <<>>
    BY <1>3, <1>10
  <2>2. \A n : ToCome(n)' = {}
    BY <1>6, <2>1 DEF Coming
  <2>3. R = {} /\ CPs[1] \in H
    <3>1. Range(adds(m)) = Wants(m) \ old
      BY <1>1, ChangePlan DEF Wants
    <3>2. Range(adds(m)) = {}
      BY <2>1 DEF Range
    <3>3. CPs[1] \in Wants(m) /\ CPs[1] \in Range(CPs)
      <4>1. 1 \in DOMAIN CPs
        BY <1>4, ClusterConstants
      <4> QED BY <4>1, FirstName DEF Range
    <3> QED BY <1>4, <2>1, <3>1, <3>2, <3>3
  <2>4. Cardinality(R) = 0 /\ Cardinality(H) # 0
    <3> HIDE DEF H, R
    <3>1. Cardinality({}) = 0
      BY FS_EmptySet
    <3>2. Cardinality(H) = 0 <=> H = {}
      BY <1>8, FS_EmptySet
    <3> QED BY <2>3, <3>1, <3>2
  <2>5. 2 * Cardinality(R) < Cardinality(H)
    BY <1>8, <2>4
  <2> QED BY <1>1, <1>6, <1>9, <2>2, <2>5 DEF GateInv
<1>11. CASE changes
  <2>1. todo = applyExisting(m, respecs) /\ Gated(m, respecs)
    BY <1>3, <1>11
  <2>2. /\ \A n \in old \cap Wants(m) :
             Coming(todo, n) = {} \/ (n \in Range(respecs) /\ Coming(todo, n) = Recreates)
        /\ \/ Coming(todo, None) \subseteq {"rewrite"}
           \/ \E n \in Range(respecs) \cup {None} : survivingControlPlane(m, n) = None
    BY <1>1, <1>3, <2>1, ConvergeOrder
  <2> HIDE DEF respecs, todo, changes
  <2>3. Coming(todo, None) \subseteq {"rewrite"}
    BY <1>1, <1>3, <1>5, <2>1, <2>2, SomebodyToJoin
  <2>4. 2 * Cardinality(R) < Cardinality(H)
    <3>1. ~catastrophicReason(m)
      BY <1>3, <2>1 DEF Gated
    <3>2. /\ ~(Cardinality(H) - Cardinality(R) <= 0)
          /\ ~(Cardinality(H) > 1 /\ Cardinality(H) - Cardinality(R) < (Cardinality(H) + 2) \div 2)
      BY <1>7, <3>1 DEF catastrophicReason
    <3> HIDE DEF H, R
    <3> QED BY <1>8, <3>2
  <2>5. ASSUME NEW c \in H \cap Wants(m), Coming(todo, c) # {}
        PROVE  2 * (Cardinality(R) + 1) < Cardinality(H) + Cardinality(E)
    <3>1. c \in Range(respecs) /\ IsCP(c)
      BY <2>2, <2>5 DEF IsCP
    <3>2. ~(2 * ((Cardinality(H) + Cardinality(E)) - Cardinality(R) - 1) <= Cardinality(H) + Cardinality(E))
      BY <1>3, <1>7, <3>1 DEF Gap
    <3> HIDE DEF H, R, E
    <3> QED BY <1>8, <3>2
  <2> QED BY <1>1, <1>6, <1>9, <2>3, <2>4, <2>5 DEF GateInv
<1> QED BY <1>10, <1>11

\* What a step leaves of an operation: its fields, and of the steps to come either
\* all but the first, or the same with the first one still at hand.
LEMMA StepLeaves ==
  ASSUME TypeOK, TypeOK', op # None, op' # None, op.todo # <<>>,
         Done \/ (\E w : GoesOn(w)) \/ op' = op
  PROVE  /\ op'.m = op.m /\ op'.listed = op.listed /\ op'.gap = op.gap
         /\ op'.sound = op.sound /\ op'.type = op.type
         /\ Done => op'.todo = Tail(op.todo)
         /\ \/ op'.todo = Tail(op.todo)
            \/ op'.todo # <<>> /\ Head(op'.todo).node = Head(op.todo).node
         /\ \A k : /\ ToCome(k)' # {} => ToCome(k) # {}
                   /\ k # Head(op.todo).node => ToCome(k)' \subseteq ToCome(k)
                   /\ op'.todo = Tail(op.todo) => ToCome(k)' \subseteq ToCome(k)
<1>1. op \in Oper /\ op' \in Oper \cup {None} /\ None \notin Oper
  BY ClusterConstants DEF TypeOK
<1>2. \A t : /\ [op EXCEPT !.todo = t].sound = op.sound /\ [op EXCEPT !.todo = t].type = op.type
             /\ [op EXCEPT !.todo = t].m = op.m /\ [op EXCEPT !.todo = t].listed = op.listed
             /\ [op EXCEPT !.todo = t].gap = op.gap /\ [op EXCEPT !.todo = t].todo = t
  BY <1>1 DEF Oper
<1> DEFINE s == op.todo
           t == op'.todo
<1>3. s \in Seq(Step) /\ s # <<>> /\ 1 \in DOMAIN s /\ Head(s) = s[1]
  BY <1>1 DEF Oper
<1>4. ASSUME NEW k, NEW i \in DOMAIN t, t[i].node = k, NEW j \in DOMAIN s, s[j].node = k
      PROVE  ToCome(k) # {} /\ (t[i].do = s[j].do => t[i].do \in ToCome(k))
  BY <1>4 DEF ToCome, Coming
<1>5. Done => op'.todo = Tail(op.todo)
  BY <1>2 DEF Done
<1>6. CASE Done
  <2>1. op' = [op EXCEPT !.todo = Tail(s)] /\ t = Tail(s)
    BY <1>2, <1>6 DEF Done
  <2>2. \A i \in DOMAIN t : i + 1 \in DOMAIN s /\ t[i] = s[i + 1]
    <3> HIDE DEF s, t
    <3> QED BY <1>3, <2>1
  <2>3. \A k : ToCome(k)' \subseteq ToCome(k)
    <3> HIDE DEF s
    <3> QED BY <2>2 DEF ToCome, Coming, s
  <2>4. /\ op'.m = op.m /\ op'.listed = op.listed /\ op'.gap = op.gap
        /\ op'.sound = op.sound /\ op'.type = op.type
    <3> HIDE DEF s, t
    <3> QED BY <1>2, <2>1
  <2> QED BY <2>1, <2>3, <2>4
<1>7. CASE \E w : GoesOn(w)
  <2>1. PICK w : op' = [op EXCEPT !.todo = [s EXCEPT ![1].do = w]]
    BY <1>7 DEF GoesOn
  <2>2. /\ t = [s EXCEPT ![1].do = w]
        /\ op'.m = op.m /\ op'.listed = op.listed /\ op'.gap = op.gap
        /\ op'.sound = op.sound /\ op'.type = op.type
    <3> HIDE DEF s
    <3> QED BY <1>2, <2>1
  <2>3. op' \in Oper
    BY <1>1, <2>2
  <2>4. t \in Seq(Step)
    BY <2>3 DEF Oper
  <2>5. /\ DOMAIN t = DOMAIN s /\ t[1].node = s[1].node
        /\ \A i \in DOMAIN s : i # 1 => t[i] = s[i]
    <3> HIDE DEF s, t
    <3>1. s[1] \in Step
      BY <1>3
    <3>2. [s[1] EXCEPT !.do = w].node = s[1].node
      BY <3>1 DEF Step
    <3> QED BY <1>3, <2>2, <3>2
  <2>6. t # <<>> /\ Head(t) = t[1]
    <3> HIDE DEF s, t
    <3> QED BY <1>3, <2>4, <2>5
  <2>7. \A k : /\ ToCome(k)' # {} => ToCome(k) # {}
               /\ k # s[1].node => ToCome(k)' \subseteq ToCome(k)
    <3> TAKE k
    <3>1. /\ ToCome(k) = {s[i].do : i \in {j \in DOMAIN s : s[j].node = k}}
          /\ ToCome(k)' = {t[i].do : i \in {j \in DOMAIN t : t[j].node = k}}
      BY DEF ToCome, Coming
    <3>2. \A i \in DOMAIN t : i \in DOMAIN s /\ t[i].node = s[i].node /\ (i # 1 => t[i].do = s[i].do)
      <4> HIDE DEF s, t
      <4> QED BY <2>5
    <3> HIDE DEF s, t
    <3> QED BY <3>1, <3>2
  <2>8. t # Tail(s)
    <3> HIDE DEF s, t
    <3> QED BY <1>3, <2>4, <2>5
  <2> QED BY <1>3, <1>5, <2>2, <2>5, <2>6, <2>7, <2>8
<1>8. CASE op' = op
  <2>1. \A k : ToCome(k)' = ToCome(k)
    BY <1>8 DEF ToCome
  <2> QED BY <1>8, <1>5, <2>1
<1> QED BY <1>6, <1>7, <1>8

\* The steps of a listed node that stays are next to each other: when it has more
\* to come, its turn is not over.
LEMMA StaysAtHand ==
  ASSUME TypeOK, OpInv, Gates, SoundInv, GateInv, NEW c \in Range(op.listed) \cap Wants(op.m),
         op.todo # <<>>, Head(op.todo).node = c, Coming(Tail(op.todo), c) # {}
  PROVE  Tail(op.todo) # <<>> /\ Head(Tail(op.todo)).node = c
<1> DEFINE s == op.todo
           t == Tail(op.todo)
           l == op.listed
<1>1. op \in Oper /\ op.type = "converge" /\ OrderInv /\ Sounds
  BY DEF Gates, Sounds, TypeOK, SoundInv
<1>2. s \in Seq(Step) /\ l \in Seq(Node) /\ IsInjective(l)
  BY <1>1, OperIs, ChildrenAre
<1>3. /\ \A i \in DOMAIN t : i + 1 \in DOMAIN s /\ t[i] = s[i + 1]
      /\ t \in Seq(Step) /\ 1 \in DOMAIN s /\ s[1].node = c
  BY <1>2
<1>4. PICK i \in DOMAIN t : t[i].node = c
  BY DEF Coming
<1>5. PlanOK(s, "converge") /\ InOrder(op.m, l, s)
  BY <1>1 DEF OpInv, OrderInv, Recreated, PlanOrder, Sounds
<1> HIDE DEF s, t, l
<1>6. 1 \in DOMAIN t /\ t # <<>> /\ Head(t) = t[1] /\ i \in Nat /\ i >= 1 /\ 2 \in DOMAIN s /\ t[1] = s[2]
  BY <1>2, <1>3, <1>4
<1>7. CASE i = 1
  BY <1>4, <1>6, <1>7 DEF t
<1>8. CASE i # 1
  <2>1. i + 1 \in DOMAIN s /\ s[i + 1].node = c /\ 2 < i + 1 /\ i + 1 <= Len(s)
    BY <1>2, <1>3, <1>4, <1>6, <1>8
  <2>2. s[2].node \in Node
    <3>1. s[2] \in Step
      BY <1>2, <1>6
    <3>2. s[2].node \in Node \cup {None}
      BY <3>1 DEF Step
    <3>3. s[2].node = None => s[2].do \in ToCome(None)
      BY <1>6 DEF ToCome, Coming, s
    <3>4. s[2].do # "rewrite"
      <4>1. s[2].do = "rewrite" => 2 = Len(s)
        BY <1>5, <1>6 DEF PlanOK, Closing
      <4>2. Len(s) \in Nat
        BY <1>2
      <4> QED BY <1>6, <2>1, <4>1, <4>2
    <3> QED BY <3>2, <3>3, <3>4 DEF GateInv
  <2>3. PICK p \in DOMAIN l : l[p] = c
    BY DEF Range, l
  <2>4. Follows(op.m, l, s[1], s[2]) /\ Follows(op.m, l, s[2], s[i + 1])
    BY <1>3, <1>5, <1>6, <2>1 DEF InOrder
  <2>5. PICK q \in DOMAIN l : s[2].node = l[q] /\ s[2].node \in Wants(op.m) /\ p <= q
    BY <1>3, <2>2, <2>3, <2>4 DEF Follows
  <2>6. c \in Node
    BY <1>2, <2>3
  <2>7. PICK r \in DOMAIN l : c = l[r] /\ q <= r
    BY <2>1, <2>4, <2>5, <2>6 DEF Follows
  <2>8. r = p
    BY <1>2, <2>3, <2>7 DEF IsInjective
  <2>9. q = p
    BY <1>2, <2>3, <2>5, <2>7, <2>8
  <2> QED BY <1>6, <2>3, <2>5, <2>9 DEF t
<1> QED BY <1>7, <1>8

\* A step keeps what the gates let pass.
LEMMA StepGate ==
  ASSUME TypeOK, TypeOK', OpInv, SoundInv, SoundInv', GateInv, NEW n \in Node \cup {None}, NEW what, At(what, n),
         Done \/ (n # None /\ ((\E w : GoesOn(w)) \/ op' = op)),
         \A k \in Node : k # n => nodeState'[k] = nodeState[k]
  PROVE  GateInv'
<1> SUFFICES ASSUME Gates' PROVE GateInv'
  BY DEF GateInv
<1>1. op # None /\ op.todo # <<>> /\ Head(op.todo).node = n /\ op' # None
  BY DEF At, Gates, Sounds
<1>2. /\ op'.m = op.m /\ op'.listed = op.listed /\ op'.gap = op.gap
      /\ op'.sound = op.sound /\ op'.type = op.type
      /\ Done => op'.todo = Tail(op.todo)
      /\ \/ op'.todo = Tail(op.todo)
         \/ op'.todo # <<>> /\ Head(op'.todo).node = n
      /\ \A k : /\ ToCome(k)' # {} => ToCome(k) # {}
                /\ k # n => ToCome(k)' \subseteq ToCome(k)
                /\ op'.todo = Tail(op.todo) => ToCome(k)' \subseteq ToCome(k)
  BY <1>1, StepLeaves
<1>3. Gates /\ Sounds /\ Sounds' /\ op'.type = "converge" /\ ~op'.m.force
  BY <1>1, <1>2 DEF Gates, Sounds
<1>4. Found' = Found /\ Leave' = Leave /\ Enter' = Enter
  BY <1>2 DEF Found, Leave, Enter
<1>5. /\ ToCome(None) \subseteq {"rewrite"}
      /\ 2 * Cardinality(Leave) < Cardinality(Found)
      /\ \A c \in Found \cap Wants(op.m) :
           ToCome(c) # {} => 2 * (Cardinality(Leave) + 1) < Cardinality(Found) + Cardinality(Enter)
      /\ \A c \in Range(op.listed) \cap Wants(op.m) : nodeState[c] # 0 \/ n = c
  BY <1>1, <1>3 DEF GateInv
<1>6. Wants(op.m) \subseteq Node /\ None \notin Node
  BY <1>3, NodesOfOp
<1>7. ToCome(None)' \subseteq {"rewrite"}
  <2>1. CASE n # None
    BY <1>2, <1>5, <2>1
  <2>2. CASE op'.todo = Tail(op.todo)
    BY <1>2, <1>5, <2>2
  <2> QED BY <1>2, <2>1, <2>2
<1>8. ASSUME NEW c \in Range(op.listed) \cap Wants(op.m)
      PROVE  nodeState'[c] # 0 \/ (op'.todo # <<>> /\ Head(op'.todo).node = c)
  <2>1. c \in Node
    BY <1>6
  <2>2. CASE c # n
    BY <1>5, <2>1, <2>2
  <2>3. CASE c = n /\ nodeState'[c] = 0
    <3>1. WantedInv(c)'
      BY <1>2, <1>3 DEF SoundInv
    <3>2. ToCome(c)' # {}
      BY <1>3, <2>3, <3>1 DEF WantedInv
    <3>3. CASE op'.todo = Tail(op.todo)
      <4>1. Coming(Tail(op.todo), c) # {}
        BY <3>2, <3>3 DEF ToCome
      <4> QED BY <1>1, <1>3, <2>3, <3>3, <4>1, StaysAtHand
    <3> QED BY <1>2, <2>3, <3>3
  <2> QED BY <2>2, <2>3
<1> QED BY <1>2, <1>4, <1>5, <1>7, <1>8 DEF GateInv

\* Every step keeps GateInv.
LEMMA GateStep ==
  ClusterInv /\ SoundInv /\ GateInv /\ [Next]_vars => GateInv'
<1> SUFFICES ASSUME ClusterInv, SoundInv, GateInv, [Next]_vars PROVE GateInv'
  OBVIOUS
<1>0. /\ TypeOK /\ OpInv /\ left \in Bounds /\ op \in Oper \cup {None} /\ nodeState \in [Node -> Nat]
      /\ TypeOK' /\ SoundInv'
  BY ClusterStep, SoundStep DEF ClusterInv, TypeOK
<1>1. ASSUME ~Sounds' PROVE GateInv'
  BY <1>1 DEF GateInv, Gates
<1>2. CASE UNCHANGED vars
  BY <1>2 DEF GateInv, Gates, Sounds, Found, Leave, Enter, ToCome, vars, nodeVars
<1>3. ASSUME NEW m \in left.manifests, Create(m) \/ Converge(m) PROVE GateInv'
  <2>1. m \in Manifest
    BY <1>0 DEF Bounds
  <2>2. CASE Create(m)
    <3>1. op'.type = "create"
      BY <2>2 DEF Create, Begins
    <3> QED BY <3>1 DEF GateInv, Gates
  <2>3. CASE Converge(m)
    BY <1>0, <2>1, <2>3, ConvergeGate
  <2> QED BY <1>3, <2>2, <2>3
<1>4. CASE Delete
  <2>1. op'.type = "delete"
    BY <1>4 DEF Delete, Begins
  <2> QED BY <1>1, <2>1 DEF Sounds
<1>5. CASE Fails \/ StateRemoved
  BY <1>1, <1>5 DEF Fails, StateRemoved, Sounds
<1>6. CASE StubSaved \/ CASaved \/ ReadySaved \/ StateRewritten
  <2>1. PICK what : At(what, None) /\ Done /\ nodeState' = nodeState
    BY <1>6 DEF StubSaved, CASaved, ReadySaved, StateRewritten, nodeVars
  <2> QED BY <1>0, <2>1, StepGate
<1>7. ASSUME NEW n \in Node, NodeStep(n), ~VMLost(n) PROVE GateInv'
  <2>1. PICK what : At(what, n)
    BY <1>7 DEF NodeStep, VMCached, VMCreated, VMResized, VMStarted, VMSaved, AlreadyInstalled,
       InstallFirst, InstallJoining, Installs, NodeSaved, AgentAlready, AgentInstalled, AgentSaved,
       NothingToRemove, AgentUninstalled, AgentForgotten, NodeUninstalled, NodeForgotten,
       VMStopped, VMDeleted, RowDeleted, VMDestroyed, FilesRemoved
  <2>2. Done \/ (\E w : GoesOn(w)) \/ op' = op
    BY <1>7, StepIs
  <2>3. \A k \in Node : k # n => nodeState'[k] = nodeState[k]
    BY <1>0, <1>7 DEF NodeStep, VMCached, VMCreated, VMResized, VMStarted, VMSaved, AlreadyInstalled,
       InstallFirst, InstallJoining, Installs, NodeSaved, AgentAlready, AgentInstalled, AgentSaved,
       NothingToRemove, AgentUninstalled, AgentForgotten, NodeUninstalled, NodeForgotten, nodeVars,
       VMStopped, VMDeleted, RowDeleted, VMDestroyed, FilesRemoved, Wiped
  <2>4. n # None
    BY ClusterConstants
  <2> QED BY <1>0, <2>1, <2>2, <2>3, <2>4, StepGate
<1>8. ASSUME op' = IF op = None THEN None ELSE [op EXCEPT !.sound = FALSE]
      PROVE  GateInv'
  <2>1. op # None => ~[op EXCEPT !.sound = FALSE].sound
    BY <1>0 DEF Oper
  <2>2. ~Sounds'
    BY <1>8, <2>1 DEF Sounds
  <2> QED BY <1>1, <2>2
<1>9. CASE UpgradeStarts \/ \E n \in Node : VMLost(n)
  BY <1>8, <1>9 DEF UpgradeStarts, VMLost
<1>10. CASE UpgradeSkips \/ UpgradeSwaps \/ UpgradeStops \/ UpgradeRestarts \/ UpgradeChecks \/ UpgradeEnds
  <2>1. op' = op /\ upgrade # None
    BY <1>10 DEF UpgradeSkips, UpgradeSwaps, UpgradeStops, UpgradeRestarts, UpgradeChecks, UpgradeEnds, Upgrading
  <2>2. ~Sounds'
    BY <2>1 DEF SoundInv, Sounds
  <2> QED BY <1>1, <2>2
<1> QED BY <1>2, <1>3, <1>4, <1>5, <1>6, <1>7, <1>9, <1>10 DEF Next

\* Who is down: the members that leave, and at most the one that is being
\* recreated, when all that enter have joined.
LEMMA WhoIsDown ==
  ASSUME TypeOK, OpInv, SoundInv, GateInv, Gates
  PROVE  LET voters == {c \in Range(CPs) : c \in Range(op.listed) \/ nodeState[c] # 0}
             down == {c \in voters : ~Up(c)}
         IN  /\ Found \subseteq voters
             /\ \/ down \subseteq Leave
                \/ \E h \in Found \cap Wants(op.m) :
                     ToCome(h) # {} /\ down \subseteq Leave \cup {h} /\ Enter \subseteq voters
<1> DEFINE voters == {c \in Range(CPs) : c \in Range(op.listed) \/ nodeState[c] # 0}
           down == {c \in voters : ~Up(c)}
           s == op.todo
           l == op.listed
           turn(c) == s # <<>> /\ Head(s).node = c
<1>1. /\ op \in Oper /\ op.type = "converge" /\ OrderInv /\ Sounds /\ ~op.m.force
      /\ \A n \in Node : FilesInv(n)
      /\ \A n \in Wants(op.m) : WantedInv(n)
  BY DEF Gates, Sounds, TypeOK, SoundInv
<1>2. s \in Seq(Step) /\ l \in Seq(Node) /\ Range(CPs) \subseteq Node /\ Wants(op.m) \subseteq Node
  BY <1>1, OperIs, ChildrenAre, ClusterConstants, Held, NodesOfOp
<1>3. /\ InOrder(op.m, l, s)
      /\ \A i \in DOMAIN s : s[i].do \in Onward => i = 1
  BY <1>1 DEF OrderInv, Recreated, PlanOrder
<1>4. s # <<>> => 1 \in DOMAIN s /\ Head(s) = s[1]
  BY <1>2
<1>5. \A c \in Range(l) \cap Wants(op.m) : nodeState[c] # 0 \/ turn(c)
  BY DEF GateInv
<1>6. ASSUME NEW c \in down PROVE c \in Found /\ (c \in Leave \/ turn(c))
  <2>1. c \in Range(CPs) /\ c \in Node /\ ~Up(c) /\ FilesInv(c)
    BY <1>1, <1>2
  <2>2. CASE nodeState[c] # 0
    <3>1. "nodeFile" \in ToCome(c)
      BY <2>1, <2>2 DEF FilesInv
    <3>2. c \in Range(l)
      BY <1>1, <2>1, <3>1 DEF FilesInv, Destroys
    <3>3. PICK i \in DOMAIN s : s[i].node = c /\ s[i].do = "nodeFile"
      BY <3>1 DEF ToCome, Coming
    <3>4. i = 1
      BY <1>3, <3>3 DEF Onward
    <3>5. s # <<>>
      BY <3>3
    <3> HIDE DEF s
    <3> QED BY <1>4, <2>1, <3>2, <3>3, <3>4, <3>5 DEF Found
  <2>3. CASE nodeState[c] = 0
    <3>1. c \in Range(l)
      BY <2>3
    <3> QED BY <1>5, <2>1, <2>3, <3>1 DEF Found, Leave
  <2> QED BY <2>2, <2>3
<1>7. Found \subseteq voters
  BY DEF Found
<1>8. ASSUME NEW h \in Found \cap Wants(op.m), turn(h)
      PROVE  ToCome(h) # {} /\ Enter \subseteq voters /\ down \subseteq Leave \cup {h}
  <2>1. 1 \in DOMAIN s /\ s[1].node = h
    BY <1>4, <1>8
  <2>2. ToCome(h) # {}
    BY <2>1 DEF ToCome, Coming
  <2>3. down \subseteq Leave \cup {h}
    <3> HIDE DEF down
    <3> QED BY <1>6, <1>8
  <2>4. PICK p \in DOMAIN l : l[p] = h
    BY DEF Found, Range
  <2>5. ASSUME NEW c \in Enter PROVE nodeState[c] # 0
    <3>1. c \in Wants(op.m) /\ c \in Node /\ c \notin Range(l)
      BY <1>2 DEF Enter
    <3>2. ASSUME NEW i \in DOMAIN s, s[i].node = c PROVE FALSE
      <4>1. i # 1
        BY <2>1, <3>1, <3>2 DEF Found
      <4>2. i > 1
        BY <1>2, <4>1
      <4>3. Follows(op.m, l, s[1], s[i])
        BY <1>3, <2>1, <4>2 DEF InOrder
      <4>4. \E q \in DOMAIN l : s[i].node = l[q]
        BY <2>1, <2>4, <3>1, <3>2, <4>3 DEF Follows
      <4> QED BY <3>1, <3>2, <4>4 DEF Range
    <3>3. ToCome(c) = {}
      BY <3>2 DEF ToCome, Coming
    <3> QED BY <1>1, <3>1, <3>3 DEF WantedInv
  <2>6. Enter \subseteq voters
    BY <2>5 DEF Enter
  <2> QED BY <2>2, <2>3, <2>6
<1>9. CASE \E h \in Found \cap Wants(op.m) : turn(h)
  <2> HIDE DEF turn, voters, down
  <2>1. PICK h \in Found \cap Wants(op.m) : turn(h)
    BY <1>9
  <2> QED BY <1>7, <1>8, <2>1 DEF voters, down
<1>10. CASE ~ \E h \in Found \cap Wants(op.m) : turn(h)
  <2> HIDE DEF turn, voters, down
  <2>1. down \subseteq Leave
    BY <1>6, <1>10 DEF Leave
  <2> QED BY <1>7, <2>1 DEF voters, down
<1> QED BY <1>9, <1>10

\* So a majority is up.
LEMMA MajorityUp ==
  ASSUME TypeOK, OpInv, SoundInv, GateInv
  PROVE  QuorumKept
<1> DEFINE voters == {c \in Range(CPs) : c \in Range(op.listed) \/ nodeState[c] # 0}
           up == {c \in voters : Up(c)}
           down == {c \in voters : ~Up(c)}
<1> SUFFICES ASSUME Gates PROVE 2 * Cardinality(up) > Cardinality(voters)
  BY DEF QuorumKept, Gates, Sounds
<1>1. /\ 2 * Cardinality(Leave) < Cardinality(Found)
      /\ \A c \in Found \cap Wants(op.m) :
           ToCome(c) # {} => 2 * (Cardinality(Leave) + 1) < Cardinality(Found) + Cardinality(Enter)
  BY DEF GateInv
<1>2. /\ Found \subseteq voters
      /\ \/ down \subseteq Leave
         \/ \E h \in Found \cap Wants(op.m) :
              ToCome(h) # {} /\ down \subseteq Leave \cup {h} /\ Enter \subseteq voters
  BY WhoIsDown
<1>3. Leave \subseteq Found /\ Found \cap Enter = {} /\ Enter \subseteq Range(CPs) /\ voters \subseteq Range(CPs)
  BY DEF Leave, Found, Enter
<1>4. up = voters \ down /\ down \subseteq voters
  OBVIOUS
<1> HIDE DEF voters, up, down
<1>5. IsFiniteSet(Range(CPs))
  BY ClusterConstants, Names, LengthIs
<1>6. /\ IsFiniteSet(voters) /\ IsFiniteSet(Found) /\ IsFiniteSet(Leave) /\ IsFiniteSet(Enter)
      /\ IsFiniteSet(down)
  <2>1. Found \subseteq Range(CPs) /\ Leave \subseteq Range(CPs) /\ down \subseteq Range(CPs)
    BY <1>2, <1>3, <1>4
  <2> QED BY <1>3, <1>5, <2>1, FS_Subset
<1>7. /\ Cardinality(voters) \in Nat /\ Cardinality(Found) \in Nat /\ Cardinality(Leave) \in Nat
      /\ Cardinality(Enter) \in Nat /\ Cardinality(down) \in Nat
  BY <1>6, FS_CardinalityType
<1>8. Cardinality(up) = Cardinality(voters) - Cardinality(down)
  <2>1. Cardinality(voters \ down) = Cardinality(voters) - Cardinality(voters \cap down)
    BY <1>6, FS_Difference
  <2>2. voters \cap down = down
    BY <1>4
  <2> QED BY <1>4, <2>1, <2>2
<1>9. ASSUME 2 * Cardinality(down) < Cardinality(voters) PROVE 2 * Cardinality(up) > Cardinality(voters)
  BY <1>7, <1>8, <1>9
<1>10. CASE down \subseteq Leave
  <2>1. Cardinality(down) <= Cardinality(Leave) /\ Cardinality(Found) <= Cardinality(voters)
    BY <1>2, <1>6, <1>10, FS_Subset
  <2> QED BY <1>1, <1>7, <1>9, <2>1
<1>11. ASSUME NEW h \in Found \cap Wants(op.m), ToCome(h) # {}, down \subseteq Leave \cup {h},
              Enter \subseteq voters
       PROVE  2 * Cardinality(up) > Cardinality(voters)
  <2>1. 2 * (Cardinality(Leave) + 1) < Cardinality(Found) + Cardinality(Enter)
    BY <1>1, <1>11
  <2>2. h \notin Leave
    BY DEF Leave
  <2>3. IsFiniteSet(Leave \cup {h}) /\ Cardinality(Leave \cup {h}) = Cardinality(Leave) + 1
    BY <1>6, <2>2, FS_AddElement
  <2>4. Cardinality(down) <= Cardinality(Leave) + 1
    BY <1>11, <2>3, FS_Subset
  <2>5. Cardinality(Found \cup Enter) = Cardinality(Found) + Cardinality(Enter) - Cardinality(Found \cap Enter)
    BY <1>6, FS_Union
  <2>6. Cardinality(Found \cap Enter) = 0
    BY <1>3, FS_EmptySet
  <2>7. Cardinality(Found \cup Enter) <= Cardinality(voters)
    <3>1. Found \cup Enter \subseteq voters
      BY <1>2, <1>11
    <3> QED BY <1>6, <3>1, FS_Subset
  <2>8. Cardinality(Found) + Cardinality(Enter) <= Cardinality(voters)
    BY <1>7, <2>5, <2>6, <2>7
  <2> QED BY <1>7, <1>9, <2>1, <2>4, <2>8
<1> QED BY <1>2, <1>10, <1>11

\* The guardrails of applyExisting keep the etcd quorum: a convergence that was not
\* forced and began with a healthy cluster has a majority of the members up at
\* every step, however many control planes there are (catastrophicReason,
\* catastrophicRespecReason and the order of the steps), outside the cases of Gap.
THEOREM QuorumStays == ClusterSpec => []QuorumKept
<1>1. Init => ClusterInv /\ SoundInv /\ GateInv
  <2>1. Init => SoundInv /\ GateInv
    BY DEF Init, SoundInv, GateInv, Gates, Sounds
  <2> QED BY <2>1, ClusterInit
<1>2. (ClusterInv /\ SoundInv /\ GateInv) /\ [Next]_vars => (ClusterInv /\ SoundInv /\ GateInv)'
  BY ClusterStep, SoundStep, GateStep
<1>3. ClusterInv /\ SoundInv /\ GateInv => QuorumKept
  BY MajorityUp DEF ClusterInv
<1> QED BY <1>1, <1>2, <1>3, PTL DEF ClusterSpec
===============================================================================
