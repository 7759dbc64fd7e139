-------------------------- MODULE DieQueuesSteps ----------------------------
(***************************************************************************)
(* What a step of fairness.c does to the die queues and the requests: the  *)
(* transactions of a request go to dies of its zone, each die's queue is   *)
(* first in first out, and a request counts its transactions.              *)
(***************************************************************************)
EXTENDS DieQueues, DynamicMappingTheorems

\* Leaves are for Zenon, the ones with arithmetic or records name SMT.
USE ZenonT(20)

Transactions == [r : Reqs, op : IoOps \cup {"erase"}, zone : Zones, blk : Fbgs,
                 die : Dies, pl : {0}, ops : 1..(Planes + MaxNlb)]

\* The constants of the device are what QueueAssumption says.
LEMMA Device ==
  /\ LbasPerPage \in Nat \ {0} /\ SecsPerPg \in Nat \ {0}
  /\ MaxNlb \in Nat \ {0} /\ StartUpReqs \in Nat
  /\ RdLat \in Nat \ {0} /\ WrLat \in Nat \ {0} /\ ErLat \in Nat \ {0}
  /\ NoZone \notin Zones
BY QueueAssumption

\* The dies are numbered from 0 without gaps.
LEMMA DieCount ==
  /\ NumGroups * DiesPerGroup \in Nat \ {0}
  /\ IsFiniteSet(Dies) /\ Cardinality(Dies) = NumGroups * DiesPerGroup
  /\ 0 \in Dies /\ Dies \subseteq Nat
<1> DEFINE N == NumGroups * DiesPerGroup
<1>1. N \in Nat \ {0}
  BY Geometry, Flash, SMTT(20)
<1> HIDE DEF N
<1>2. 0 \in Int /\ N - 1 \in Int /\ ~(0 > N - 1) /\ (N - 1) - 0 + 1 = N
  BY <1>1, SMTT(20)
<1>3. IsFiniteSet(0..(N - 1)) /\ Cardinality(0..(N - 1)) = N
  BY <1>2, FS_Interval
<1>4. Dies = 0..(N - 1)
  BY DEF Dies, N
<1>5. 0 \in 0..(N - 1) /\ 0..(N - 1) \subseteq Nat
  BY <1>1, SMTT(20)
<1> QED BY <1>1, <1>3, <1>4, <1>5 DEF N

\* Min of two numbers is one of them and above neither.
LEMMA MinOfTwo ==
  ASSUME NEW a \in Nat, NEW b \in Nat
  PROVE  Min({a, b}) \in {a, b} /\ Min({a, b}) <= a /\ Min({a, b}) <= b
<1>1. \E x \in {a, b} : \A y \in {a, b} : x <= y
  <2>1. CASE a <= b
    BY <2>1, SMTT(20)
  <2>2. CASE b <= a
    BY <2>2, SMTT(20)
  <2> QED BY <2>1, <2>2, SMTT(20)
<1>2. Min({a, b}) \in {a, b} /\ \A y \in {a, b} : Min({a, b}) <= y
  BY <1>1 DEF Min
<1> QED BY <1>2

\* Max of two numbers is a number.
LEMMA MaxOfTwo ==
  ASSUME NEW a \in Nat, NEW b \in Nat
  PROVE  Max({a, b}) \in Nat
<1>1. \E x \in {a, b} : \A y \in {a, b} : x >= y
  <2>1. CASE a <= b
    BY <2>1, SMTT(20)
  <2>2. CASE b <= a
    BY <2>2, SMTT(20)
  <2> QED BY <2>1, <2>2, SMTT(20)
<1>2. Max({a, b}) \in {a, b}
  BY <1>1 DEF Max
<1> QED BY <1>2

(***************************************************************************)
(* The transactions of a request.                                          *)
(***************************************************************************)

\* Die j of group g.
LEMMA DieOfGroup ==
  ASSUME NEW g \in Groups, NEW j \in 0..(DiesPerGroup - 1)
  PROVE  g * DiesPerGroup + j \in Dies /\ (g * DiesPerGroup + j) \div DiesPerGroup = g
<1> DEFINE x == g * DiesPerGroup + j
<1>0. g \in Nat /\ g + 1 <= NumGroups /\ NumGroups \in Nat /\ j \in Nat /\ j < DiesPerGroup
      /\ DiesPerGroup \in Nat \ {0}
  BY Geometry, Flash, SMTT(20) DEF Groups
<1>1. x \in Nat /\ x = DiesPerGroup * g + j
  BY <1>0, SMTT(20)
<1>2. x < NumGroups * DiesPerGroup
  <2>1. NumGroups - g - 1 \in Nat /\ NumGroups = g + 1 + (NumGroups - g - 1)
    BY <1>0, SMTT(20)
  <2>2. PICK e \in Nat : NumGroups = g + 1 + e
    BY <2>1
  <2>3. NumGroups * DiesPerGroup = DiesPerGroup * g + DiesPerGroup + DiesPerGroup * e
        /\ DiesPerGroup * e >= 0
    BY <1>0, <2>2, SMTT(20)
  <2> QED BY <1>0, <1>1, <2>3, SMTT(20)
<1>3. x \in Dies
  BY <1>1, <1>2, DieCount, SMTT(20) DEF Dies
<1> HIDE DEF x
<1>4. x \div DiesPerGroup = g
  <2> DEFINE q == x \div DiesPerGroup
             s == x % DiesPerGroup
  <2>1. q \in Nat /\ s \in 0..(DiesPerGroup - 1) /\ x = DiesPerGroup * q + s
    BY <1>0, <1>1, DivMod
  <2> HIDE DEF q, s
  <2>2. DiesPerGroup * q + s = DiesPerGroup * g + j
    BY <1>1, <2>1
  <2>3. q = g
    BY <1>0, <2>1, <2>2, DivUnique
  <2> QED BY <2>3 DEF q
<1> QED BY <1>3, <1>4 DEF x

\* The groups of a zone's mapping exist.
LEMMA SpanGroups ==
  ASSUME NEW m \in Mappings, NEW z \in Zones, PlaceOK(m.phy[z]), m.phy[z].n # 0,
         NEW i \in 0..(m.phy[z].n - 1)
  PROVE  m.phy[z].first + i \in Groups /\ m.phy[z].first + i \in GroupsOf(m, z)
<1> DEFINE p == m.phy[z]
<1>1. p \in Places
  BY DEF Mappings
<1>2. p.first \in Nat /\ p.n \in Nat /\ p.first + p.n <= NumGroups
  BY <1>1, Geometry, SMTT(20) DEF Places, Groups, PlaceOK
<1>3. p.first + i \in Groups /\ p.first <= p.first + i /\ p.first + i < p.first + p.n
  BY <1>2, Geometry, SMTT(20) DEF Groups
<1> QED BY <1>3 DEF GroupsOf, Span

\* get_ppa_by_lba_base names a die of the zone's groups, for any page.
LEMMA DieInside ==
  ASSUME NEW m \in Mappings, NEW z \in Zones, PlaceOK(m.phy[z]), m.phy[z].n # 0,
         NEW page \in Nat
  PROVE  /\ DieOf(m, z, page) \in Dies
         /\ DieOf(m, z, page) \div DiesPerGroup \in GroupsOf(m, z)
<1> DEFINE n == m.phy[z].n
           k == page % (n * DiesPerGroup)
           i == k \div DiesPerGroup
           j == k % DiesPerGroup
<1>1. n \in Nat \ {0}
  BY DEF Mappings, Places
<1>2. DieOf(m, z, page) = (m.phy[z].first + i) * DiesPerGroup + j
  BY DEF DieOf, Para
<1>3. k \in Nat /\ k < DiesPerGroup * n
  <2> HIDE DEF n
  <2>1. n * DiesPerGroup \in Nat \ {0} /\ n * DiesPerGroup = DiesPerGroup * n
    BY <1>1, Flash, SMTT(20)
  <2> QED BY <2>1, DivMod, SMTT(20)
<1>4. i \in 0..(n - 1) /\ j \in 0..(DiesPerGroup - 1)
  <2> HIDE DEF n, k
  <2>1. i \in Nat /\ i < n /\ j \in 0..(DiesPerGroup - 1)
    BY <1>1, <1>3, Flash, DivMod, DivBound
  <2> QED BY <1>1, <2>1, SMTT(20)
<1> HIDE DEF k, i, j
<1>5. m.phy[z].first + i \in Groups /\ m.phy[z].first + i \in GroupsOf(m, z)
  BY <1>4, SpanGroups
<1> QED BY <1>2, <1>4, <1>5, DieOfGroup

\* ts are transactions of request r for zone z, on dies of the zone.
Serves(ts, m, r, op, z) ==
  /\ ts \in Seq(Transactions)
  /\ \A i \in 1..Len(ts) :
       /\ ts[i].r = r /\ ts[i].op = op /\ ts[i].zone = z
       /\ ts[i].blk = m.phy[z].ofst
       /\ ts[i].die \div DiesPerGroup \in GroupsOf(m, z)

\* A request that leaves its first page has one page or more, at most one
\* per block.
LEMMA PageCount ==
  ASSUME NEW w \in Nat, NEW n \in 1..MaxNlb, BlocksLeft(w, n) > 0
  PROVE  PageNum(w, n) \in 1..MaxNlb /\ \A k \in Nat : PageAt(w, k) \in Nat
<1> DEFINE L == LbasPerPage
           b == BlocksLeft(w, n)
<1>1. L \in Nat \ {0} /\ MaxNlb \in Nat /\ n \in Nat
  BY Device, SMTT(20)
<1>2. NewWp(w) \in Nat /\ NewWp(w) >= w
  <2>1. w \div L \in Nat /\ w % L \in 0..(L - 1) /\ w = L * (w \div L) + (w % L)
    BY <1>1, DivMod
  <2> DEFINE q == w \div L
             s == w % L
  <2> HIDE DEF q, s
  <2>2. q \in Nat /\ s \in 0..(L - 1) /\ w = L * q + s
    BY <2>1 DEF q, s
  <2>3. (q + 1) * L \in Nat /\ (q + 1) * L = L * q + L
    BY <1>1, <2>2, SMTT(20)
  <2>4. (q + 1) * L >= w
    BY <1>1, <2>2, <2>3, SMTT(20)
  <2>5. NewWp(w) = IF s > 0 THEN (q + 1) * L ELSE w
    BY DEF NewWp, q, s
  <2> QED BY <2>3, <2>4, <2>5, SMTT(20)
<1>3. b \in Nat /\ b > 0 /\ b <= n
  BY <1>1, <1>2, SMTT(20) DEF BlocksLeft
<1> HIDE DEF b
<1>4. (b - 1) \div L \in Nat /\ (b - 1) \div L <= b - 1
  <2>1. b - 1 \in Nat
    BY <1>3, SMTT(20)
  <2> DEFINE c == b - 1
             q == c \div L
             s == c % L
  <2>2. c \in Nat
    BY <2>1
  <2> HIDE DEF c
  <2>3. q \in Nat /\ s \in 0..(L - 1) /\ c = L * q + s
    BY <1>1, <2>2, DivMod
  <2> HIDE DEF q, s
  <2>4. L - 1 \in Nat /\ (L - 1) * q >= 0 /\ L * q = (L - 1) * q + q
    BY <1>1, <2>3, SMTT(20)
  <2>5. q \in Nat /\ q <= c
    BY <1>1, <2>2, <2>3, <2>4, SMTT(20)
  <2> QED BY <2>5 DEF q, c
<1>5. PageNum(w, n) = (b - 1) \div L + 1
  BY DEF PageNum, b
<1>6. PageNum(w, n) \in 1..MaxNlb
  BY <1>1, <1>3, <1>4, <1>5, SMTT(20)
<1>7. ASSUME NEW k \in Nat PROVE PageAt(w, k) \in Nat
  <2>1. NewWp(w) + k * L \in Nat
    BY <1>1, <1>2, SMTT(20)
  <2> QED BY <2>1, Device, DivMod DEF PageAt
<1> QED BY <1>6, <1>7

\* zone_rw deals at least one page to each transaction.
LEMMA DealtPages ==
  ASSUME NEW m, NEW z, NEW w, NEW n, PageNum(w, n) \in 1..MaxNlb,
         TsSum(m, z, w, n) \in Nat, TsSum(m, z, w, n) <= PageNum(w, n),
         NEW i \in 0..(TsSum(m, z, w, n) - 1)
  PROVE  /\ Max(Dealt(m, z, w, n, i)) \in Nat
         /\ Cardinality(Dealt(m, z, w, n, i)) \in 1..MaxNlb
<1> DEFINE P == PageNum(w, n)
           S == TsSum(m, z, w, n)
           D == Dealt(m, z, w, n, i)
<1>1. P \in Nat \ {0} /\ P <= MaxNlb /\ MaxNlb \in Nat
  BY Device, SMTT(20)
<1>2. D = {j \in 0..(P - 1) : j % S = i}
  BY DEF Dealt
<1> HIDE DEF P, S, D
<1>3. S \in Nat /\ S <= P /\ i \in 0..(S - 1)
  BY DEF P, S
<1>4. i \in 0..(P - 1) /\ i % S = i
  BY <1>1, <1>3, SMTT(20)
<1>5. D \in SUBSET (0..(P - 1)) /\ i \in D /\ P - 1 \in Nat
  BY <1>1, <1>2, <1>4, SMTT(20)
<1>6. Max(D) \in D
  BY <1>5, MaxOfSet
<1>7. Max(D) \in Nat
  <2>1. \A x \in 0..(P - 1) : x \in Nat
    BY <1>1, SMTT(20)
  <2> QED BY <1>5, <1>6, <2>1
<1>8. IsFiniteSet(0..(P - 1)) /\ Cardinality(0..(P - 1)) = P
  <2>1. 0 \in Int /\ P - 1 \in Int /\ ~(0 > P - 1) /\ (P - 1) - 0 + 1 = P
    BY <1>1, SMTT(20)
  <2> QED BY <2>1, FS_Interval
<1>9. IsFiniteSet(D) /\ Cardinality(D) <= P
  BY <1>5, <1>8, FS_Subset
<1>10. Cardinality(D) \in Nat /\ Cardinality(D) # 0
  BY <1>5, <1>9, FS_CardinalityType, FS_EmptySet
<1>11. Cardinality(D) \in 1..MaxNlb
  BY <1>1, <1>9, <1>10, SMTT(20)
<1> QED BY <1>7, <1>11 DEF D

\* The transactions of zone_rw serve the request on dies of the zone, and
\* there is one unless the request stays inside a written page.
LEMMA RwServes ==
  ASSUME NEW m \in Mappings, NEW z \in Zones, PlaceOK(m.phy[z]), m.phy[z].n # 0,
         NEW r \in Reqs, NEW op \in IoOps, NEW w \in Lbas, NEW n \in 1..MaxNlb
  PROVE  /\ Serves(zone_rw(m, r, op, z, w, n), m, r, op, z)
         /\ BlocksLeft(w, n) > 0 => Len(zone_rw(m, r, op, z, w, n)) > 0
<1> DEFINE ts == zone_rw(m, r, op, z, w, n)
<1>0. w \in Nat
  BY Flash, Device, SMTT(20) DEF Lbas
<1>1. CASE BlocksLeft(w, n) <= 0
  <2>1. ts = <<>>
    BY <1>1 DEF zone_rw
  <2>2. ts \in Seq(Transactions) /\ Len(ts) = 0
    BY <2>1, SMTT(20)
  <2>3. ~(BlocksLeft(w, n) > 0)
    <3>1. BlocksLeft(w, n) \in Int
      <4>1. NewWp(w) \in Int
        BY <1>0, Device, SMTT(20) DEF NewWp
      <4> QED BY <1>0, <4>1, SMTT(20) DEF BlocksLeft
    <3> QED BY <1>1, <3>1, SMTT(20)
  <2> QED BY <2>2, <2>3, SMTT(20) DEF Serves
<1>2. CASE ~(BlocksLeft(w, n) <= 0)
  <2> DEFINE S == TsSum(m, z, w, n)
  <2>1. BlocksLeft(w, n) > 0
    <3>1. BlocksLeft(w, n) \in Int
      <4>1. NewWp(w) \in Int
        BY <1>0, Device, SMTT(20) DEF NewWp
      <4> QED BY <1>0, <4>1, SMTT(20) DEF BlocksLeft
    <3> QED BY <1>2, <3>1, SMTT(20)
  <2>2. PageNum(w, n) \in 1..MaxNlb /\ \A k \in Nat : PageAt(w, k) \in Nat
    BY <1>0, <2>1, PageCount
  <2>3. Para(m, z) \in Nat \ {0}
    <3>1. m.phy[z].n \in Nat \ {0}
      BY DEF Mappings, Places
    <3> QED BY <3>1, Flash, SMTT(20) DEF Para
  <2>4. S \in Nat \ {0} /\ S <= PageNum(w, n)
    <3>1. PageNum(w, n) \in Nat \ {0}
      BY <2>2, SMTT(20)
    <3> QED BY <2>3, <3>1, MinOfTwo DEF TsSum
  <2>5. ts = [i \in 1..S |-> RwTransaction(m, r, op, z, w, n, i - 1)]
    BY <1>2 DEF zone_rw
  <2> HIDE DEF S, ts
  <2>6. ASSUME NEW i \in 1..S
        PROVE  LET t == RwTransaction(m, r, op, z, w, n, i - 1)
               IN  /\ t \in Transactions
                   /\ t.r = r /\ t.op = op /\ t.zone = z /\ t.blk = m.phy[z].ofst
                   /\ t.die \div DiesPerGroup \in GroupsOf(m, z)
    <3> DEFINE M == Max(Dealt(m, z, w, n, i - 1))
               C == Cardinality(Dealt(m, z, w, n, i - 1))
               die == DieOf(m, z, PageAt(w, M))
    <3>1. i - 1 \in 0..(S - 1)
      BY <2>4, SMTT(20)
    <3>2. M \in Nat /\ C \in 1..MaxNlb
      BY <2>2, <2>4, <3>1, DealtPages DEF S
    <3>3. RwTransaction(m, r, op, z, w, n, i - 1) =
            [r |-> r, op |-> op, zone |-> z, blk |-> m.phy[z].ofst,
             die |-> die, pl |-> 0, ops |-> C]
      BY DEF RwTransaction
    <3> HIDE DEF M, C
    <3>4. PageAt(w, M) \in Nat
      BY <2>2, <3>2
    <3>5. die \in Dies /\ die \div DiesPerGroup \in GroupsOf(m, z)
      BY <3>4, DieInside
    <3>6. m.phy[z].ofst \in Fbgs
      BY DEF Mappings, Places
    <3>7. C \in 1..(Planes + MaxNlb)
      BY <3>2, Device, Flash, SMTT(20)
    <3> HIDE DEF die
    <3> QED BY <3>3, <3>5, <3>6, <3>7, SMTT(20) DEF Transactions
  <2>7. ts \in Seq(Transactions) /\ Len(ts) = S
    <3>1. ts \in [1..S -> Transactions]
      BY <2>5, <2>6
    <3> QED BY <2>4, <3>1, SeqDef, SMTT(20)
  <2>8. \A i \in 1..Len(ts) : ts[i] = RwTransaction(m, r, op, z, w, n, i - 1)
    BY <2>5, <2>7
  <2>9. Serves(ts, m, r, op, z) /\ Len(ts) > 0
    <3>1. \A i \in 1..Len(ts) :
            /\ ts[i].r = r /\ ts[i].op = op /\ ts[i].zone = z
            /\ ts[i].blk = m.phy[z].ofst
            /\ ts[i].die \div DiesPerGroup \in GroupsOf(m, z)
      BY <2>6, <2>7, <2>8
    <3> QED BY <2>4, <2>7, <3>1, SMTT(20) DEF Serves
  <2> QED BY <2>9 DEF ts
<1> QED BY <1>1, <1>2

\* zone_reset erases the zone's block on every die of its groups.
LEMMA EraseServes ==
  ASSUME NEW m \in Mappings, NEW z \in Zones, PlaceOK(m.phy[z]), m.phy[z].n # 0,
         NEW r \in Reqs
  PROVE  LET ts == EraseTransactions(m, r, z)
         IN  /\ Serves(ts, m, r, "erase", z) /\ Len(ts) > 0
             /\ \A d \in Dies : d \div DiesPerGroup \in GroupsOf(m, z) =>
                  \E i \in 1..Len(ts) : ts[i].die = d
<1> DEFINE ts == EraseTransactions(m, r, z)
           p == m.phy[z]
           N == Para(m, z)
           T(i) == [r |-> r, op |-> "erase", zone |-> z, blk |-> p.ofst,
                    die |-> p.first * DiesPerGroup + i - 1, pl |-> 0, ops |-> Planes]
<1>1. p.n \in Nat \ {0} /\ p.first \in Nat /\ p.ofst \in Fbgs
  <2>1. p \in Places
    BY DEF Mappings
  <2>2. p.first \in Groups /\ p.n \in Nat \ {0} /\ p.ofst \in Fbgs
    BY <2>1 DEF Places
  <2> QED BY <2>2, Geometry, SMTT(20) DEF Groups
<1>2. N = p.n * DiesPerGroup /\ N \in Nat \ {0}
  BY <1>1, Flash, SMTT(20) DEF Para
<1>3. ts = [i \in 1..N |-> T(i)]
  BY DEF EraseTransactions
<1> HIDE DEF ts, N
<1>4. ASSUME NEW i \in 1..N
      PROVE  /\ p.first * DiesPerGroup + i - 1 \in Dies
             /\ (p.first * DiesPerGroup + i - 1) \div DiesPerGroup \in GroupsOf(m, z)
  <2> DEFINE k == i - 1
             q == k \div DiesPerGroup
             j == k % DiesPerGroup
  <2>1. k \in Nat /\ k < DiesPerGroup * p.n
    BY <1>1, <1>2, Flash, SMTT(20)
  <2> HIDE DEF k, p
  <2>2. q \in Nat /\ j \in 0..(DiesPerGroup - 1) /\ k = DiesPerGroup * q + j /\ q < p.n
    BY <1>1, <2>1, Flash, DivMod, DivBound
  <2> HIDE DEF q, j
  <2>3. q \in 0..(p.n - 1)
    BY <1>1, <2>2, SMTT(20)
  <2>4. p.first + q \in Groups /\ p.first + q \in GroupsOf(m, z)
    BY <2>3, SpanGroups DEF p
  <2>5. /\ (p.first + q) * DiesPerGroup + j \in Dies
        /\ ((p.first + q) * DiesPerGroup + j) \div DiesPerGroup = p.first + q
    BY <2>2, <2>4, DieOfGroup
  <2>6. p.first * DiesPerGroup + i - 1 = (p.first + q) * DiesPerGroup + j
    <3>1. i - 1 = DiesPerGroup * q + j
      BY <2>2 DEF k
    <3>2. (p.first + q) * DiesPerGroup + j = p.first * DiesPerGroup + DiesPerGroup * q + j
      BY <1>1, <2>2, Flash, SMTT(20)
    <3>3. p.first * DiesPerGroup \in Nat /\ DiesPerGroup * q \in Nat
      BY <1>1, <2>2, Flash, SMTT(20)
    <3> QED BY <1>2, <2>2, <3>1, <3>2, <3>3, SMTT(20)
  <2> QED BY <2>4, <2>5, <2>6 DEF p
<1>5. \A i \in 1..N : T(i) \in Transactions
  <2>1. Planes \in 1..(Planes + MaxNlb)
    BY Flash, Device, SMTT(20)
  <2> QED BY <1>1, <1>4, <2>1 DEF Transactions
<1>6. ts \in Seq(Transactions) /\ Len(ts) = N
  <2>1. ts \in [1..N -> Transactions]
    BY <1>3, <1>5
  <2> QED BY <1>2, <2>1, SeqDef, SMTT(20)
<1>7. \A i \in 1..N : ts[i] = T(i)
  BY <1>3
<1>8. Serves(ts, m, r, "erase", z)
  BY <1>4, <1>6, <1>7, SMTT(20) DEF Serves
<1>9. ASSUME NEW d \in Dies, d \div DiesPerGroup \in GroupsOf(m, z)
      PROVE  \E i \in 1..Len(ts) : ts[i].die = d
  <2> DEFINE g == d \div DiesPerGroup
             j == d % DiesPerGroup
             i == d - p.first * DiesPerGroup + 1
  <2>1. g \in Nat /\ j \in 0..(DiesPerGroup - 1) /\ d = DiesPerGroup * g + j /\ d \in Nat
    BY Flash, DieCount, DivMod
  <2>2. p.first <= g /\ g < p.first + p.n
    BY <1>9 DEF GroupsOf, Span
  <2> HIDE DEF g, j, p
  <2>3. g - p.first \in Nat /\ p.first + p.n - g - 1 \in Nat
    BY <1>1, <2>1, <2>2, SMTT(20)
  <2>4. PICK a \in Nat, b \in Nat : g = p.first + a /\ p.n = a + 1 + b
    <3>1. g = p.first + (g - p.first) /\ p.n = (g - p.first) + 1 + (p.first + p.n - g - 1)
      BY <1>1, <2>1, SMTT(20)
    <3> QED BY <2>3, <3>1
  <2>5. /\ DiesPerGroup * g = p.first * DiesPerGroup + DiesPerGroup * a
        /\ p.n * DiesPerGroup = DiesPerGroup * a + DiesPerGroup + DiesPerGroup * b
        /\ DiesPerGroup * a \in Nat /\ DiesPerGroup * b \in Nat
        /\ p.first * DiesPerGroup \in Nat
    BY <1>1, <2>4, Flash, SMTT(20)
  <2>6. i \in 1..N /\ p.first * DiesPerGroup + i - 1 = d
    BY <1>2, <2>1, <2>5, Flash, SMTT(20)
  <2> QED BY <1>6, <1>7, <2>6, SMTT(20) DEF p
<1> QED BY <1>2, <1>6, <1>8, <1>9, SMTT(20) DEF ts

(***************************************************************************)
(* The die queues, and the places in them that a request has.              *)
(***************************************************************************)
Queues == [Dies -> Seq(Transactions)]

Queued(q, r) == {p \in UNION {{d} \X DOMAIN q[d] : d \in Dies} : q[p[1]][p[2]].r = r}

\* Queued(q, r) are the places of r's transactions in the queues.
LEMMA QueuedPlaces ==
  ASSUME NEW q \in Queues, NEW r
  PROVE  /\ \A p \in Queued(q, r) :
              \E d \in Dies, i \in Nat : i \in 1..Len(q[d]) /\ p = <<d, i>> /\ q[d][i].r = r
         /\ \A d \in Dies : \A i \in 1..Len(q[d]) :
              <<d, i>> \in Queued(q, r) <=> q[d][i].r = r
<1>1. \A d \in Dies : q[d] \in Seq(Transactions)
  BY DEF Queues
<1>2. \A d \in Dies : DOMAIN q[d] = 1..Len(q[d])
  BY <1>1, LenProperties
<1>3. ASSUME NEW p \in Queued(q, r)
      PROVE  \E d \in Dies, i \in Nat : i \in 1..Len(q[d]) /\ p = <<d, i>> /\ q[d][i].r = r
  <2>1. PICK d \in Dies : p \in {d} \X DOMAIN q[d]
    BY DEF Queued
  <2>2. PICK i \in DOMAIN q[d] : p = <<d, i>>
    BY <2>1, SMTT(20)
  <2>3. q[d][i].r = r
    BY <2>2 DEF Queued
  <2> QED BY <1>2, <2>2, <2>3, SMTT(20)
<1>4. ASSUME NEW d \in Dies, NEW i \in 1..Len(q[d])
      PROVE  <<d, i>> \in Queued(q, r) <=> q[d][i].r = r
  <2>1. <<d, i>> \in {d} \X DOMAIN q[d] /\ <<d, i>>[1] = d /\ <<d, i>>[2] = i
    BY <1>2
  <2>2. <<d, i>> \in UNION {{e} \X DOMAIN q[e] : e \in Dies}
    BY <2>1
  <2> QED BY <2>1, <2>2 DEF Queued
<1> QED BY <1>3, <1>4

\* A set that a function pairs off with a finite set has as many elements.
LEMMA SameCount ==
  ASSUME NEW S, NEW T, NEW F \in [S -> T], IsFiniteSet(T),
         \A x, y \in S : F[x] = F[y] => x = y,
         \A t \in T : \E x \in S : F[x] = t
  PROVE  IsFiniteSet(S) /\ Cardinality(S) = Cardinality(T)
<1> DEFINE G == [t \in T |-> CHOOSE x \in S : F[x] = t]
<1>1. \A t \in T : G[t] \in S /\ F[G[t]] = t
  OBVIOUS
<1>2. G \in [T -> S]
  BY <1>1
<1> HIDE DEF G
<1>3. \A t, w \in T : G[t] = G[w] => t = w
  BY <1>1, SMTT(20)
<1>4. \A x \in S : F[x] \in T /\ G[F[x]] = x
  BY <1>1
<1>5. G \in Bijection(T, S)
  BY <1>2, <1>3, <1>4 DEF Bijection, Injection, Surjection, IsInjective
<1> QED BY <1>5, FS_Bijection DEF ExistsBijection

\* o are the transactions of ts for die d; e says where each comes from.
From(e, o, ts, d) ==
  /\ e \in [1..Len(o) -> 1..Len(ts)]
  /\ \A i, j \in 1..Len(o) : e[i] = e[j] => i = j
  /\ \A i \in 1..Len(o) : o[i] = ts[e[i]] /\ ts[e[i]].die = d
  /\ \A k \in 1..Len(ts) : ts[k].die = d => \E i \in 1..Len(o) : e[i] = k

\* ForDie picks the transactions of one die and keeps their order.
LEMMA Sorted ==
  ASSUME NEW ts \in Seq(Transactions), NEW d
  PROVE  ForDie(ts, d) \in Seq(Transactions) /\ \E e : From(e, ForDie(ts, d), ts, d)
<1> DEFINE T == {t \in Range(ts) : t.die = d}
           o == Only(ts, T)
<1>1. ForDie(ts, d) = o
  BY DEF ForDie
<1>2. o \in Seq(Transactions) /\ \E e : Picks(o, e, ts, T, Len(ts))
  BY OnlyPicks
<1>3. PICK e : Picks(o, e, ts, T, Len(ts))
  BY <1>2
<1>4. Len(ts) \in Nat /\ DOMAIN ts = 1..Len(ts)
  BY LenProperties
<1>5. \A k \in 1..Len(ts) : ts[k] \in T <=> ts[k].die = d
  BY <1>4 DEF Range
<1> HIDE DEF T, o
<1>6. Len(o) \in Nat
  BY <1>2, LenProperties
<1>7. /\ e \in [1..Len(o) -> 1..Len(ts)]
      /\ \A i, j \in 1..Len(o) : i < j => e[i] < e[j]
      /\ \A i \in 1..Len(o) : o[i] = ts[e[i]] /\ ts[e[i]] \in T
      /\ \A k \in 1..Len(ts) : ts[k] \in T => \E i \in 1..Len(o) : e[i] = k
  BY <1>3 DEF Picks
<1>8. ASSUME NEW i \in 1..Len(o), NEW j \in 1..Len(o), e[i] = e[j] PROVE i = j
  <2>1. e[i] \in Int /\ e[j] \in Int
    BY <1>4, <1>7, SMTT(20)
  <2>2. ~(i < j) /\ ~(j < i)
    BY <1>7, <1>8, <2>1, SMTT(20)
  <2> QED BY <1>6, <2>2, SMTT(20)
<1>9. From(e, o, ts, d)
  BY <1>5, <1>7, <1>8 DEF From
<1> QED BY <1>1, <1>2, <1>9

\* QTAILQ_INSERT_TAIL leaves what is queued and appends the new ones in order.
LEMMA Inserted ==
  ASSUME NEW q \in Queues, NEW ts \in Seq(Transactions), NEW d \in Dies
  PROVE  LET u == InsertInTail(q, ts)[d]
             o == ForDie(ts, d)
         IN  /\ u \in Seq(Transactions) /\ Len(q[d]) \in Nat /\ Len(o) \in Nat
             /\ Len(u) = Len(q[d]) + Len(o)
             /\ \A i \in 1..Len(q[d]) : u[i] = q[d][i]
             /\ \A i \in 1..Len(o) : u[Len(q[d]) + i] = o[i]
<1>1. q[d] \in Seq(Transactions) /\ ForDie(ts, d) \in Seq(Transactions)
  BY Sorted DEF Queues
<1>2. InsertInTail(q, ts)[d] = q[d] \o ForDie(ts, d)
  BY DEF InsertInTail
<1> DEFINE s == q[d]
           o == ForDie(ts, d)
<1> HIDE DEF s, o
<1>3. s \in Seq(Transactions) /\ o \in Seq(Transactions)
  BY <1>1 DEF s, o
<1>4. /\ s \o o \in Seq(Transactions) /\ Len(s \o o) = Len(s) + Len(o)
      /\ \A i \in 1..(Len(s) + Len(o)) : (s \o o)[i] = IF i <= Len(s) THEN s[i] ELSE o[i - Len(s)]
      /\ Len(s) \in Nat /\ Len(o) \in Nat
  BY <1>3, ConcatProperties, LenProperties
<1>5. \A i \in 1..Len(s) : i \in 1..(Len(s) + Len(o)) /\ i <= Len(s)
  BY <1>4, SMTT(20)
<1>6. \A i \in 1..Len(o) : /\ Len(s) + i \in 1..(Len(s) + Len(o)) /\ ~(Len(s) + i <= Len(s))
                           /\ (Len(s) + i) - Len(s) = i
  BY <1>4, SMTT(20)
<1>7. /\ \A i \in 1..Len(s) : (s \o o)[i] = s[i]
      /\ \A i \in 1..Len(o) : (s \o o)[Len(s) + i] = o[i]
  BY <1>4, <1>5, <1>6
<1> QED BY <1>2, <1>4, <1>7 DEF s, o

\* Inserting the transactions of r adds as many to r's and none to others'.
LEMMA InsertedCount ==
  ASSUME NEW q \in Queues, NEW ts \in Seq(Transactions), NEW r,
         \A k \in 1..Len(ts) : ts[k].r = r,
         IsFiniteSet(Queued(q, r))
  PROVE  LET u == InsertInTail(q, ts)
         IN  /\ u \in Queues
             /\ IsFiniteSet(Queued(u, r))
             /\ Cardinality(Queued(u, r)) = Cardinality(Queued(q, r)) + Len(ts)
             /\ \A s : s # r => Queued(u, s) = Queued(q, s)
<1> DEFINE u == InsertInTail(q, ts)
           o(d) == ForDie(ts, d)
           E == [d \in Dies |-> CHOOSE e : From(e, o(d), ts, d)]
           Old == Queued(q, r)
           New == {p \in Dies \X Nat : p[2] > Len(q[p[1]]) /\ p[2] <= Len(u[p[1]])}
<1>1. u \in Queues
  <2>1. \A d \in Dies : u[d] \in Seq(Transactions)
    BY Inserted
  <2>2. u = [d \in Dies |-> u[d]]
    BY DEF InsertInTail
  <2> QED BY <2>1, <2>2 DEF Queues
<1>2. \A d \in Dies : From(E[d], o(d), ts, d)
  BY Sorted
<1> HIDE DEF E
<1>3. \A d \in Dies :
        /\ Len(q[d]) \in Nat /\ Len(o(d)) \in Nat /\ Len(u[d]) = Len(q[d]) + Len(o(d))
        /\ \A i \in 1..Len(q[d]) : u[d][i] = q[d][i]
        /\ \A i \in 1..Len(o(d)) : u[d][Len(q[d]) + i] = o(d)[i]
  BY Inserted, SMTT(20)
<1> HIDE DEF u, o
<1>4. Len(ts) \in Nat
  BY LenProperties
<1>5. ASSUME NEW d \in Dies, NEW i \in Nat, i > Len(q[d]), i <= Len(u[d])
      PROVE  /\ i - Len(q[d]) \in 1..Len(o(d)) /\ i \in 1..Len(u[d])
             /\ E[d][i - Len(q[d])] \in 1..Len(ts)
             /\ ts[E[d][i - Len(q[d])]].die = d
             /\ u[d][i].r = r
  <2> DEFINE j == i - Len(q[d])
             k == E[d][j]
  <2>1. j \in 1..Len(o(d)) /\ i \in 1..Len(u[d]) /\ Len(q[d]) + j = i
    BY <1>3, <1>5, SMTT(20)
  <2> HIDE DEF j
  <2>2. u[d][i] = o(d)[j]
    BY <1>3, <2>1
  <2>3. From(E[d], o(d), ts, d)
    BY <1>2
  <2>4. k \in 1..Len(ts) /\ o(d)[j] = ts[k] /\ ts[k].die = d
    BY <2>1, <2>3 DEF From
  <2> HIDE DEF k
  <2>5. ts[k].r = r
    BY <2>4
  <2> QED BY <2>1, <2>2, <2>4, <2>5 DEF j, k
<1>6. ASSUME NEW d \in Dies, NEW i \in 1..Len(u[d])
      PROVE  i \in 1..Len(q[d]) \/ (i \in Nat /\ i > Len(q[d]) /\ i <= Len(u[d]))
  BY <1>3, SMTT(20)
<1>7. ASSUME NEW d \in Dies, NEW i \in 1..Len(q[d]) PROVE i \in 1..Len(u[d]) /\ u[d][i] = q[d][i]
  BY <1>3, SMTT(20)
<1>a. \A d \in Dies, i \in Nat : i > Len(q[d]) /\ i <= Len(u[d]) => <<d, i>> \in New
  OBVIOUS
<1>b. ASSUME NEW p \in New
      PROVE  \E d \in Dies, i \in Nat : p = <<d, i>> /\ i > Len(q[d]) /\ i <= Len(u[d])
  <2>1. PICK d \in Dies, i \in Nat : p = <<d, i>>
    BY SMTT(20)
  <2>2. p[1] = d /\ p[2] = i
    BY <2>1
  <2> QED BY <2>1, <2>2
<1> HIDE DEF New
<1>8. Queued(u, r) = Old \cup New
  <2>1. ASSUME NEW p \in Queued(u, r) PROVE p \in Old \cup New
    <3>1. PICK d \in Dies, i \in Nat : i \in 1..Len(u[d]) /\ p = <<d, i>> /\ u[d][i].r = r
      BY <1>1, QueuedPlaces, SMTT(20)
    <3>2. CASE i \in 1..Len(q[d])
      BY <1>7, <3>1, <3>2, QueuedPlaces, SMTT(20)
    <3>3. CASE i \in Nat /\ i > Len(q[d]) /\ i <= Len(u[d])
      BY <1>a, <3>1, <3>3
    <3> QED BY <1>6, <3>1, <3>2, <3>3
  <2>2. ASSUME NEW p \in Old PROVE p \in Queued(u, r)
    <3>1. PICK d \in Dies, i \in Nat : i \in 1..Len(q[d]) /\ p = <<d, i>> /\ q[d][i].r = r
      BY QueuedPlaces, SMTT(20)
    <3>2. i \in 1..Len(u[d]) /\ u[d][i].r = r
      BY <1>7, <3>1
    <3> QED BY <1>1, <3>1, <3>2, QueuedPlaces
  <2>3. ASSUME NEW p \in New PROVE p \in Queued(u, r)
    <3>1. PICK d \in Dies, i \in Nat : p = <<d, i>> /\ i > Len(q[d]) /\ i <= Len(u[d])
      BY <1>b
    <3>2. i \in 1..Len(u[d]) /\ u[d][i].r = r
      BY <1>5, <3>1
    <3> QED BY <1>1, <3>1, <3>2, QueuedPlaces
  <2> QED BY <2>1, <2>2, <2>3
<1>9. Old \cap New = {}
  <2>1. ASSUME NEW p \in Old, p \in New PROVE FALSE
    <3>1. PICK d \in Dies, i \in Nat : i \in 1..Len(q[d]) /\ p = <<d, i>>
      BY QueuedPlaces, SMTT(20)
    <3>2. PICK e \in Dies, j \in Nat : p = <<e, j>> /\ j > Len(q[e])
      BY <1>b, <2>1
    <3>3. d = e /\ i = j
      BY <3>1, <3>2, SMTT(20)
    <3> QED BY <1>3, <3>1, <3>2, <3>3, SMTT(20)
  <2> QED BY <2>1
<1>10. IsFiniteSet(New) /\ Cardinality(New) = Len(ts)
  <2> DEFINE F == [p \in New |-> E[p[1]][p[2] - Len(q[p[1]])]]
  <2>1. ASSUME NEW p \in New
        PROVE  \E d \in Dies, i \in Nat : /\ p = <<d, i>> /\ i > Len(q[d]) /\ i <= Len(u[d])
                                          /\ F[p] = E[d][i - Len(q[d])]
    <3>1. PICK d \in Dies, i \in Nat : p = <<d, i>> /\ i > Len(q[d]) /\ i <= Len(u[d])
      BY <1>b
    <3>2. p[1] = d /\ p[2] = i
      BY <3>1
    <3>3. F[p] = E[d][i - Len(q[d])]
      BY <3>2
    <3> QED BY <3>1, <3>3
  <2>2. F \in [New -> 1..Len(ts)]
    <3>1. \A p \in New : F[p] \in 1..Len(ts)
      BY <1>5, <2>1, SMTT(20)
    <3> QED BY <3>1
  <2>3. ASSUME NEW p \in New, NEW s \in New, F[p] = F[s] PROVE p = s
    <3>1. PICK d \in Dies, i \in Nat : /\ p = <<d, i>> /\ i > Len(q[d]) /\ i <= Len(u[d])
                                       /\ F[p] = E[d][i - Len(q[d])]
      BY <2>1
    <3>2. PICK e \in Dies, j \in Nat : /\ s = <<e, j>> /\ j > Len(q[e]) /\ j <= Len(u[e])
                                       /\ F[s] = E[e][j - Len(q[e])]
      BY <2>1
    <3> HIDE DEF F
    <3> DEFINE x == i - Len(q[d])
               y == j - Len(q[e])
    <3>a. x \in 1..Len(o(d)) /\ ts[E[d][x]].die = d
      BY <1>5, <3>1
    <3>b. y \in 1..Len(o(e)) /\ ts[E[e][y]].die = e
      BY <1>5, <3>2
    <3>c. E[d][x] = E[e][y]
      BY <2>3, <3>1, <3>2
    <3> HIDE DEF x, y
    <3>3. d = e
      BY <3>a, <3>b, <3>c
    <3>4. x = y
      BY <1>2, <3>a, <3>b, <3>c, <3>3 DEF From
    <3>5. i = j
      BY <1>3, <3>3, <3>4, SMTT(20) DEF x, y
    <3> QED BY <3>1, <3>2, <3>3, <3>5
  <2>4. ASSUME NEW k \in 1..Len(ts) PROVE \E p \in New : F[p] = k
    <3> DEFINE d == ts[k].die
    <3>1. d \in Dies
      <4>1. ts[k] \in Transactions
        BY ElementOfSeq
      <4> QED BY <4>1 DEF Transactions
    <3>2. PICK i \in 1..Len(o(d)) : E[d][i] = k
      BY <1>2, <3>1, SMTT(20) DEF From
    <3>3. /\ Len(q[d]) + i \in Nat /\ Len(q[d]) + i > Len(q[d]) /\ Len(q[d]) + i <= Len(u[d])
          /\ (Len(q[d]) + i) - Len(q[d]) = i
      BY <1>3, <3>1, SMTT(20)
    <3> HIDE DEF d
    <3>4. <<d, Len(q[d]) + i>> \in New
      BY <1>a, <3>1, <3>3
    <3>5. F[<<d, Len(q[d]) + i>>] = E[d][i]
      BY <3>3, <3>4
    <3> QED BY <3>2, <3>4, <3>5
  <2> HIDE DEF F
  <2>5. IsFiniteSet(1..Len(ts)) /\ Cardinality(1..Len(ts)) = Len(ts)
    <3>1. /\ IsFiniteSet(1..Len(ts))
          /\ Cardinality(1..Len(ts)) = IF 1 > Len(ts) THEN 0 ELSE Len(ts) - 1 + 1
      <4>1. 1 \in Int /\ Len(ts) \in Int
        BY <1>4, SMTT(20)
      <4> QED BY <4>1, FS_Interval
    <3> QED BY <1>4, <3>1, SMTT(20)
  <2> QED BY <2>2, <2>3, <2>4, <2>5, SameCount, SMTT(20)
<1>11. IsFiniteSet(Queued(u, r)) /\ Cardinality(Queued(u, r)) = Cardinality(Old) + Len(ts)
  <2> HIDE DEF Old
  <2>1. IsFiniteSet(Old)
    BY DEF Old
  <2>2. /\ IsFiniteSet(Old \cup New)
        /\ Cardinality(Old \cup New) = Cardinality(Old) + Cardinality(New) - Cardinality({})
    <3>1. /\ IsFiniteSet(Old \cup New)
          /\ Cardinality(Old \cup New)
               = Cardinality(Old) + Cardinality(New) - Cardinality(Old \cap New)
      BY <1>10, <2>1, FS_Union
    <3> QED BY <1>9, <3>1
  <2>3. Cardinality({}) = 0 /\ Cardinality(Old) \in Nat
    BY <2>1, FS_EmptySet, FS_CardinalityType
  <2> QED BY <1>4, <1>8, <1>10, <2>2, <2>3, SMTT(20)
<1>12. ASSUME NEW s, s # r PROVE Queued(u, s) = Queued(q, s)
  <2>1. ASSUME NEW p \in Queued(u, s) PROVE p \in Queued(q, s)
    <3>1. PICK d \in Dies, i \in Nat : i \in 1..Len(u[d]) /\ p = <<d, i>> /\ u[d][i].r = s
      BY <1>1, QueuedPlaces, SMTT(20)
    <3>2. CASE i \in 1..Len(q[d])
      BY <1>7, <3>1, <3>2, QueuedPlaces, SMTT(20)
    <3>3. CASE i \in Nat /\ i > Len(q[d]) /\ i <= Len(u[d])
      BY <1>5, <1>12, <3>1, <3>3
    <3> QED BY <1>6, <3>1, <3>2, <3>3
  <2>2. ASSUME NEW p \in Queued(q, s) PROVE p \in Queued(u, s)
    <3>1. PICK d \in Dies, i \in Nat : i \in 1..Len(q[d]) /\ p = <<d, i>> /\ q[d][i].r = s
      BY QueuedPlaces
    <3>2. i \in 1..Len(u[d]) /\ u[d][i].r = s
      BY <1>7, <3>1
    <3> QED BY <1>1, <3>1, <3>2, QueuedPlaces
  <2> QED BY <2>1, <2>2
<1> QED BY <1>1, <1>11, <1>12 DEF u

(***************************************************************************)
(* Taking the first transaction of die c moves the ones behind it up.      *)
(***************************************************************************)
LEMMA Taken ==
  ASSUME NEW q \in Queues, NEW c \in Dies, q[c] # <<>>
  PROVE  LET u == [q EXCEPT ![c] = Tail(@)]
         IN  /\ u \in Queues /\ Len(q[c]) \in Nat \ {0} /\ Len(u[c]) = Len(q[c]) - 1
             /\ Head(q[c]) = q[c][1] /\ q[c][1] \in Transactions
             /\ \A i \in 1..Len(u[c]) : i + 1 \in 1..Len(q[c]) /\ u[c][i] = q[c][i + 1]
             /\ \A d \in Dies : d # c => u[d] = q[d]
<1> DEFINE u == [q EXCEPT ![c] = Tail(@)]
           s == q[c]
<1>1. s \in Seq(Transactions) /\ s # <<>> /\ q \in [Dies -> Seq(Transactions)]
  BY DEF Queues
<1>2. u[c] = Tail(s) /\ \A d \in Dies : d # c => u[d] = q[d]
  BY <1>1
<1> HIDE DEF s
<1>3. /\ Tail(s) \in Seq(Transactions) /\ Len(Tail(s)) = Len(s) - 1
      /\ \A i \in 1..Len(Tail(s)) : Tail(s)[i] = s[i + 1]
      /\ Head(s) = s[1]
  BY <1>1, HeadTailProperties, SMTT(20)
<1>4. Len(s) \in Nat \ {0}
  BY <1>1, EmptySeq, LenProperties
<1>5. u \in Queues
  BY <1>1, <1>3 DEF Queues, s
<1>6. s[1] \in Transactions
  BY <1>1, <1>4, ElementOfSeq, SMTT(20)
<1>7. \A i \in 1..Len(Tail(s)) : i + 1 \in 1..Len(s)
  BY <1>3, <1>4, SMTT(20)
<1> HIDE DEF u
<1> QED BY <1>2, <1>3, <1>4, <1>5, <1>6, <1>7 DEF s, u

\* Taking the head of a queue takes one from its request and no other.
LEMMA TakenCount ==
  ASSUME NEW q \in Queues, NEW c \in Dies, q[c] # <<>>, NEW r, IsFiniteSet(Queued(q, r))
  PROVE  LET u == [q EXCEPT ![c] = Tail(@)]
         IN  /\ IsFiniteSet(Queued(u, r))
             /\ Cardinality(Queued(u, r))
                  = Cardinality(Queued(q, r)) - IF Head(q[c]).r = r THEN 1 ELSE 0
             /\ Head(q[c]).r = r => Cardinality(Queued(q, r)) # 0
<1> DEFINE u == [q EXCEPT ![c] = Tail(@)]
           Old == Queued(q, r)
           New == Queued(u, r)
           Rest == Old \ {<<c, 1>>}
           Up(p) == IF p[1] = c THEN <<c, p[2] + 1>> ELSE p
           F == [p \in New |-> Up(p)]
<1>1. /\ u \in Queues /\ Len(q[c]) \in Nat \ {0} /\ Len(u[c]) = Len(q[c]) - 1
      /\ Head(q[c]) = q[c][1]
      /\ \A i \in 1..Len(u[c]) : i + 1 \in 1..Len(q[c]) /\ u[c][i] = q[c][i + 1]
      /\ \A d \in Dies : d # c => u[d] = q[d]
  BY Taken
<1> HIDE DEF u
<1>2. \A p \in New : \E d \in Dies, i \in Nat : i \in 1..Len(u[d]) /\ p = <<d, i>> /\ u[d][i].r = r
  BY <1>1, QueuedPlaces
<1>3. ASSUME NEW d \in Dies, NEW i \in Nat
      PROVE  /\ d = c => Up(<<d, i>>) = <<c, i + 1>>
             /\ d # c => Up(<<d, i>>) = <<d, i>>
  OBVIOUS
<1> HIDE DEF Up
<1>4. ASSUME NEW p \in New PROVE F[p] \in Rest
  <2>1. PICK d \in Dies, i \in Nat : i \in 1..Len(u[d]) /\ p = <<d, i>> /\ u[d][i].r = r
    BY <1>2
  <2>2. CASE d = c
    <3>1. i + 1 \in 1..Len(q[c]) /\ q[c][i + 1].r = r /\ i + 1 # 1
      BY <1>1, <2>1, <2>2, SMTT(20)
    <3>2. <<c, i + 1>> \in Old /\ <<c, i + 1>> # <<c, 1>>
      BY <3>1, QueuedPlaces
    <3> QED BY <1>3, <2>1, <2>2, <3>2
  <2>3. CASE d # c
    <3>1. i \in 1..Len(q[d]) /\ q[d][i].r = r
      BY <1>1, <2>1, <2>3
    <3>2. <<d, i>> \in Old /\ <<d, i>> # <<c, 1>>
      BY <2>3, <3>1, QueuedPlaces
    <3> QED BY <1>3, <2>1, <2>3, <3>2
  <2> QED BY <2>2, <2>3
<1>5. F \in [New -> Rest]
  BY <1>4
<1>6. ASSUME NEW p \in New, NEW s \in New, F[p] = F[s] PROVE p = s
  <2>1. PICK d \in Dies, i \in Nat : p = <<d, i>>
    BY <1>2
  <2>2. PICK e \in Dies, j \in Nat : s = <<e, j>>
    BY <1>2
  <2>3. Up(<<d, i>>) = Up(<<e, j>>)
    BY <1>6, <2>1, <2>2
  <2>4. CASE d = c /\ e = c
    <3>1. <<c, i + 1>> = <<c, j + 1>>
      BY <1>3, <2>3, <2>4, SMTT(20)
    <3>2. i + 1 = j + 1
      BY <3>1
    <3> QED BY <2>1, <2>2, <2>4, <3>2, SMTT(20)
  <2>5. CASE d = c /\ e # c
    <3>1. <<c, i + 1>> = <<e, j>>
      BY <1>3, <2>3, <2>5, SMTT(20)
    <3> QED BY <2>5, <3>1
  <2>6. CASE d # c /\ e = c
    <3>1. <<d, i>> = <<c, j + 1>>
      BY <1>3, <2>3, <2>6, SMTT(20)
    <3> QED BY <2>6, <3>1
  <2>7. CASE d # c /\ e # c
    BY <1>3, <2>1, <2>2, <2>3, <2>7
  <2> QED BY <2>4, <2>5, <2>6, <2>7
<1>7. ASSUME NEW p \in Rest PROVE \E s \in New : F[s] = p
  <2>1. PICK d \in Dies, i \in Nat : i \in 1..Len(q[d]) /\ p = <<d, i>> /\ q[d][i].r = r
    BY QueuedPlaces, SMTT(20)
  <2>2. CASE d = c
    <3>1. i # 1
      BY <2>1, <2>2
    <3>2. i - 1 \in Nat /\ i - 1 \in 1..Len(u[c]) /\ (i - 1) + 1 = i
      BY <1>1, <2>1, <2>2, <3>1, SMTT(20)
    <3>3. u[c][i - 1].r = r
      BY <1>1, <2>1, <2>2, <3>2
    <3>4. <<c, i - 1>> \in New
      BY <1>1, <3>2, <3>3, QueuedPlaces
    <3>5. Up(<<c, i - 1>>) = p
      BY <1>3, <2>1, <2>2, <3>2, SMTT(20)
    <3> QED BY <3>4, <3>5
  <2>3. CASE d # c
    <3>1. <<d, i>> \in New
      BY <1>1, <2>1, <2>3, QueuedPlaces
    <3>2. Up(<<d, i>>) = p
      BY <1>3, <2>1, <2>3
    <3> QED BY <3>1, <3>2
  <2> QED BY <2>2, <2>3
<1> HIDE DEF F, Old, New
<1>8. IsFiniteSet(Old)
  BY DEF Old
<1>9. /\ IsFiniteSet(Rest)
      /\ Cardinality(Rest) = IF <<c, 1>> \in Old THEN Cardinality(Old) - 1 ELSE Cardinality(Old)
  BY <1>8, FS_RemoveElement
<1>10. IsFiniteSet(New) /\ Cardinality(New) = Cardinality(Rest)
  BY <1>5, <1>6, <1>7, <1>9, SameCount, SMTT(20)
<1>11. <<c, 1>> \in Old <=> Head(q[c]).r = r
  <2>1. 1 \in 1..Len(q[c])
    BY <1>1, SMTT(20)
  <2> QED BY <1>1, <2>1, QueuedPlaces, SMTT(20) DEF Old
<1>12. Cardinality(Old) \in Nat /\ (<<c, 1>> \in Old => Cardinality(Old) # 0)
  BY <1>8, FS_CardinalityType, FS_EmptySet
<1> QED BY <1>9, <1>10, <1>11, <1>12, SMTT(20) DEF Old, New, u

\* In the queue t of die d the transactions of ts for d follow those of s.
FollowedBy(s, t, ts, d) ==
  /\ Len(s) \in Nat /\ Len(t) \in Nat /\ Len(s) <= Len(t)
  /\ \A i \in 1..Len(s) : t[i] = s[i]
  /\ \A i \in 1..Len(t) : i \notin 1..Len(s) =>
       \E k \in 1..Len(ts) : t[i] = ts[k] /\ ts[k].die = d
  /\ \A k \in 1..Len(ts) : ts[k].die = d =>
       \E i \in 1..Len(t) : i \notin 1..Len(s) /\ t[i] = ts[k]

\* InsertInTail adds the transactions of ts.
LEMMA InsertedPlaces ==
  ASSUME NEW q \in Queues, NEW ts \in Seq(Transactions), NEW d \in Dies
  PROVE  FollowedBy(q[d], InsertInTail(q, ts)[d], ts, d)
<1> DEFINE u == InsertInTail(q, ts)
           o == ForDie(ts, d)
           n == Len(q[d])
<1>1. /\ n \in Nat /\ Len(o) \in Nat /\ Len(u[d]) = n + Len(o)
      /\ \A i \in 1..n : u[d][i] = q[d][i]
      /\ \A i \in 1..Len(o) : u[d][n + i] = o[i]
  BY Inserted
<1>2. PICK e : From(e, o, ts, d)
  BY Sorted
<1> HIDE DEF u, o, n
<1>3. ASSUME NEW i \in 1..Len(u[d]), i \notin 1..n
      PROVE  \E k \in 1..Len(ts) : u[d][i] = ts[k] /\ ts[k].die = d
  <2>1. i - n \in 1..Len(o) /\ n + (i - n) = i
    BY <1>1, <1>3, SMTT(20)
  <2>2. u[d][i] = o[i - n]
    BY <1>1, <2>1
  <2> QED BY <1>2, <2>1, <2>2, SMTT(20) DEF From
<1>4. ASSUME NEW k \in 1..Len(ts), ts[k].die = d
      PROVE  \E i \in 1..Len(u[d]) : i \notin 1..n /\ u[d][i] = ts[k]
  <2>1. PICK j \in 1..Len(o) : e[j] = k
    BY <1>2, <1>4 DEF From
  <2>2. o[j] = ts[k]
    BY <1>2, <2>1 DEF From
  <2>3. n + j \in 1..Len(u[d]) /\ n + j \notin 1..n /\ u[d][n + j] = o[j]
    BY <1>1, SMTT(20)
  <2> QED BY <2>2, <2>3
<1>5. Len(u[d]) \in Nat /\ n <= Len(u[d])
  BY <1>1, SMTT(20)
<1> QED BY <1>1, <1>3, <1>4, <1>5 DEF FollowedBy, u, n

(***************************************************************************)
(* The invariant of queues and requests: a transaction is in the queue of  *)
(* its die, and a request counts its transactions.                         *)
(***************************************************************************)
Requests == [state : {"free", "pending", "cq"}, ts_num : Nat, left : Nat, end : Nat]

Counted(s, q, r) ==
  /\ IsFiniteSet(Queued(q, r)) /\ s.ts_num = Cardinality(Queued(q, r))
  /\ s.state # "pending" => s.ts_num = 0
  /\ s.state = "pending" => MayStayInPage \/ s.ts_num # 0

OnOwnDie(q) == \A d \in Dies : \A i \in 1..Len(q[d]) : q[d][i].die = d

WorkInv ==
  /\ queue \in Queues /\ OnOwnDie(queue)
  /\ req \in [Reqs -> Requests]
  /\ \A r \in Reqs : Counted(req[r], queue, r)

ClockInv ==
  /\ busy \in [Dies -> Nat] /\ cur \in Dies /\ seen \in 0..(StartUpReqs + 1)
  /\ cell \in [Dies -> [Fbgs -> Zones \cup {NoZone}]]

\* A request that is accepted counts the transactions it has queued.
LEMMA SubmitCounts ==
  ASSUME WorkInv, NEW r \in Reqs, req[r].state = "free", NEW ts \in Seq(Transactions),
         \A k \in 1..Len(ts) : ts[k].r = r, MayStayInPage \/ Len(ts) > 0, Submit(r, ts)
  PROVE  WorkInv'
<1> DEFINE u == InsertInTail(queue, ts)
<1>1. queue \in Queues /\ OnOwnDie(queue) /\ req \in [Reqs -> Requests]
  BY DEF WorkInv
<1>2. \A s \in Reqs : Counted(req[s], queue, s)
  BY DEF WorkInv
<1>3. queue' = u
  BY DEF Submit
<1>4. IsFiniteSet(Queued(queue, r)) /\ Cardinality(Queued(queue, r)) = 0
  BY <1>2 DEF Counted
<1>5. /\ u \in Queues /\ IsFiniteSet(Queued(u, r))
      /\ Cardinality(Queued(u, r)) = Cardinality(Queued(queue, r)) + Len(ts)
      /\ \A s : s # r => Queued(u, s) = Queued(queue, s)
  BY <1>1, <1>4, InsertedCount, SMTT(20)
<1>6. OnOwnDie(u)
  <2> SUFFICES ASSUME NEW d \in Dies, NEW i \in 1..Len(u[d]) PROVE u[d][i].die = d
    BY DEF OnOwnDie
  <2>1. /\ \A j \in 1..Len(queue[d]) : u[d][j] = queue[d][j]
        /\ \A j \in 1..Len(u[d]) : j \notin 1..Len(queue[d]) =>
             \E k \in 1..Len(ts) : u[d][j] = ts[k] /\ ts[k].die = d
    <3>1. FollowedBy(queue[d], u[d], ts, d)
      BY <1>1, InsertedPlaces
    <3> QED BY <3>1 DEF FollowedBy
  <2> HIDE DEF u
  <2> QED BY <1>1, <2>1, SMTT(20) DEF OnOwnDie
<1> HIDE DEF u
<1>7. Len(ts) \in Nat
  BY LenProperties
<1>8. /\ req[r] \in Requests /\ req'[r] = [req[r] EXCEPT !.state = "pending", !.ts_num = Len(ts)]
      /\ \A s \in Reqs : s # r => req'[s] = req[s]
      /\ req' = [req EXCEPT ![r] = req'[r]]
  BY <1>1 DEF Submit
<1>9. req'[r] \in Requests /\ req'[r].state = "pending" /\ req'[r].ts_num = Len(ts)
  BY <1>7, <1>8 DEF Requests
<1>10. req' \in [Reqs -> Requests]
  BY <1>1, <1>8, <1>9
<1>11. ASSUME NEW s \in Reqs PROVE Counted(req'[s], u, s)
  <2>1. CASE s = r
    BY <1>4, <1>5, <1>7, <1>9, <2>1, SMTT(20) DEF Counted
  <2>2. CASE s # r
    BY <1>2, <1>5, <1>8, <2>2 DEF Counted
  <2> QED BY <2>1, <2>2
<1> QED BY <1>3, <1>5, <1>6, <1>10, <1>11 DEF WorkInv

\* A request that is submitted at once has none.
LEMMA DirectCounts ==
  ASSUME WorkInv, NEW r \in Reqs, req[r].state = "free", Direct(r)
  PROVE  WorkInv'
<1>1. /\ req \in [Reqs -> Requests] /\ queue' = queue
      /\ req' = [req EXCEPT ![r] = [req[r] EXCEPT !.state = "cq"]]
  BY DEF WorkInv, Direct
<1>2. req[r] \in Requests /\ req'[r] = [req[r] EXCEPT !.state = "cq"]
  BY <1>1
<1>3. req'[r] \in Requests /\ req'[r].state = "cq" /\ req'[r].ts_num = req[r].ts_num
  BY <1>2 DEF Requests
<1>4. req' \in [Reqs -> Requests] /\ \A s \in Reqs : s # r => req'[s] = req[s]
  BY <1>1, <1>3
<1>5. ASSUME NEW s \in Reqs PROVE Counted(req'[s], queue, s)
  <2>1. Counted(req[s], queue, s) /\ Counted(req[r], queue, r)
    BY DEF WorkInv
  <2>2. CASE s = r
    BY <1>3, <2>1, <2>2 DEF Counted
  <2>3. CASE s # r
    BY <1>4, <2>1, <2>3
  <2> QED BY <2>2, <2>3
<1> QED BY <1>1, <1>4, <1>5 DEF WorkInv

\* A transaction takes a time that is a number.
LEMMA ServiceTime ==
  ASSUME NEW t \in Transactions
  PROVE  Service(t) \in Nat
<1>1. t.pl = 0 /\ t.ops \in 1..(Planes + MaxNlb)
  BY DEF Transactions
<1>2. Planes \in Nat \ {0} /\ MaxNlb \in Nat
  BY Flash, Device
<1> DEFINE a == t.pl + t.ops - 1
           b == a \div Planes
<1>3. a \in Nat
  BY <1>1, <1>2, SMTT(20)
<1> HIDE DEF a
<1>4. b \in Nat
  BY <1>2, <1>3, DivMod
<1>5. Lat(t.op) \in Nat
  BY Device DEF Lat
<1> HIDE DEF b
<1>6. (b + 1) * Lat(t.op) \in Nat
  BY <1>4, <1>5, SMTT(20)
<1> QED BY <1>6 DEF Service, a, b

\* Executing a transaction releases it: ts_num follows the queues.
LEMMA ExecuteCounts ==
  ASSUME WorkInv, ClockInv, queue[cur] # <<>>, Execute(Head(queue[cur]))
  PROVE  /\ WorkInv' /\ busy' \in [Dies -> Nat]
         /\ cell' \in [Dies -> [Fbgs -> Zones \cup {NoZone}]]
<1> DEFINE t == Head(queue[cur])
           r == t.r
           u == [queue EXCEPT ![cur] = Tail(@)]
           lat == Service(t)
<1>1. queue \in Queues /\ OnOwnDie(queue) /\ req \in [Reqs -> Requests] /\ cur \in Dies
  BY DEF WorkInv, ClockInv
<1>2. \A s \in Reqs : Counted(req[s], queue, s)
  BY DEF WorkInv
<1>3. /\ queue' = u /\ busy' = [busy EXCEPT ![cur] = lat] /\ req' = release_ts(r, lat)
      /\ cell' = [cell EXCEPT ![cur][t.blk] = Stored(t)]
  BY DEF Execute
<1>4. /\ u \in Queues /\ Len(queue[cur]) \in Nat \ {0} /\ Len(u[cur]) = Len(queue[cur]) - 1
      /\ t = queue[cur][1] /\ queue[cur][1] \in Transactions
      /\ \A i \in 1..Len(u[cur]) : i + 1 \in 1..Len(queue[cur]) /\ u[cur][i] = queue[cur][i + 1]
      /\ \A d \in Dies : d # cur => u[d] = queue[d]
  BY <1>1, Taken
<1>5. t \in Transactions /\ t.die = cur
  BY <1>1, <1>4, SMTT(20) DEF OnOwnDie
<1>6. lat \in Nat
  BY <1>5, ServiceTime
<1>7. r \in Reqs /\ t.blk \in Fbgs /\ t.zone \in Zones
  BY <1>5 DEF Transactions
<1>8. ASSUME NEW s \in Reqs
      PROVE  /\ IsFiniteSet(Queued(u, s))
             /\ Cardinality(Queued(u, s)) = Cardinality(Queued(queue, s)) - IF r = s THEN 1 ELSE 0
             /\ r = s => Cardinality(Queued(queue, s)) # 0
  <2>1. IsFiniteSet(Queued(queue, s))
    BY <1>2 DEF Counted
  <2> QED BY <1>1, <2>1, TakenCount, SMTT(20)
<1> HIDE DEF lat, u, t
<1>9. OnOwnDie(u)
  <2> SUFFICES ASSUME NEW d \in Dies, NEW i \in 1..Len(u[d]) PROVE u[d][i].die = d
    BY DEF OnOwnDie
  <2>1. CASE d = cur
    BY <1>1, <1>4, <2>1, SMTT(20) DEF OnOwnDie
  <2>2. CASE d # cur
    BY <1>1, <1>4, <2>2 DEF OnOwnDie
  <2> QED BY <2>1, <2>2
<1>10. busy' \in [Dies -> Nat]
  BY <1>1, <1>3, <1>6 DEF ClockInv
<1>11. cell' \in [Dies -> [Fbgs -> Zones \cup {NoZone}]]
  <2>1. cell \in [Dies -> [Fbgs -> Zones \cup {NoZone}]]
    BY DEF ClockInv
  <2>2. Stored(t) \in Zones \cup {NoZone}
    BY <1>1, <1>5, <1>7, <2>1 DEF Stored
  <2>3. [cell[cur] EXCEPT ![t.blk] = Stored(t)] \in [Fbgs -> Zones \cup {NoZone}]
    BY <1>1, <2>1, <2>2
  <2>4. cell' = [cell EXCEPT ![cur] = [cell[cur] EXCEPT ![t.blk] = Stored(t)]]
    BY <1>1, <1>3, <2>1
  <2> QED BY <1>1, <2>1, <2>3, <2>4
<1> DEFINE a == req[r]
           last == a.ts_num = 1
           b == [state |-> IF last THEN "cq" ELSE a.state, ts_num |-> a.ts_num - 1,
                 left |-> IF last THEN lat ELSE 0, end |-> Max({a.end, lat})]
<1>12. req' = [req EXCEPT ![r] = b]
  BY <1>1, <1>3, <1>7 DEF release_ts
<1>13. a \in Requests /\ Counted(a, queue, r)
  BY <1>1, <1>2, <1>7
<1>14. /\ IsFiniteSet(Queued(queue, r)) /\ Cardinality(Queued(queue, r)) \in Nat \ {0}
       /\ a.ts_num = Cardinality(Queued(queue, r))
  BY <1>7, <1>8, <1>13, FS_CardinalityType DEF Counted
<1>15. a.ts_num - 1 \in Nat /\ a.state \in {"free", "pending", "cq"} /\ a.state = "pending"
  BY <1>13, <1>14, SMTT(20) DEF Counted, Requests
<1>16. Max({a.end, lat}) \in Nat
  BY <1>6, <1>13, MaxOfTwo DEF Requests
<1>17. b \in Requests /\ b.ts_num = a.ts_num - 1 /\ b.state = (IF last THEN "cq" ELSE a.state)
  BY <1>6, <1>15, <1>16 DEF Requests
<1> HIDE DEF a, b, r
<1>18. req' \in [Reqs -> Requests] /\ req'[r] = b /\ \A s \in Reqs : s # r => req'[s] = req[s]
  BY <1>1, <1>7, <1>12, <1>17
<1>19. ASSUME NEW s \in Reqs PROVE Counted(req'[s], u, s)
  <2>1. CASE s = r
    <3>1. IsFiniteSet(Queued(u, r)) /\ Cardinality(Queued(u, r)) = Cardinality(Queued(queue, r)) - 1
      BY <1>7, <1>8
    <3>2. b.ts_num = Cardinality(Queued(u, r))
      BY <1>14, <1>17, <3>1
    <3>3. (b.state # "pending" => b.ts_num = 0) /\ (b.state = "pending" => b.ts_num # 0)
      BY <1>14, <1>15, <1>17, SMTT(20)
    <3> QED BY <1>18, <2>1, <3>1, <3>2, <3>3 DEF Counted
  <2>2. CASE s # r
    <3>1. IsFiniteSet(Queued(queue, s)) /\ Cardinality(Queued(queue, s)) \in Nat
      BY <1>2, FS_CardinalityType DEF Counted
    <3>2. IsFiniteSet(Queued(u, s)) /\ Cardinality(Queued(u, s)) = Cardinality(Queued(queue, s))
      BY <1>8, <2>2, <3>1, SMTT(20)
    <3> QED BY <1>2, <1>18, <2>2, <3>2 DEF Counted
  <2> QED BY <2>1, <2>2
<1>20. WorkInv'
  BY <1>3, <1>4, <1>9, <1>18, <1>19 DEF WorkInv
<1> QED BY <1>10, <1>11, <1>20

\* The poller keeps the invariant, whether or not the die is busy.
LEMMA PollCounts ==
  ASSUME WorkInv, ClockInv, PollDie
  PROVE  WorkInv' /\ ClockInv'
<1>1. cur' \in Dies
  <2> DEFINE N == NumGroups * DiesPerGroup
  <2>1. N \in Nat \ {0} /\ Cardinality(Dies) = N /\ Dies = 0..(N - 1) /\ cur \in Nat
    BY DieCount DEF ClockInv, Dies
  <2> HIDE DEF N
  <2>2. cur + 1 \in Nat
    BY <2>1, SMTT(20)
  <2>3. (cur + 1) % N \in 0..(N - 1)
    BY <2>1, <2>2, DivMod
  <2> QED BY <2>1, <2>3 DEF PollDie
<1>2. CASE busy[cur] = 0 /\ queue[cur] # <<>>
  <2>1. Execute(Head(queue[cur])) /\ seen' = seen
    BY <1>2 DEF PollDie
  <2>2. /\ WorkInv' /\ busy' \in [Dies -> Nat]
        /\ cell' \in [Dies -> [Fbgs -> Zones \cup {NoZone}]]
    BY <1>2, <2>1, ExecuteCounts
  <2> QED BY <1>1, <2>1, <2>2 DEF ClockInv
<1>3. CASE ~(busy[cur] = 0 /\ queue[cur] # <<>>)
  <2>1. UNCHANGED <<queue, busy, req, cell, seen>>
    BY <1>3 DEF PollDie
  <2>2. WorkInv'
    BY <2>1 DEF WorkInv
  <2> QED BY <1>1, <2>1, <2>2 DEF ClockInv
<1> QED BY <1>2, <1>3

\* The passing of time keeps the invariant.
LEMMA TickCounts ==
  ASSUME WorkInv, ClockInv, Tick
  PROVE  WorkInv' /\ ClockInv'
<1>1. req \in [Reqs -> Requests] /\ busy \in [Dies -> Nat]
  BY DEF WorkInv, ClockInv
<1>2. \A n \in Nat : Less(n) \in Nat
  BY SMTT(20) DEF Less
<1>3. busy' \in [Dies -> Nat]
  BY <1>1, <1>2 DEF Tick
<1>4. ASSUME NEW r \in Reqs
      PROVE  req'[r] \in Requests /\ req'[r].state = req[r].state /\ req'[r].ts_num = req[r].ts_num
  <2>1. req[r] \in Requests /\ req'[r] = [req[r] EXCEPT !.left = Less(@), !.end = Less(@)]
    BY <1>1 DEF Tick
  <2> QED BY <1>2, <2>1 DEF Requests
<1>5. req' \in [Reqs -> Requests]
  <2>1. req' = [r \in Reqs |-> req'[r]]
    BY DEF Tick
  <2> QED BY <1>4, <2>1
<1>6. UNCHANGED <<queue, cur, seen, cell>>
  BY DEF Tick
<1>7. \A r \in Reqs : Counted(req'[r], queue', r)
  BY <1>4, <1>6 DEF WorkInv, Counted
<1> QED BY <1>3, <1>5, <1>6, <1>7 DEF WorkInv, ClockInv

\* A request that leaves the completion queue is free and has no work.
LEMMA CompleteCounts ==
  ASSUME WorkInv, NEW r \in Reqs, Complete(r)
  PROVE  WorkInv'
<1>1. req \in [Reqs -> Requests] /\ queue' = queue /\ req' = [req EXCEPT ![r] = Idle]
  BY DEF WorkInv, Complete
<1>2. Idle \in Requests /\ Idle.state = "free" /\ Idle.ts_num = 0
  BY DEF Idle, Requests
<1> HIDE DEF Idle
<1>3. req' \in [Reqs -> Requests] /\ req'[r] = Idle /\ \A s \in Reqs : s # r => req'[s] = req[s]
  BY <1>1, <1>2
<1>4. ASSUME NEW s \in Reqs PROVE Counted(req'[s], queue, s)
  <2>1. Counted(req[s], queue, s) /\ Counted(req[r], queue, r) /\ req[r].state = "cq"
    BY DEF WorkInv, Complete
  <2>2. CASE s = r
    BY <1>2, <1>3, <2>1, <2>2 DEF Counted
  <2>3. CASE s # r
    BY <1>3, <2>1, <2>3
  <2> QED BY <2>2, <2>3
<1> QED BY <1>1, <1>3, <1>4 DEF WorkInv

=============================================================================
