----------------------- MODULE DynamicMappingTheorems -----------------------
(***************************************************************************)
(* What the dynamic mapping of fairness.c keeps for any geometry and any   *)
(* number of zones, when hosts close a zone before they open it again and  *)
(* reset only what they opened.                                            *)
(***************************************************************************)
EXTENDS DynamicMapping, SequenceTheorems, FiniteSetTheorems,
        WellFoundedInduction, TLAPS

\* Leaves are for Zenon, the ones with arithmetic or records name SMT.
USE ZenonT(20)

(***************************************************************************)
(* Least and greatest members.  The library's induction theorems take an   *)
(* operator as a parameter; the least member of a set of numbers does      *)
(* their work below.                                                       *)
(***************************************************************************)
LEMMA LeastMember ==
  ASSUME NEW T \in SUBSET Nat, T # {}
  PROVE  \E x \in T : \A y \in T : x <= y
<1> DEFINE R == {p \in Nat \X Nat : p[1] < p[2]}
<1>1. IsWellFoundedOn(R, Nat)
  BY NatLessThanWellFounded DEF OpToRel
<1> HIDE DEF R
<1>2. PICK x \in T : \A y \in T : ~(<<y, x>> \in R)
  BY <1>1, WFMin
<1>3. ASSUME NEW y \in T PROVE x <= y
  <2>1. ~(<<y, x>> \in R)
    BY <1>2
  <2>2. <<y, x>> \in Nat \X Nat /\ <<y, x>>[1] = y /\ <<y, x>>[2] = x
    OBVIOUS
  <2>3. ~(y < x)
    BY <2>1, <2>2 DEF R
  <2> QED BY <2>3, SMTT(20)
<1> QED BY <1>3

\* A bounded set of numbers has a greatest member.
LEMMA GreatestMember ==
  ASSUME NEW b \in Nat, NEW T \in SUBSET (0..b), T # {}
  PROVE  \E x \in T : \A y \in T : y <= x
<1> DEFINE U == {b - x : x \in T}
<1>1. U \in SUBSET Nat /\ U # {}
  <2>1. PICK x \in T : TRUE
    OBVIOUS
  <2>2. \A y \in T : b - y \in Nat
    BY SMTT(20)
  <2> QED BY <2>1, <2>2
<1>2. PICK u \in U : \A v \in U : u <= v
  BY <1>1, LeastMember
<1>3. PICK x \in T : u = b - x
  OBVIOUS
<1>4. ASSUME NEW y \in T PROVE y <= x
  <2>1. b - y \in U
    OBVIOUS
  <2> QED BY <2>1, <1>2, <1>3, SMTT(20)
<1> QED BY <1>4

\* Min of a set of numbers is one of them.
LEMMA MinOfSet ==
  ASSUME NEW T \in SUBSET Nat, T # {}
  PROVE  Min(T) \in T
<1>1. \E x \in T : \A y \in T : x <= y
  BY LeastMember
<1> QED BY <1>1 DEF Min

\* Max of a bounded set of numbers is one of them.
LEMMA MaxOfSet ==
  ASSUME NEW b \in Nat, NEW T \in SUBSET (0..b), T # {}
  PROVE  Max(T) \in T
<1>1. \E x \in T : \A y \in T : y <= x
  BY GreatestMember
<1>2. \E x \in T : \A y \in T : x >= y
  BY <1>1
<1> QED BY <1>2 DEF Max

(***************************************************************************)
(* Division.                                                               *)
(***************************************************************************)
LEMMA DivMod ==
  ASSUME NEW a \in Nat, NEW b \in Nat \ {0}
  PROVE  /\ a \div b \in Nat /\ a % b \in 0..(b - 1)
         /\ a = b * (a \div b) + (a % b)
<1>1. a % b \in 0..(b - 1)
  BY SMTT(20)
<1>2. a \div b \in Nat
  BY SMTT(20)
<1>3. a = b * (a \div b) + (a % b)
  BY SMTT(20)
<1> QED BY <1>1, <1>2, <1>3

\* Quotient and remainder are unique.
LEMMA DivUnique ==
  ASSUME NEW b \in Nat \ {0}, NEW p \in Nat, NEW q \in Nat,
         NEW r \in 0..(b - 1), NEW s \in 0..(b - 1), b * p + r = b * q + s
  PROVE  p = q /\ r = s
<1>1. ASSUME p < q PROVE FALSE
  <2>1. PICK d \in Nat : q = p + 1 + d
    <3>1. q - p - 1 \in Nat /\ q = p + 1 + (q - p - 1)
      BY <1>1, SMTT(20)
    <3> QED BY <3>1
  <2>2. b * q = b * p + b + b * d /\ b * d >= 0
    BY <2>1, SMTT(20)
  <2> QED BY <2>2, SMTT(20)
<1>2. ASSUME q < p PROVE FALSE
  <2>1. PICK d \in Nat : p = q + 1 + d
    <3>1. p - q - 1 \in Nat /\ p = q + 1 + (p - q - 1)
      BY <1>2, SMTT(20)
    <3> QED BY <3>1
  <2>2. b * p = b * q + b + b * d /\ b * d >= 0
    BY <2>1, SMTT(20)
  <2> QED BY <2>2, SMTT(20)
<1> QED BY <1>1, <1>2, SMTT(20)

\* A quotient is bounded as its dividend is.
LEMMA DivBound ==
  ASSUME NEW a \in Nat, NEW b \in Nat \ {0}, NEW c \in Nat, a < b * c
  PROVE  a \div b < c
<1> DEFINE q == a \div b
<1>1. q \in Nat /\ b * q <= a
  BY DivMod, SMTT(20)
<1>2. ASSUME q >= c PROVE FALSE
  <2>1. PICK d \in Nat : q = c + d
    <3>1. q - c \in Nat /\ q = c + (q - c)
      BY <1>1, <1>2, SMTT(20)
    <3> QED BY <3>1
  <2>2. b * q = b * c + b * d /\ b * d >= 0
    BY <2>1, SMTT(20)
  <2> QED BY <1>1, <2>2, SMTT(20)
<1> QED BY <1>1, <1>2, SMTT(20)

(***************************************************************************)
(* Only: what the copying loop leaves.                                     *)
(***************************************************************************)
Copying(f, s, T, n) ==
  f = [i \in 0..n |->
         IF i = 0 THEN <<>>
         ELSE IF s[i] \in T THEN Append(f[i - 1], s[i]) ELSE f[i - 1]]

\* The recursive function of Only, one element further.
LEMMA CopyOneMore ==
  ASSUME NEW s, NEW T, NEW n \in Nat, NEW f, Copying(f, s, T, n)
  PROVE  \E g : Copying(g, s, T, n + 1)
<1> DEFINE last == IF s[n + 1] \in T THEN Append(f[n], s[n + 1]) ELSE f[n]
           g == [i \in 0..(n + 1) |-> IF i <= n THEN f[i] ELSE last]
           h == [i \in 0..(n + 1) |->
                   IF i = 0 THEN <<>>
                   ELSE IF s[i] \in T THEN Append(g[i - 1], s[i]) ELSE g[i - 1]]
<1>1. \A i \in 0..n : f[i] = IF i = 0 THEN <<>>
        ELSE IF s[i] \in T THEN Append(f[i - 1], s[i]) ELSE f[i - 1]
  BY DEF Copying
<1>2. ASSUME NEW i \in 0..(n + 1) PROVE g[i] = h[i]
  <2>1. CASE i = 0 BY <2>1, <1>1, SMTT(20)
  <2>2. CASE i \in 1..n BY <2>2, <1>1, SMTT(20)
  <2>3. CASE i = n + 1 BY <2>3, <1>1, SMTT(20)
  <2> QED BY <2>1, <2>2, <2>3, SMTT(20)
<1>3. g = h
  BY <1>2
<1> QED BY <1>3 DEF Copying

\* It is defined on every prefix, by induction on its length.
LEMMA CopyExists ==
  ASSUME NEW s, NEW T, NEW n \in Nat
  PROVE  \E f : Copying(f, s, T, n)
<1> DEFINE Bad == {k \in Nat : ~ \E f : Copying(f, s, T, k)}
<1>1. SUFFICES ASSUME Bad # {} PROVE FALSE
  OBVIOUS
<1>2. PICK k \in Bad : \A j \in Bad : k <= j
  BY <1>1, LeastMember
<1>3. CASE k = 0
  <2> DEFINE f == [i \in 0..0 |-> <<>>]
             h == [i \in 0..0 |->
                   IF i = 0 THEN <<>>
                   ELSE IF s[i] \in T THEN Append(f[i - 1], s[i]) ELSE f[i - 1]]
  <2>1. \A i \in 0..0 : i = 0
    BY SMTT(20)
  <2>2. f = h
    BY <2>1
  <2>3. Copying(f, s, T, 0)
    BY <2>2 DEF Copying
  <2> QED BY <1>3, <2>3
<1>4. CASE k # 0
  <2>1. k - 1 \in Nat /\ k - 1 \notin Bad
    BY <1>2, <1>4, SMTT(20)
  <2>2. PICK f : Copying(f, s, T, k - 1)
    BY <2>1
  <2>3. \E g : Copying(g, s, T, (k - 1) + 1)
    BY <2>1, <2>2, CopyOneMore
  <2>4. (k - 1) + 1 = k
    BY <1>2, SMTT(20)
  <2> QED BY <2>3, <2>4
<1> QED BY <1>3, <1>4

\* o consists of the entries in T among the first n of s, in their order; e
\* says where each comes from.
Picks(o, e, s, T, n) ==
  /\ e \in [1..Len(o) -> 1..n]
  /\ \A i, j \in 1..Len(o) : i < j => e[i] < e[j]
  /\ \A j \in 1..Len(o) : o[j] = s[e[j]] /\ s[e[j]] \in T
  /\ \A i \in 1..n : s[i] \in T => \E j \in 1..Len(o) : e[j] = i

\* Only picks from one element more.
LEMMA PickOneMore ==
  ASSUME NEW S, NEW s \in Seq(S), NEW T, NEW n \in Nat, n + 1 <= Len(s),
         NEW o \in Seq(S), NEW e, Picks(o, e, s, T, n)
  PROVE  LET p == IF s[n + 1] \in T THEN Append(o, s[n + 1]) ELSE o
         IN  p \in Seq(S) /\ \E d : Picks(p, d, s, T, n + 1)
<1>0. Len(o) \in Nat /\ s[n + 1] \in S /\ n + 1 \in 1..Len(s)
  BY ElementOfSeq, LenProperties, SMTT(20)
<1>1. CASE s[n + 1] \notin T
  <2>1. Picks(o, e, s, T, n + 1)
    BY <1>0, <1>1, SMTT(20) DEF Picks
  <2> QED BY <1>1, <2>1
<1>2. CASE s[n + 1] \in T
  <2> DEFINE p == Append(o, s[n + 1])
             d == [j \in 1..(Len(o) + 1) |-> IF j <= Len(o) THEN e[j] ELSE n + 1]
  <2>1. /\ p \in Seq(S) /\ Len(p) = Len(o) + 1
        /\ \A j \in 1..Len(o) : p[j] = o[j]
        /\ p[Len(o) + 1] = s[n + 1]
    BY <1>0, AppendProperties, SMTT(20)
  <2>2. /\ d \in [1..(Len(o) + 1) -> 1..(n + 1)]
        /\ \A j \in 1..Len(o) : d[j] = e[j] /\ e[j] \in 1..n
        /\ d[Len(o) + 1] = n + 1
    <3>1. \A j \in 1..Len(o) : e[j] \in 1..n
      BY DEF Picks
    <3>2. \A j \in 1..(Len(o) + 1) : d[j] \in 1..(n + 1)
      BY <1>0, <3>1, SMTT(20)
    <3>3. d \in [1..(Len(o) + 1) -> 1..(n + 1)]
      BY <3>2
    <3> QED BY <1>0, <3>1, <3>3, SMTT(20)
  <2> HIDE DEF d, p
  <2>3. ASSUME NEW i \in 1..(Len(o) + 1), NEW j \in 1..(Len(o) + 1), i < j
        PROVE  d[i] < d[j]
    <3>1. i \in 1..Len(o)
      BY <1>0, <2>3, SMTT(20)
    <3>2. CASE j \in 1..Len(o)
      BY <2>2, <2>3, <3>1, <3>2 DEF Picks
    <3>3. CASE j = Len(o) + 1
      BY <2>2, <3>1, <3>3, SMTT(20)
    <3> QED BY <1>0, <3>2, <3>3, SMTT(20)
  <2>4. \A j \in 1..(Len(o) + 1) : p[j] = s[d[j]] /\ s[d[j]] \in T
    BY <1>0, <1>2, <2>1, <2>2, SMTT(20) DEF Picks
  <2>5. ASSUME NEW i \in 1..(n + 1), s[i] \in T
        PROVE  \E j \in 1..(Len(o) + 1) : d[j] = i
    <3>1. CASE i = n + 1
      BY <1>0, <2>2, <3>1, SMTT(20)
    <3>2. CASE i \in 1..n
      <4>1. PICK j \in 1..Len(o) : e[j] = i
        BY <2>5, <3>2 DEF Picks
      <4> QED BY <1>0, <2>2, <4>1, SMTT(20)
    <3> QED BY <3>1, <3>2, SMTT(20)
  <2>6. Picks(p, d, s, T, n + 1)
    BY <2>1, <2>2, <2>3, <2>4, <2>5 DEF Picks
  <2> QED BY <1>2, <2>1, <2>6 DEF p
<1> QED BY <1>1, <1>2

\* Only(s, T) has the elements of s in T, each place once and in order.
LEMMA OnlyPicks ==
  ASSUME NEW S, NEW s \in Seq(S), NEW T
  PROVE  Only(s, T) \in Seq(S) /\ \E e : Picks(Only(s, T), e, s, T, Len(s))
<1>0. Len(s) \in Nat
  BY SMTT(20)
<1> DEFINE f == CHOOSE f : Copying(f, s, T, Len(s))
<1>1. Copying(f, s, T, Len(s))
  BY <1>0, CopyExists
<1>2. Only(s, T) = f[Len(s)]
  BY DEF Only, Copying
<1> HIDE DEF f
<1>3. \A i \in 0..Len(s) : f[i] = IF i = 0 THEN <<>>
        ELSE IF s[i] \in T THEN Append(f[i - 1], s[i]) ELSE f[i - 1]
  BY <1>1 DEF Copying
<1> DEFINE Good(k) == f[k] \in Seq(S) /\ \E e : Picks(f[k], e, s, T, k)
           Bad == {k \in 0..Len(s) : ~Good(k)}
<1>4. SUFFICES ASSUME Bad # {} PROVE FALSE
  BY <1>0, <1>2, SMTT(20)
<1>5. PICK k \in Bad : \A j \in Bad : k <= j
  <2>1. Bad \in SUBSET Nat
    BY <1>0, SMTT(20)
  <2> HIDE DEF Bad
  <2> QED BY <1>4, <2>1, LeastMember
<1>6. CASE k = 0
  <2>1. f[0] = <<>>
    BY <1>0, <1>3, SMTT(20)
  <2>2. f[0] \in Seq(S) /\ Len(f[0]) = 0
    BY <2>1, SMTT(20)
  <2>3. Picks(f[0], [j \in 1..0 |-> 0], s, T, 0)
    BY <2>2, SMTT(20) DEF Picks
  <2> QED BY <1>6, <2>2, <2>3
<1>7. CASE k # 0
  <2> DEFINE n == k - 1
  <2>1. n \in Nat /\ n \in 0..Len(s) /\ n + 1 <= Len(s) /\ n + 1 = k /\ n \notin Bad
    BY <1>0, <1>5, <1>7, SMTT(20)
  <2>2. f[n] \in Seq(S) /\ \E e : Picks(f[n], e, s, T, n)
    BY <2>1
  <2>3. f[k] = IF s[n + 1] \in T THEN Append(f[n], s[n + 1]) ELSE f[n]
    BY <1>3, <1>7, <2>1
  <2> HIDE DEF n
  <2>4. PICK e : Picks(f[n], e, s, T, n)
    BY <2>2
  <2>5. Good(k)
    BY <2>1, <2>2, <2>3, <2>4, PickOneMore, SMTT(20)
  <2> QED BY <2>5
<1> QED BY <1>6, <1>7

\* l lists every member of Z once, and nothing else.
Lists(l, Z) == l \in Seq(Z) /\ IsInjective(l) /\ Range(l) = Z

\* Copying a list without repetition.
LEMMA OnlyLists ==
  ASSUME NEW Z, NEW l, Lists(l, Z), NEW T
  PROVE  Lists(Only(l, T), Z \cap T)
<1> DEFINE o == Only(l, T)
<1>1. l \in Seq(Z) /\ Len(l) \in Nat /\ DOMAIN l = 1..Len(l) /\ Range(l) = Z
  BY LenProperties DEF Lists
<1>2. o \in Seq(Z) /\ \E e : Picks(o, e, l, T, Len(l))
  BY <1>1, OnlyPicks
<1> HIDE DEF o
<1>3. PICK e : Picks(o, e, l, T, Len(l))
  BY <1>2
<1>4. Len(o) \in Nat /\ DOMAIN o = 1..Len(o)
  BY <1>2, LenProperties
<1>5. \A j \in 1..Len(o) : o[j] \in Z \cap T
  BY <1>1, <1>2, <1>3, <1>4, ElementOfSeq DEF Picks
<1>6. o \in Seq(Z \cap T)
  BY <1>2, <1>4, <1>5, SeqDef, SMTT(20)
<1>7. ASSUME NEW i \in 1..Len(o), NEW j \in 1..Len(o), o[i] = o[j] PROVE i = j
  <2>1. l[e[i]] = l[e[j]] /\ e[i] \in 1..Len(l) /\ e[j] \in 1..Len(l)
    BY <1>3, <1>7 DEF Picks
  <2>2. e[i] = e[j]
    BY <1>1, <2>1 DEF Lists, IsInjective
  <2>3. ~(i < j) /\ ~(j < i)
    BY <1>1, <1>3, <2>1, <2>2, SMTT(20) DEF Picks
  <2> QED BY <2>3, SMTT(20)
<1>8. ASSUME NEW z \in Z \cap T PROVE \E j \in 1..Len(o) : o[j] = z
  <2>1. PICK i \in 1..Len(l) : l[i] = z
    BY <1>1 DEF Range
  <2>2. PICK j \in 1..Len(o) : e[j] = i
    BY <1>3, <2>1 DEF Picks
  <2> QED BY <1>3, <2>1, <2>2 DEF Picks
<1>9. Range(o) = Z \cap T
  BY <1>4, <1>5, <1>8 DEF Range
<1> QED BY <1>4, <1>6, <1>7, <1>9 DEF Lists, IsInjective, o

\* The length of a list is the number of its members.
LEMMA ListsCount ==
  ASSUME NEW Z, NEW l, Lists(l, Z)
  PROVE  IsFiniteSet(Z) /\ Cardinality(Z) = Len(l) /\ Len(l) \in Nat
<1>1. l \in Seq(Z) /\ Len(l) \in Nat /\ DOMAIN l = 1..Len(l) /\ Range(l) = Z
  BY LenProperties DEF Lists
<1>2. l \in [1..Len(l) -> Z]
  BY <1>1, SMTT(20)
<1>3. l \in Bijection(1..Len(l), Z)
  BY <1>1, <1>2 DEF Bijection, Injection, Surjection, Lists, IsInjective, Range
<1>4. IsFiniteSet(1..Len(l)) /\ Cardinality(1..Len(l)) = Len(l)
  BY <1>1, FS_Interval, SMTT(20)
<1> QED BY <1>1, <1>3, <1>4, FS_Bijection DEF ExistsBijection

(***************************************************************************)
(* Allocation.  Parts is how many groups, and how many parts of an FBG, a  *)
(* partial mapping has.                                                    *)
(***************************************************************************)
Parts == NumGroups \div OpenLimit

\* What MappingAssumption says of the constants.
LEMMA Geometry ==
  /\ NumGroups \in Nat \ {0} /\ NumFbgs \in Nat \ {0} /\ OpenLimit \in Nat \ {0}
  /\ MaxOpened \in Nat \ {0} /\ Word \in Nat /\ Word > NumFbgs
  /\ IsFiniteSet(Zones) /\ Cardinality(Zones) \in Nat /\ Word > Cardinality(Zones)
  /\ Parts \in Nat \ {0} /\ Parts <= NumGroups /\ Parts * OpenLimit = NumGroups
<1>1. /\ NumGroups \in Nat \ {0} /\ NumFbgs \in Nat \ {0} /\ OpenLimit \in Nat \ {0}
      /\ MaxOpened \in Nat \ {0} /\ IsFiniteSet(Zones)
      /\ Word \in Nat /\ Word > NumFbgs + Cardinality(Zones)
      /\ NumGroups % OpenLimit = 0
  BY MappingAssumption
<1>2. Cardinality(Zones) \in Nat
  BY <1>1, FS_CardinalityType
<1>3. Parts \in Nat /\ NumGroups = OpenLimit * Parts
  <2>1. /\ NumGroups \div OpenLimit \in Nat
        /\ NumGroups = OpenLimit * (NumGroups \div OpenLimit) + (NumGroups % OpenLimit)
    BY <1>1, DivMod
  <2>2. Parts \in Nat /\ NumGroups = OpenLimit * Parts + (NumGroups % OpenLimit)
    BY <2>1 DEF Parts
  <2> QED BY <1>1, <2>2, SMTT(20)
<1>4. Parts # 0
  BY <1>1, <1>3, SMTT(20)
<1>5. Parts <= NumGroups
  <2>1. OpenLimit - 1 \in Nat /\ (OpenLimit - 1) * Parts >= 0
    BY <1>1, <1>3, SMTT(20)
  <2>2. NumGroups = (OpenLimit - 1) * Parts + Parts
    BY <1>1, <1>3, SMTT(20)
  <2> QED BY <1>1, <1>3, <2>1, <2>2, SMTT(20)
<1> QED BY <1>1, <1>2, <1>3, <1>4, <1>5, SMTT(20)

Shares == [flag : BOOLEAN, fbg : Fbgs, next : 0..Parts]
Places == [n : Nat, first : Groups, ofst : Fbgs, part : Nat]
Mappings ==
  [opened : Seq(Zones), st_stage : BOOLEAN, used : [Groups -> Nat],
   uses : [Groups -> [Fbgs -> Nat]], remain : [Groups -> 0..(Word - 1)],
   next : [Groups -> Fbgs], part : [Groups -> Shares], phy : [Zones -> Places]]

\* An FBG that is being shared out has a part left.
SharesOK(m) == \A g \in Groups : m.part[g].flag => m.part[g].next < Parts

\* c is m with one more user of FBG f in the groups of span.
Took(m, c, span, f) ==
  /\ c \in Mappings /\ SharesOK(c)
  /\ c.opened = m.opened /\ c.st_stage = m.st_stage
  /\ c.used = m.used /\ c.phy = m.phy
  /\ \A h \in Groups, e \in Fbgs :
       c.uses[h][e] = IF h \in span /\ e = f THEN Inc(m.uses[h][e]) ELSE m.uses[h][e]

\* Inc and Dec count as usual below Word.
LEMMA Wraps ==
  ASSUME NEW n \in Nat
  PROVE  /\ Inc(n) \in Nat /\ Dec(n) \in 0..(Word - 1)
         /\ n + 1 < Word => Inc(n) = n + 1
         /\ n # 0 /\ n < Word => Dec(n) = n - 1
BY Geometry, SMTT(20) DEF Inc, Dec

\* The search for a free FBG finds one if there is one.
LEMMA NextIsFree ==
  ASSUME NEW m \in Mappings, NEW g \in Groups, FreeFbgs(m, g) # {}
  PROVE  NextFree(m, g) \in FreeFbgs(m, g)
<1> DEFINE Dist(f) == (f - m.next[g]) % NumFbgs
           T == {Dist(f) : f \in FreeFbgs(m, g)}
<1>1. m.next[g] \in Int /\ \A f \in FreeFbgs(m, g) : f \in Int
  BY Geometry, SMTT(20) DEF Mappings, Fbgs, FreeFbgs
<1>2. \A f \in FreeFbgs(m, g) : Dist(f) \in Nat
  BY <1>1, Geometry, SMTT(20)
<1> HIDE DEF Dist
<1>3. T \in SUBSET Nat /\ T # {}
  BY <1>2
<1>4. PICK t \in T : \A u \in T : t <= u
  BY <1>3, LeastMember
<1>5. \E f \in FreeFbgs(m, g) : \A e \in FreeFbgs(m, g) : Dist(f) <= Dist(e)
  BY <1>4
<1> QED BY <1>5 DEF NextFree, Dist

\* alloc_fbg of the full mapping takes a free FBG of its group.
LEMMA FullTakes ==
  ASSUME NEW m \in Mappings, SharesOK(m), NEW g \in Groups, FreeFbgs(m, g) # {}
  PROVE  LET a == AllocFull(m, g)
         IN  /\ a.ofst \in FreeFbgs(m, g) /\ a.part = 0
             /\ Took(m, a.m, {g}, a.ofst)
             /\ a.m.remain = [m.remain EXCEPT ![g] = Dec(@)]
<1> DEFINE f == NextFree(m, g)
           c == [m EXCEPT !.remain[g]  = Dec(@),
                          !.uses[g][f] = Inc(@),
                          !.next[g]    = (f + 1) % NumFbgs]
<1>1. f \in FreeFbgs(m, g) /\ f \in Fbgs /\ f + 1 \in Nat
  BY NextIsFree, Geometry, SMTT(20) DEF FreeFbgs, Fbgs
<1>2. AllocFull(m, g) = [ofst |-> f, part |-> 0, m |-> c]
  BY DEF AllocFull
<1> HIDE DEF f
<1>3. /\ m.remain[g] \in Nat /\ m.uses[g][f] \in Nat
      /\ (f + 1) % NumFbgs \in Fbgs
  BY <1>1, Geometry, SMTT(20) DEF Mappings, Fbgs
<1>4. Dec(m.remain[g]) \in 0..(Word - 1) /\ Inc(m.uses[g][f]) \in Nat
  BY <1>3, Wraps
<1>5. /\ c.remain = [m.remain EXCEPT ![g] = Dec(@)]
      /\ c.uses = [m.uses EXCEPT ![g] = [m.uses[g] EXCEPT ![f] = Inc(@)]]
      /\ c.next = [m.next EXCEPT ![g] = (f + 1) % NumFbgs]
      /\ c.opened = m.opened /\ c.st_stage = m.st_stage /\ c.part = m.part
      /\ c.used = m.used /\ c.phy = m.phy
  BY DEF Mappings
<1>6. c \in Mappings
  BY <1>3, <1>4 DEF Mappings
<1> HIDE DEF c
<1>7. SharesOK(c)
  BY <1>5 DEF SharesOK
<1>8. \A h \in Groups, e \in Fbgs :
        c.uses[h][e] = IF h \in {g} /\ e = f THEN Inc(m.uses[h][e]) ELSE m.uses[h][e]
  BY <1>1, <1>5, SMTT(20) DEF Mappings
<1>9. Took(m, c, {g}, f)
  BY <1>5, <1>6, <1>7, <1>8 DEF Took
<1> QED BY <1>1, <1>2, <1>5, <1>9, SMTT(20)

\* UseIn adds one user of FBG f in the groups of span.
LEMMA UseInUses ==
  ASSUME NEW m \in Mappings, NEW span, NEW f \in Fbgs
  PROVE  /\ UseIn(m, span, f) \in [Groups -> [Fbgs -> Nat]]
         /\ \A h \in Groups, e \in Fbgs :
              UseIn(m, span, f)[h][e] =
                IF h \in span /\ e = f THEN Inc(m.uses[h][e]) ELSE m.uses[h][e]
<1>1. \A h \in Groups : m.uses[h] \in [Fbgs -> Nat]
  BY DEF Mappings
<1>2. \A h \in Groups : Inc(m.uses[h][f]) \in Nat
  BY <1>1, Wraps
<1> QED BY <1>1, <1>2 DEF UseIn

\* alloc_fbg takes the next part of an FBG that is being shared out.
LEMMA PartTakes ==
  ASSUME NEW m \in Mappings, SharesOK(m), NEW g \in Groups, m.part[g].flag
  PROVE  LET a == AllocPart(m, Parts, g)
         IN  /\ a.ofst \in Fbgs /\ a.part \in 0..(Parts - 1)
             /\ Took(m, a.m, Span(g, Parts), a.ofst)
<1> DEFINE f == m.part[g].fbg
           k == m.part[g].next
           more == k + 1 # Parts
           share == [m.part[g] EXCEPT !.next = k + 1, !.flag = more]
           c == [m EXCEPT !.uses = UseIn(m, Span(g, Parts), f),
                          !.part[g].next = k + 1,
                          !.part[g].flag = more]
<1>1. m.part[g] \in Shares /\ f \in Fbgs /\ k \in 0..(Parts - 1)
  BY Geometry, SMTT(20) DEF Mappings, Shares, SharesOK
<1>2. AllocPart(m, Parts, g) = [ofst |-> f, part |-> k, m |-> c]
  BY DEF AllocPart
<1>3. more \in BOOLEAN /\ (more => k + 1 < Parts)
  BY <1>1, Geometry, SMTT(20)
<1> HIDE DEF f, k, more
<1>4. share \in Shares /\ share.next = k + 1 /\ share.flag = more
  <2>1. k + 1 \in 0..Parts
    BY <1>1, Geometry, SMTT(20)
  <2> QED BY <1>1, <1>3, <2>1 DEF Shares
<1>5. /\ c.uses = UseIn(m, Span(g, Parts), f)
      /\ c.part = [m.part EXCEPT ![g] = share]
      /\ c.opened = m.opened /\ c.st_stage = m.st_stage
      /\ c.remain = m.remain /\ c.next = m.next
      /\ c.used = m.used /\ c.phy = m.phy
  BY <1>1 DEF Mappings, Shares
<1>6. c = [m EXCEPT !.uses = UseIn(m, Span(g, Parts), f),
                    !.part = [m.part EXCEPT ![g] = share]]
  BY <1>1 DEF Mappings, Shares
<1> HIDE DEF share
<1>7. c \in Mappings
  <2>1. [m.part EXCEPT ![g] = share] \in [Groups -> Shares]
    BY <1>4 DEF Mappings
  <2>2. UseIn(m, Span(g, Parts), f) \in [Groups -> [Fbgs -> Nat]]
    BY <1>1, UseInUses
  <2> QED BY <1>6, <2>1, <2>2 DEF Mappings
<1> HIDE DEF c
<1>8. SharesOK(c)
  BY <1>3, <1>4, <1>5, SMTT(20) DEF SharesOK, Mappings
<1>9. Took(m, c, Span(g, Parts), f)
  BY <1>1, <1>5, <1>7, <1>8, UseInUses, SMTT(20) DEF Took
<1> QED BY <1>1, <1>2, <1>9, SMTT(20)

\* alloc_fbg starts to share out an FBG.
LEMMA SharedTakes ==
  ASSUME NEW m \in Mappings, SharesOK(m), NEW g \in Groups, Parts > 1
  PROVE  LET a == AllocShared(m, Parts, g)
         IN  /\ a.ofst \in Fbgs /\ a.part = 0
             /\ Took(m, a.m, Span(g, Parts), a.ofst)
<1> DEFINE span == Span(g, Parts)
           f == Max({m.next[h] : h \in span})
           nexts == [h \in Groups |->
                       IF h \in span THEN (m.next[h] + 1) % NumFbgs ELSE m.next[h]]
           rests == [h \in Groups |->
                       IF h \in span THEN Dec(m.remain[h]) ELSE m.remain[h]]
           share == [flag |-> TRUE, fbg |-> f, next |-> 1]
           c == [m EXCEPT !.uses = UseIn(m, span, f), !.next = nexts,
                          !.remain = rests, !.part[g] = share]
<1>1. g \in span /\ span \subseteq Groups
  BY Geometry, SMTT(20) DEF Span, Groups
<1>2. AllocShared(m, Parts, g) = [ofst |-> f, part |-> 0, m |-> c]
  BY DEF AllocShared
<1> HIDE DEF span
<1>3. f \in Fbgs
  <2> DEFINE T == {m.next[h] : h \in span}
  <2>1. T \in SUBSET (0..(NumFbgs - 1)) /\ T # {} /\ NumFbgs - 1 \in Nat
    BY <1>1, Geometry, SMTT(20) DEF Mappings, Fbgs
  <2> HIDE DEF T
  <2>2. Max(T) \in T
    BY <2>1, MaxOfSet
  <2>3. Max(T) \in Fbgs
    BY <2>1, <2>2 DEF Fbgs
  <2> QED BY <2>3 DEF T
<1> HIDE DEF f
<1>4. nexts \in [Groups -> Fbgs]
  <2>1. \A h \in Groups : m.next[h] \in Fbgs
    BY DEF Mappings
  <2>2. \A i \in Fbgs : (i + 1) % NumFbgs \in Fbgs
    BY Geometry, SMTT(20) DEF Fbgs
  <2> QED BY <2>1, <2>2
<1>5. rests \in [Groups -> 0..(Word - 1)]
  <2>1. \A h \in Groups : m.remain[h] \in 0..(Word - 1) /\ m.remain[h] \in Nat
    BY SMTT(20) DEF Mappings
  <2>2. \A h \in Groups : Dec(m.remain[h]) \in 0..(Word - 1)
    BY <2>1, Wraps
  <2> QED BY <2>1, <2>2
<1>6. share \in Shares /\ share.next = 1
  BY <1>3, Geometry, SMTT(20) DEF Shares
<1> HIDE DEF nexts, rests, share
<1>7. /\ c.uses = UseIn(m, span, f)
      /\ c.part = [m.part EXCEPT ![g] = share]
      /\ c.opened = m.opened /\ c.st_stage = m.st_stage
      /\ c.used = m.used /\ c.phy = m.phy
  BY DEF Mappings
<1>8. c \in Mappings
  <2>1. [m.part EXCEPT ![g] = share] \in [Groups -> Shares]
    BY <1>6 DEF Mappings
  <2>2. UseIn(m, span, f) \in [Groups -> [Fbgs -> Nat]]
    BY <1>3, UseInUses
  <2> QED BY <1>4, <1>5, <2>1, <2>2 DEF Mappings
<1> HIDE DEF c
<1>9. SharesOK(c)
  BY <1>6, <1>7, SMTT(20) DEF SharesOK, Mappings
<1>10. Took(m, c, span, f)
  BY <1>3, <1>7, <1>8, <1>9, UseInUses, SMTT(20) DEF Took
<1> QED BY <1>2, <1>3, <1>10, SMTT(20) DEF span

\* alloc_fbg, whichever way it goes.
LEMMA AllocTakes ==
  ASSUME NEW m \in Mappings, SharesOK(m), NEW g \in Groups, NEW n \in {1, Parts},
         AllocFault(m, n, g) = "none"
  PROVE  LET a == alloc_fbg(m, n, g)
         IN  /\ a.ofst \in Fbgs /\ a.part \in 0..(n - 1)
             /\ Took(m, a.m, Span(g, n), a.ofst)
             /\ n = 1 => /\ a.ofst \in FreeFbgs(m, g)
                         /\ a.m.remain = [m.remain EXCEPT ![g] = Dec(@)]
<1>0. n \in Nat \ {0}
  BY Geometry, SMTT(20)
<1>1. CASE n = 1
  <2>1. FreeFbgs(m, g) # {}
    BY <1>1, SMTT(20) DEF AllocFault
  <2>2. Span(g, 1) = {g}
    BY Geometry, SMTT(20) DEF Span, Groups
  <2>3. alloc_fbg(m, n, g) = AllocFull(m, g)
    BY <1>1 DEF alloc_fbg
  <2>4. FreeFbgs(m, g) \subseteq Fbgs
    BY DEF FreeFbgs
  <2> QED BY <1>1, <2>1, <2>2, <2>3, <2>4, FullTakes, SMTT(20)
<1>2. CASE n # 1 /\ m.part[g].flag
  <2>1. n = Parts /\ alloc_fbg(m, n, g) = AllocPart(m, Parts, g)
    BY <1>2 DEF alloc_fbg
  <2> QED BY <1>2, <2>1, PartTakes
<1>3. CASE n # 1 /\ ~m.part[g].flag
  <2>1. n = Parts /\ alloc_fbg(m, n, g) = AllocShared(m, Parts, g)
    BY <1>3 DEF alloc_fbg
  <2>2. Parts > 1
    BY <1>0, <1>3, <2>1, SMTT(20)
  <2>3. 0 \in 0..(n - 1)
    BY <1>0, SMTT(20)
  <2> QED BY <1>3, <2>1, <2>2, <2>3, SharedTakes
<1> QED BY <1>1, <1>2, <1>3

(***************************************************************************)
(* zone_open.                                                              *)
(***************************************************************************)
LEMMA Chosen ==
  ASSUME NEW m \in Mappings, Candidates(m) # {}
  PROVE  /\ GroupsPerZone(m) \in {1, Parts}
         /\ LeastUsed(m) \in Candidates(m) /\ LeastUsed(m) \in Groups
         /\ LeastUsed(m) + GroupsPerZone(m) <= NumGroups
<1> DEFINE C == Candidates(m)
           U == {m.used[g] : g \in C}
           L == {g \in C : \A h \in C : m.used[g] <= m.used[h]}
<1>1. C \subseteq Groups
  BY DEF Candidates
<1>2. GroupsPerZone(m) \in {1, Parts}
  BY DEF GroupsPerZone, Parts
<1>3. L # {}
  <2>1. U \in SUBSET Nat /\ U # {}
    BY <1>1, SMTT(20) DEF Mappings
  <2>2. PICK u \in U : \A v \in U : u <= v
    BY <2>1, LeastMember
  <2> QED BY <2>2, SMTT(20)
<1>4. L \in SUBSET Nat
  BY <1>1, Geometry, SMTT(20) DEF Groups
<1>5. LeastUsed(m) = Min(L)
  BY DEF LeastUsed
<1>6. LeastUsed(m) \in L
  <2> HIDE DEF L
  <2> QED BY <1>3, <1>4, <1>5, MinOfSet
<1>7. LeastUsed(m) \in C /\ LeastUsed(m) \in Groups
  BY <1>1, <1>6
<1>8. LeastUsed(m) + GroupsPerZone(m) <= NumGroups
  <2> DEFINE g == LeastUsed(m)
  <2>1. CASE GroupsPerZone(m) = 1
    BY <1>7, <2>1, Geometry, SMTT(20) DEF Groups
  <2>2. CASE Partial(m)
    <3>1. GroupsPerZone(m) = Parts
      BY <2>2 DEF GroupsPerZone, Parts
    <3>2. g \in Nat /\ g < NumGroups /\ g % Parts = 0
      BY <1>7, <2>2, <3>1, Geometry, SMTT(20) DEF Candidates, Groups
    <3> HIDE DEF g
    <3>3. g \div Parts \in Nat /\ g = Parts * (g \div Parts)
      <4>1. g \div Parts \in Nat /\ g = Parts * (g \div Parts) + (g % Parts)
        BY <3>2, Geometry, DivMod
      <4> QED BY <3>2, <4>1, Geometry, SMTT(20)
    <3>4. g \div Parts < OpenLimit
      BY <3>2, Geometry, DivBound
    <3>5. PICK d \in Nat : OpenLimit = (g \div Parts) + 1 + d
      <4>1. OpenLimit - (g \div Parts) - 1 \in Nat
        BY <3>3, <3>4, Geometry, SMTT(20)
      <4>2. OpenLimit = (g \div Parts) + 1 + (OpenLimit - (g \div Parts) - 1)
        BY <3>3, Geometry, SMTT(20)
      <4> QED BY <4>1, <4>2
    <3>6. Parts * OpenLimit = Parts * (g \div Parts) + Parts + Parts * d
      BY <3>3, <3>5, Geometry, SMTT(20)
    <3>7. Parts * d >= 0
      BY <3>5, Geometry, SMTT(20)
    <3>8. g + Parts <= NumGroups
      BY <3>2, <3>3, <3>5, <3>6, <3>7, Geometry, SMTT(20)
    <3> QED BY <3>1, <3>8 DEF g
  <2>3. Partial(m) \/ GroupsPerZone(m) = 1
    BY DEF GroupsPerZone
  <2> QED BY <2>1, <2>2, <2>3
<1> QED BY <1>2, <1>7, <1>8

\* c is m with zone z mapped to part k of FBG f in groups g..g+n-1.
Placed(m, c, z, g, n, f, k) ==
  /\ c \in Mappings /\ SharesOK(c) /\ g + n <= NumGroups
  /\ c.opened = m.opened
  /\ c.st_stage => m.st_stage /\ Len(m.opened) # OpenLimit
  /\ c.used = [h \in Groups |-> IF h \in Span(g, n) THEN m.used[h] + 1 ELSE m.used[h]]
  /\ c.phy = [m.phy EXCEPT ![z] = [n |-> n, first |-> g, ofst |-> f, part |-> k]]
  /\ \A h \in Groups, e \in Fbgs :
       c.uses[h][e] = IF h \in Span(g, n) /\ e = f
                      THEN Inc(m.uses[h][e]) ELSE m.uses[h][e]
  /\ n = 1 => /\ f \in FreeFbgs(m, g)
              /\ c.remain = [m.remain EXCEPT ![g] = Dec(@)]

\* Entering a zone into opened_zones leaves the rest alone.
LEMMA Appended ==
  ASSUME NEW m \in Mappings, NEW z \in Zones
  PROVE  /\ Append1(m, z) \in Mappings
         /\ Append1(m, z).opened = Append(m.opened, z)
         /\ Append1(m, z).st_stage = m.st_stage
         /\ Append1(m, z).used = m.used /\ Append1(m, z).uses = m.uses
         /\ Append1(m, z).remain = m.remain /\ Append1(m, z).next = m.next
         /\ Append1(m, z).part = m.part /\ Append1(m, z).phy = m.phy
<1>1. m.opened \in Seq(Zones)
  BY DEF Mappings
<1>2. Append(m.opened, z) \in Seq(Zones)
  BY <1>1, SMTT(20)
<1> QED BY <1>2 DEF Append1, Mappings

\* The mapping chosen for a zone has groups, an FBG and a part that exist.
LEMMA MapZoneMaps ==
  ASSUME NEW m \in Mappings, SharesOK(m), NEW z \in Zones, OpenFault(m) = "none"
  PROVE  \E g \in Groups, n \in {1, Parts} : \E f \in Fbgs, k \in 0..(n - 1) :
           Placed(m, MapZone(m, z), z, g, n, f, k)
<1> DEFINE n == GroupsPerZone(m)
           g == LeastUsed(m)
           used == [h \in Groups |-> IF h \in Span(g, n) THEN m.used[h] + 1 ELSE m.used[h]]
           b == [m EXCEPT !.used = used]
           a == alloc_fbg(b, n, g)
           p == [n |-> n, first |-> g, ofst |-> a.ofst, part |-> a.part]
           st == a.m.st_stage /\ Len(m.opened) # OpenLimit
           c == [a.m EXCEPT !.phy[z] = p, !.st_stage = st]
<1>1. Candidates(m) # {} /\ AllocFault(m, n, g) = "none"
  BY DEF OpenFault
<1>2. n \in {1, Parts} /\ g \in Groups /\ g + n <= NumGroups
  BY <1>1, Chosen
<1>3. MapZone(m, z) = c
  BY DEF MapZone
<1> HIDE DEF n, g
<1>4. used \in [Groups -> Nat]
  BY SMTT(20) DEF Mappings
<1> HIDE DEF used
<1>5. /\ b \in Mappings /\ b.used = used /\ b.opened = m.opened
      /\ b.st_stage = m.st_stage /\ b.uses = m.uses /\ b.remain = m.remain
      /\ b.next = m.next /\ b.part = m.part /\ b.phy = m.phy
  BY <1>4 DEF Mappings
<1> HIDE DEF b
<1>6. /\ SharesOK(b) /\ FreeFbgs(b, g) = FreeFbgs(m, g)
      /\ AllocFault(b, n, g) = "none"
  BY <1>1, <1>5 DEF SharesOK, FreeFbgs, AllocFault
<1>7. /\ a.ofst \in Fbgs /\ a.part \in 0..(n - 1)
      /\ Took(b, a.m, Span(g, n), a.ofst)
      /\ n = 1 => /\ a.ofst \in FreeFbgs(b, g)
                  /\ a.m.remain = [b.remain EXCEPT ![g] = Dec(@)]
  BY <1>2, <1>5, <1>6, AllocTakes, SMTT(20)
<1> HIDE DEF a
<1>8. a.m \in Mappings /\ SharesOK(a.m)
  BY <1>7 DEF Took
<1>9. p \in Places
  BY <1>2, <1>7, Geometry, SMTT(20) DEF Places
<1>10. st \in BOOLEAN /\ (st => a.m.st_stage /\ Len(m.opened) # OpenLimit)
  BY <1>8 DEF Mappings
<1> HIDE DEF p, st
<1>11. /\ c \in Mappings /\ c.phy = [a.m.phy EXCEPT ![z] = p] /\ c.st_stage = st
       /\ c.opened = a.m.opened /\ c.used = a.m.used /\ c.uses = a.m.uses
       /\ c.remain = a.m.remain /\ c.part = a.m.part
  BY <1>8, <1>9, <1>10 DEF Mappings
<1> HIDE DEF c
<1>12. SharesOK(c)
  BY <1>8, <1>11 DEF SharesOK
<1>13. c.opened = m.opened /\ c.used = used /\ c.phy = [m.phy EXCEPT ![z] = p]
  BY <1>5, <1>7, <1>11 DEF Took
<1>14. c.st_stage => m.st_stage /\ Len(m.opened) # OpenLimit
  BY <1>5, <1>7, <1>10, <1>11 DEF Took
<1>15. \A h \in Groups, e \in Fbgs :
         c.uses[h][e] = IF h \in Span(g, n) /\ e = a.ofst
                        THEN Inc(m.uses[h][e]) ELSE m.uses[h][e]
  BY <1>5, <1>7, <1>11, SMTT(20) DEF Took
<1>16. n = 1 => /\ a.ofst \in FreeFbgs(m, g)
                /\ c.remain = [m.remain EXCEPT ![g] = Dec(@)]
  BY <1>5, <1>6, <1>7, <1>11
<1>17. Placed(m, c, z, g, n, a.ofst, a.part)
  BY <1>2, <1>11, <1>12, <1>13, <1>14, <1>15, <1>16 DEF Placed, used, p
<1> QED BY <1>2, <1>3, <1>7, <1>17

\* So has the mapping after zone_open.
LEMMA OpenMaps ==
  ASSUME NEW m \in Mappings, SharesOK(m), NEW z \in Zones, zone_open_fault(m, z) = "none"
  PROVE  \E g \in Groups, n \in {1, Parts} : \E f \in Fbgs, k \in 0..(n - 1) :
           Placed(Append1(m, z), zone_open(m, z), z, g, n, f, k)
<1>1. /\ OpenFault(Append1(m, z)) = "none"
      /\ zone_open(m, z) = MapZone(Append1(m, z), z)
  BY DEF zone_open, zone_open_fault
<1>2. Append1(m, z) \in Mappings /\ SharesOK(Append1(m, z))
  BY Appended DEF SharesOK
<1> QED BY <1>1, <1>2, MapZoneMaps

(***************************************************************************)
(* The inductive invariant, of the mapping m and the zones h that hold     *)
(* data.  The counters of fairness.c count sets of zones: On(m, S, g) are  *)
(* those of S on die group g, At(m, S, g, f) those on its FBG f.           *)
(***************************************************************************)
On(m, S, g)    == {z \in S : g \in GroupsOf(m, z)}
At(m, S, g, f) == {z \in S : g \in GroupsOf(m, z) /\ m.phy[z].ofst = f}

PlaceOK(p) ==
  p.n \in {0, 1, Parts} /\ p.first + p.n <= NumGroups /\ (p.part = 0 \/ p.part < p.n)

Sound(m, h) ==
  /\ m \in Mappings /\ SharesOK(m) /\ h \in SUBSET Zones
  /\ IsInjective(m.opened) /\ Len(m.opened) <= MaxOpened
  /\ m.st_stage => Len(m.opened) < OpenLimit
  /\ \A z \in Zones : PlaceOK(m.phy[z])
  /\ \A z \in h \cup Range(m.opened) : m.phy[z].n # 0
  /\ \A g \in Groups, f \in Fbgs : m.uses[g][f] = Cardinality(At(m, h, g, f))
  /\ \A g \in Groups : m.used[g] = Cardinality(On(m, Range(m.opened), g))

\* opened_zones without duplicates is as long as it has zones.
LEMMA OpenedLists ==
  ASSUME NEW m \in Mappings, IsInjective(m.opened)
  PROVE  /\ Lists(m.opened, Range(m.opened)) /\ Range(m.opened) \in SUBSET Zones
         /\ IsFiniteSet(Range(m.opened)) /\ Len(m.opened) \in Nat
         /\ Cardinality(Range(m.opened)) = Len(m.opened)
<1>1. m.opened \in Seq(Zones) /\ DOMAIN m.opened = 1..Len(m.opened) /\ Len(m.opened) \in Nat
  BY LenProperties DEF Mappings
<1>2. \A i \in 1..Len(m.opened) : m.opened[i] \in Zones
  BY <1>1, ElementOfSeq
<1>3. Range(m.opened) \in SUBSET Zones
  BY <1>1, <1>2 DEF Range
<1>4. m.opened \in Seq(Range(m.opened))
  <2>1. m.opened = [i \in 1..Len(m.opened) |-> m.opened[i]]
    BY <1>1, SeqDef, SMTT(20)
  <2>2. \A i \in 1..Len(m.opened) : m.opened[i] \in Range(m.opened)
    BY <1>1 DEF Range
  <2>3. m.opened \in [1..Len(m.opened) -> Range(m.opened)]
    BY <2>1, <2>2
  <2> QED BY <1>1, <2>3, SeqDef, SMTT(20)
<1>5. Lists(m.opened, Range(m.opened))
  BY <1>4 DEF Lists
<1> QED BY <1>1, <1>3, <1>5, ListsCount

\* A list without duplicates and one new member.
LEMMA AppendLists ==
  ASSUME NEW Z, NEW l, Lists(l, Z), NEW z, z \notin Z
  PROVE  Lists(Append(l, z), Z \cup {z})
<1>1. /\ l \in Seq(Z \cup {z}) /\ Len(l) \in Nat /\ DOMAIN l = 1..Len(l)
      /\ \A i \in 1..Len(l) : l[i] \in Z
  <2>1. l \in Seq(Z)
    BY DEF Lists
  <2>2. Len(l) \in Nat /\ DOMAIN l = 1..Len(l) /\ \A i \in 1..Len(l) : l[i] \in Z
    BY <2>1, LenProperties, ElementOfSeq
  <2>3. l \in [1..Len(l) -> Z \cup {z}]
    <3>1. l = [i \in 1..Len(l) |-> l[i]]
      BY <2>1, SeqDef, SMTT(20)
    <3> QED BY <2>2, <3>1
  <2>4. l \in Seq(Z \cup {z})
    BY <2>2, <2>3, SeqDef, SMTT(20)
  <2> QED BY <2>2, <2>4
<1> DEFINE a == Append(l, z)
<1>2. /\ a \in Seq(Z \cup {z}) /\ Len(a) = Len(l) + 1
      /\ \A i \in 1..Len(l) : a[i] = l[i]
      /\ a[Len(l) + 1] = z
  BY <1>1, AppendProperties, SMTT(20)
<1>3. DOMAIN a = 1..(Len(l) + 1)
  BY <1>2, LenProperties
<1> HIDE DEF a
<1>4. IsInjective(l) /\ Range(l) = Z
  BY DEF Lists
<1>5. \A i, j \in 1..Len(l) : l[i] = l[j] => i = j
  BY <1>1, <1>4 DEF IsInjective
<1>6. \A i \in 1..(Len(l) + 1) : i \in 1..Len(l) \/ i = Len(l) + 1
  BY <1>1, SMTT(20)
<1>7. IsInjective(a)
  BY <1>1, <1>2, <1>3, <1>5, <1>6 DEF IsInjective
<1>8. Range(a) = Z \cup {z}
  <2>1. \A i \in 1..(Len(l) + 1) : a[i] \in Z \cup {z}
    BY <1>1, <1>2, <1>6
  <2>2. \A y \in Z : \E i \in 1..(Len(l) + 1) : a[i] = y
    <3>1. \A y \in Z : \E i \in 1..Len(l) : l[i] = y
      BY <1>1, <1>4 DEF Range
    <3>2. 1..Len(l) \subseteq 1..(Len(l) + 1)
      BY <1>1, SMTT(20)
    <3> QED BY <1>2, <3>1, <3>2
  <2>3. Len(l) + 1 \in 1..(Len(l) + 1)
    BY <1>1, SMTT(20)
  <2> QED BY <1>2, <1>3, <2>1, <2>2, <2>3, SMTT(20) DEF Range
<1> QED BY <1>2, <1>7, <1>8 DEF Lists, a

\* A zone that joins or leaves changes a count by one.
LEMMA CountJoins ==
  ASSUME NEW S, NEW z, S \in SUBSET Zones, z \notin S
  PROVE  Cardinality(S \cup {z}) = Cardinality(S) + 1 /\ Cardinality(S) \in Nat
BY Geometry, FS_Subset, FS_AddElement, FS_CardinalityType

\* A set of zones less one of them.
LEMMA CountLeaves ==
  ASSUME NEW S, NEW z, S \in SUBSET Zones, z \in S
  PROVE  /\ Cardinality(S \ {z}) = Cardinality(S) - 1
         /\ Cardinality(S) \in Nat \ {0} /\ Cardinality(S) < Word
<1>1. IsFiniteSet(S) /\ Cardinality(S) \in Nat /\ Cardinality(S) <= Cardinality(Zones)
  BY Geometry, FS_Subset, FS_CardinalityType
<1>2. Cardinality(S) # 0
  BY <1>1, FS_EmptySet
<1>3. Cardinality(S \ {z}) = Cardinality(S) - 1
  BY <1>1, FS_RemoveElement
<1> QED BY <1>1, <1>2, <1>3, Geometry, SMTT(20)

\* zone_open of a closed zone without data keeps the mapping sound.
LEMMA OpenSound ==
  ASSUME NEW m, NEW h, Sound(m, h), NEW z \in Zones, z \notin h,
         z \notin Range(m.opened), zone_open_fault(m, z) = "none"
  PROVE  Sound(zone_open(m, z), h \cup {z})
<1> DEFINE b == Append1(m, z)
           c == zone_open(m, z)
           O == Range(m.opened)
<1>1. m \in Mappings /\ SharesOK(m) /\ h \in SUBSET Zones /\ IsInjective(m.opened)
  BY DEF Sound
<1>2. PICK g \in Groups, n \in {1, Parts} : \E f \in Fbgs, k \in 0..(n - 1) :
        Placed(b, c, z, g, n, f, k)
  BY <1>1, OpenMaps
<1>3. PICK f \in Fbgs, k \in 0..(n - 1) : Placed(b, c, z, g, n, f, k)
  BY <1>2
<1> HIDE DEF c
<1>4. /\ b.opened = Append(m.opened, z) /\ b.st_stage = m.st_stage
      /\ b.used = m.used /\ b.uses = m.uses /\ b.phy = m.phy
  BY <1>1, Appended
<1> HIDE DEF b
<1>5. /\ c \in Mappings /\ SharesOK(c) /\ g + n <= NumGroups
      /\ c.opened = Append(m.opened, z)
      /\ c.st_stage => m.st_stage /\ Len(Append(m.opened, z)) # OpenLimit
      /\ c.used = [i \in Groups |-> IF i \in Span(g, n) THEN m.used[i] + 1 ELSE m.used[i]]
      /\ c.phy = [m.phy EXCEPT ![z] = [n |-> n, first |-> g, ofst |-> f, part |-> k]]
      /\ \A i \in Groups, e \in Fbgs :
           c.uses[i][e] = IF i \in Span(g, n) /\ e = f
                          THEN Inc(m.uses[i][e]) ELSE m.uses[i][e]
  BY <1>3, <1>4, SMTT(20) DEF Placed
<1>6. Len(Append(m.opened, z)) = Len(m.opened) + 1 /\ Len(m.opened) \in Nat
  BY <1>1, OpenedLists, AppendProperties, SMTT(20) DEF Mappings
<1>7. Lists(c.opened, O \cup {z}) /\ O \in SUBSET Zones
  BY <1>1, <1>5, OpenedLists, AppendLists, SMTT(20)
<1>8. Range(c.opened) = O \cup {z} /\ IsInjective(c.opened)
  BY <1>7 DEF Lists
<1>9. /\ c.phy[z] = [n |-> n, first |-> g, ofst |-> f, part |-> k]
      /\ \A y \in Zones \ {z} : c.phy[y] = m.phy[y]
  BY <1>1, <1>5 DEF Mappings
<1>10. /\ GroupsOf(c, z) = Span(g, n)
       /\ \A y \in Zones \ {z} : GroupsOf(c, y) = GroupsOf(m, y)
  BY <1>9, SMTT(20) DEF GroupsOf
<1>11. Len(c.opened) <= MaxOpened /\ (c.st_stage => Len(c.opened) < OpenLimit)
  <2>1. ~(Len(m.opened) >= MaxOpened)
    BY DEF zone_open_fault
  <2> QED BY <1>5, <1>6, <2>1, Geometry, SMTT(20) DEF Sound
<1>12. n \in Nat \ {0} /\ PlaceOK(c.phy[z])
  BY <1>5, <1>9, Geometry, SMTT(20) DEF PlaceOK
<1>13. \A y \in Zones : PlaceOK(c.phy[y])
  BY <1>9, <1>12 DEF Sound
<1>14. \A y \in (h \cup {z}) \cup Range(c.opened) : c.phy[y].n # 0
  <2>1. \A y \in h \cup O : y \in Zones \ {z} /\ m.phy[y].n # 0
    BY <1>1, <1>7 DEF Sound
  <2>2. c.phy[z].n # 0
    BY <1>9, <1>12, SMTT(20)
  <2> QED BY <1>8, <1>9, <2>1, <2>2
<1>15. ASSUME NEW i \in Groups, NEW e \in Fbgs
       PROVE  c.uses[i][e] = Cardinality(At(c, h \cup {z}, i, e))
  <2>1. At(m, h, i, e) \in SUBSET Zones /\ z \notin At(m, h, i, e)
    BY <1>1 DEF At
  <2>2. At(c, h, i, e) = At(m, h, i, e)
    BY <1>1, <1>9, <1>10 DEF At
  <2>3. m.uses[i][e] = Cardinality(At(m, h, i, e))
    BY DEF Sound
  <2>4. CASE i \in Span(g, n) /\ e = f
    <3>1. At(c, h \cup {z}, i, e) = At(m, h, i, e) \cup {z}
      BY <2>2, <2>4, <1>9, <1>10, SMTT(20) DEF At
    <3>2. Cardinality(At(m, h, i, e) \cup {z}) = m.uses[i][e] + 1 /\ m.uses[i][e] \in Nat
      BY <2>1, <2>3, CountJoins
    <3>3. m.uses[i][e] + 1 < Word
      <4>1. At(m, h, i, e) \cup {z} \in SUBSET Zones
        BY <2>1
      <4>2. Cardinality(At(m, h, i, e) \cup {z}) < Word
        BY <4>1, CountLeaves
      <4> QED BY <3>2, <4>2
    <3> QED BY <1>5, <2>4, <3>1, <3>2, <3>3, Wraps
  <2>5. CASE ~(i \in Span(g, n) /\ e = f)
    <3>1. At(c, h \cup {z}, i, e) = At(m, h, i, e)
      BY <2>2, <2>5, <1>9, <1>10, SMTT(20) DEF At
    <3> QED BY <1>5, <2>3, <2>5, <3>1, SMTT(20)
  <2> QED BY <2>4, <2>5
<1>16. ASSUME NEW i \in Groups
       PROVE  c.used[i] = Cardinality(On(c, Range(c.opened), i))
  <2>1. On(m, O, i) \in SUBSET Zones /\ z \notin On(m, O, i)
    BY <1>7 DEF On
  <2>2. On(c, O, i) = On(m, O, i)
    BY <1>7, <1>10 DEF On
  <2>3. m.used[i] = Cardinality(On(m, O, i))
    BY DEF Sound
  <2>4. CASE i \in Span(g, n)
    <3>1. On(c, Range(c.opened), i) = On(m, O, i) \cup {z}
      BY <1>8, <1>10, <2>2, <2>4 DEF On
    <3> QED BY <1>5, <2>1, <2>3, <2>4, <3>1, CountJoins, SMTT(20)
  <2>5. CASE i \notin Span(g, n)
    <3>1. On(c, Range(c.opened), i) = On(m, O, i)
      BY <1>8, <1>10, <2>2, <2>5 DEF On
    <3> QED BY <1>5, <2>3, <2>5, <3>1, SMTT(20)
  <2> QED BY <2>4, <2>5
<1>17. Sound(c, h \cup {z})
  BY <1>1, <1>5, <1>8, <1>11, <1>13, <1>14, <1>15, <1>16 DEF Sound
<1> QED BY <1>17 DEF c

\* A zone is opened if it is in opened_zones.
LEMMA IsOpenedRange ==
  ASSUME NEW m, NEW z
  PROVE  IsOpened(m, z) <=> z \in Range(m.opened)
BY DEF IsOpened, Range

\* zone_close fails no assertion and keeps the mapping sound.
LEMMA CloseSound ==
  ASSUME NEW m, NEW h, Sound(m, h), NEW z \in Zones
  PROVE  zone_close_fault(m, z) = "none" /\ Sound(zone_close(m, z), h)
<1> DEFINE c == zone_close(m, z)
           O == Range(m.opened)
           u == [g \in Groups |-> IF g \in GroupsOf(m, z) THEN m.used[g] - 1 ELSE m.used[g]]
           w == Without(m.opened, z)
<1>1. CASE ~IsOpened(m, z)
  BY <1>1 DEF zone_close_fault, zone_close
<1>2. CASE IsOpened(m, z)
  <2>1. m \in Mappings /\ SharesOK(m) /\ h \in SUBSET Zones /\ IsInjective(m.opened)
    BY DEF Sound
  <2>2. /\ Lists(m.opened, O) /\ O \in SUBSET Zones /\ z \in O
        /\ Len(m.opened) \in Nat /\ Cardinality(O) = Len(m.opened)
    BY <1>2, <2>1, OpenedLists, IsOpenedRange
  <2>3. Lists(w, O \ {z})
    <3>1. Lists(w, O \cap (Zones \ {z}))
      BY <2>2, OnlyLists DEF Without
    <3>2. O \cap (Zones \ {z}) = O \ {z}
      BY <2>2
    <3> QED BY <3>1, <3>2
  <2>4. Len(w) = Len(m.opened) - 1
    <3>1. Cardinality(O \ {z}) = Len(w)
      BY <2>3, ListsCount
    <3> QED BY <2>2, <3>1, CountLeaves
  <2>5. \A g \in Groups : m.used[g] = Cardinality(On(m, O, g)) /\ On(m, O, g) \in SUBSET Zones
    BY <2>2 DEF Sound, On
  <2>6. \A g \in Groups : g \in GroupsOf(m, z) => z \in On(m, O, g)
    BY <2>2 DEF On
  <2>7. \A g \in Groups : g \in GroupsOf(m, z) =>
          /\ m.used[g] \in Nat \ {0}
          /\ Cardinality(On(m, O, g) \ {z}) = m.used[g] - 1
    BY <2>5, <2>6, CountLeaves
  <2>8. GroupsOf(m, z) \subseteq Groups
    BY DEF GroupsOf, Span
  <2>9. zone_close_fault(m, z) = "none"
    BY <1>2, <2>4, <2>7, <2>8 DEF zone_close_fault
  <2>10. c = [m EXCEPT !.used = u, !.opened = w]
    BY <1>2, <2>9 DEF zone_close
  <2>11. w \in Seq(Zones) /\ u \in [Groups -> Nat]
    <3>1. w \in Seq(Zones)
      <4>1. m.opened \in Seq(Zones)
        BY <2>1 DEF Mappings
      <4> QED BY <4>1, OnlyPicks DEF Without
    <3>2. u \in [Groups -> Nat]
      <4>1. \A g \in Groups : m.used[g] \in Nat
        BY <2>1 DEF Mappings
      <4>2. \A g \in Groups : g \in GroupsOf(m, z) => m.used[g] - 1 \in Nat
        <5>1. \A i \in Nat \ {0} : i - 1 \in Nat
          BY SMTT(20)
        <5> QED BY <2>7, <5>1
      <4> QED BY <4>1, <4>2
    <3> QED BY <3>1, <3>2
  <2> HIDE DEF c, w, u
  <2>12. /\ c \in Mappings /\ c.used = u /\ c.opened = w /\ c.st_stage = m.st_stage
         /\ c.uses = m.uses /\ c.phy = m.phy /\ c.part = m.part
    BY <2>1, <2>10, <2>11 DEF Mappings
  <2>13. SharesOK(c)
    BY <2>1, <2>12 DEF SharesOK
  <2>14. IsInjective(c.opened) /\ Range(c.opened) = O \ {z}
    BY <2>3, <2>12 DEF Lists
  <2>15. Len(c.opened) <= MaxOpened /\ (c.st_stage => Len(c.opened) < OpenLimit)
    BY <2>2, <2>4, <2>12, Geometry, SMTT(20) DEF Sound
  <2>16. /\ \A y \in Zones : PlaceOK(c.phy[y])
         /\ \A y \in h \cup Range(c.opened) : c.phy[y].n # 0
    BY <2>12, <2>14 DEF Sound
  <2>17. \A g \in Groups, f \in Fbgs : c.uses[g][f] = Cardinality(At(c, h, g, f))
    BY <2>12, SMTT(20) DEF Sound, At, GroupsOf
  <2>18. ASSUME NEW g \in Groups
         PROVE  c.used[g] = Cardinality(On(c, Range(c.opened), g))
    <3>1. On(c, Range(c.opened), g) = On(m, O, g) \ {z}
      BY <2>12, <2>14 DEF On, GroupsOf
    <3>2. CASE g \in GroupsOf(m, z)
      BY <2>7, <2>12, <3>1, <3>2 DEF u
    <3>3. CASE g \notin GroupsOf(m, z)
      <4>1. On(m, O, g) \ {z} = On(m, O, g)
        BY <3>3 DEF On
      <4> QED BY <2>5, <2>12, <3>1, <3>3, <4>1 DEF u
    <3> QED BY <3>2, <3>3
  <2>19. Sound(c, h)
    BY <2>1, <2>12, <2>13, <2>14, <2>15, <2>16, <2>17, <2>18 DEF Sound
  <2> QED BY <2>9, <2>19 DEF c
<1> QED BY <1>1, <1>2

\* zone_reset of a zone that holds data fails no assertion and keeps the
\* mapping sound.
LEMMA ResetSound ==
  ASSUME NEW m, NEW h, Sound(m, h), NEW z \in h
  PROVE  /\ zone_reset_fault(m, z) = "none" /\ UsesOf(m, z) # 0
         /\ Sound(zone_reset(m, z), h \ {z})
<1> DEFINE c == zone_reset(m, z)
           q == m.phy[z].ofst
           u == [g \in Groups |->
                   IF g \in GroupsOf(m, z)
                   THEN [m.uses[g] EXCEPT ![q] = Dec(@)] ELSE m.uses[g]]
           r == [g \in Groups |->
                   IF Erases(m, z) /\ g \in GroupsOf(m, z)
                   THEN Inc(m.remain[g]) ELSE m.remain[g]]
<1>1. m \in Mappings /\ SharesOK(m) /\ h \in SUBSET Zones /\ z \in Zones
  BY DEF Sound
<1>2. m.phy[z] \in Places /\ q \in Fbgs /\ m.phy[z].n \in Nat \ {0} /\ m.phy[z].first \in Groups
  BY <1>1 DEF Sound, Mappings, Places
<1>3. m.phy[z].first \in GroupsOf(m, z)
  BY <1>2, Geometry, SMTT(20) DEF GroupsOf, Span, Groups
<1>4. \A g \in Groups, f \in Fbgs : /\ m.uses[g][f] = Cardinality(At(m, h, g, f))
                                    /\ At(m, h, g, f) \in SUBSET Zones
  BY <1>1 DEF Sound, At
<1>5. \A g \in Groups : g \in GroupsOf(m, z) =>
        /\ z \in At(m, h, g, q) /\ m.uses[g][q] \in Nat \ {0} /\ m.uses[g][q] < Word
        /\ Cardinality(At(m, h, g, q) \ {z}) = m.uses[g][q] - 1
  <2>1. \A g \in Groups : g \in GroupsOf(m, z) => z \in At(m, h, g, q)
    BY DEF At
  <2> QED BY <1>2, <1>4, <2>1, CountLeaves, SMTT(20)
<1>6. UsesOf(m, z) # 0
  BY <1>2, <1>3, <1>5 DEF UsesOf
<1>7. zone_reset_fault(m, z) = "none" /\ c = [m EXCEPT !.uses = u, !.remain = r]
  <2>1. zone_reset_fault(m, z) = "none"
    BY <1>6 DEF zone_reset_fault
  <2>2. c = [m EXCEPT !.uses = u, !.remain = r]
    BY <1>6 DEF zone_reset
  <2> QED BY <2>1, <2>2
<1>8. u \in [Groups -> [Fbgs -> Nat]]
  <2>1. \A g \in Groups : m.uses[g] \in [Fbgs -> Nat]
    BY <1>1 DEF Mappings
  <2>2. \A g \in Groups : Dec(m.uses[g][q]) \in Nat
    BY <1>2, <2>1, Wraps, SMTT(20)
  <2> QED BY <1>2, <2>1, <2>2
<1>9. r \in [Groups -> 0..(Word - 1)]
  <2>1. \A g \in Groups : m.remain[g] \in 0..(Word - 1)
    BY <1>1 DEF Mappings
  <2>2. \A i \in 0..(Word - 1) : Inc(i) \in 0..(Word - 1)
    BY Geometry, SMTT(20) DEF Inc
  <2> QED BY <2>1, <2>2
<1> HIDE DEF c, r
<1>10. \A g \in Groups, f \in Fbgs :
         u[g][f] = IF g \in GroupsOf(m, z) /\ f = q THEN Dec(m.uses[g][f]) ELSE m.uses[g][f]
  BY <1>1, <1>2 DEF Mappings
<1> HIDE DEF u
<1>11. /\ c \in Mappings /\ c.uses = u /\ c.opened = m.opened /\ c.st_stage = m.st_stage
       /\ c.used = m.used /\ c.phy = m.phy /\ c.part = m.part
  BY <1>1, <1>7, <1>8, <1>9 DEF Mappings
<1>12. SharesOK(c)
  BY <1>1, <1>11 DEF SharesOK
<1>13. /\ IsInjective(c.opened) /\ Len(c.opened) <= MaxOpened
       /\ c.st_stage => Len(c.opened) < OpenLimit
       /\ \A y \in Zones : PlaceOK(c.phy[y])
       /\ \A y \in (h \ {z}) \cup Range(c.opened) : c.phy[y].n # 0
  BY <1>11 DEF Sound
<1>14. \A g \in Groups : c.used[g] = Cardinality(On(c, Range(c.opened), g))
  BY <1>11 DEF Sound, On, GroupsOf
<1>15. ASSUME NEW g \in Groups, NEW f \in Fbgs
       PROVE  c.uses[g][f] = Cardinality(At(c, h \ {z}, g, f))
  <2>1. At(c, h \ {z}, g, f) = At(m, h, g, f) \ {z}
    BY <1>11 DEF At, GroupsOf
  <2>2. CASE g \in GroupsOf(m, z) /\ f = q
    <3>1. c.uses[g][f] = Dec(m.uses[g][q])
      BY <1>10, <1>11, <2>2
    <3>2. Dec(m.uses[g][q]) = m.uses[g][q] - 1
      BY <1>5, <2>2, Wraps
    <3>3. Cardinality(At(m, h, g, q) \ {z}) = m.uses[g][q] - 1
      BY <1>5, <2>2
    <3> QED BY <2>1, <2>2, <3>1, <3>2, <3>3
  <2>3. CASE ~(g \in GroupsOf(m, z) /\ f = q)
    <3>1. At(m, h, g, f) \ {z} = At(m, h, g, f)
      BY <2>3 DEF At
    <3>2. c.uses[g][f] = m.uses[g][f]
      BY <1>10, <1>11, <2>3
    <3> QED BY <1>4, <2>1, <3>1, <3>2
  <2> QED BY <2>2, <2>3
<1>16. Sound(c, h \ {z})
  BY <1>1, <1>11, <1>12, <1>13, <1>14, <1>15 DEF Sound
<1> QED BY <1>6, <1>7, <1>16 DEF c

(***************************************************************************)
(* The full mapping, which the shipped build selects: every zone has one   *)
(* FBG of one group.  No FBG has two zones, and the free ones are counted. *)
(***************************************************************************)
Exact(m, h) ==
  /\ \A g \in Groups : m.remain[g] = Cardinality(FreeFbgs(m, g))
  /\ \A y, z \in h : y # z =>
       m.phy[y].first # m.phy[z].first \/ m.phy[y].ofst # m.phy[z].ofst

\* The free FBGs of a group can be counted.
LEMMA FreeCount ==
  ASSUME NEW m, NEW g
  PROVE  /\ IsFiniteSet(FreeFbgs(m, g)) /\ Cardinality(FreeFbgs(m, g)) \in 0..NumFbgs
         /\ Cardinality(FreeFbgs(m, g)) = 0 <=> FreeFbgs(m, g) = {}
<1>1. IsFiniteSet(Fbgs) /\ Cardinality(Fbgs) = NumFbgs
  <2>1. 0 \in Int /\ NumFbgs - 1 \in Int /\ ~(0 > NumFbgs - 1) /\ NumFbgs - 1 - 0 + 1 = NumFbgs
    BY Geometry, SMTT(20)
  <2> QED BY <2>1, FS_Interval DEF Fbgs
<1>2. FreeFbgs(m, g) \in SUBSET Fbgs
  BY DEF FreeFbgs
<1>3. IsFiniteSet(FreeFbgs(m, g)) /\ Cardinality(FreeFbgs(m, g)) <= NumFbgs
  BY <1>1, <1>2, FS_Subset
<1> QED BY <1>3, FS_CardinalityType, FS_EmptySet, Geometry, SMTT(20)

\* In the full mapping a zone is in one group and one FBG.
LEMMA OneGroup ==
  ASSUME NEW m, NEW h, Sound(m, h), Parts = 1, NEW z \in h
  PROVE  /\ m.phy[z].n = 1 /\ m.phy[z].part = 0
         /\ m.phy[z].first \in Groups /\ m.phy[z].ofst \in Fbgs
         /\ GroupsOf(m, z) = {m.phy[z].first}
<1>1. m.phy[z] \in Places /\ PlaceOK(m.phy[z]) /\ m.phy[z].n # 0
  BY DEF Sound, Mappings
<1>2. m.phy[z].n = 1 /\ m.phy[z].first \in Groups /\ m.phy[z].ofst \in Fbgs
  BY <1>1 DEF PlaceOK, Places
<1>3. m.phy[z].part = 0
  BY <1>1, <1>2, SMTT(20) DEF PlaceOK, Places
<1>4. GroupsOf(m, z) = {m.phy[z].first}
  BY <1>2, Geometry, SMTT(20) DEF GroupsOf, Span, Groups
<1> QED BY <1>2, <1>3, <1>4

\* zone_open keeps the free counts exact.
LEMMA OpenExact ==
  ASSUME NEW m, NEW h, Sound(m, h), Exact(m, h), Parts = 1, NEW z \in Zones, z \notin h,
         zone_open_fault(m, z) = "none"
  PROVE  Exact(zone_open(m, z), h \cup {z})
<1> DEFINE b == Append1(m, z)
           c == zone_open(m, z)
<1>1. m \in Mappings /\ SharesOK(m) /\ h \in SUBSET Zones
  BY DEF Sound
<1>2. PICK g \in Groups : \E f \in Fbgs, k \in 0..(1 - 1) : Placed(b, c, z, g, 1, f, k)
  BY <1>1, OpenMaps
<1>3. PICK f \in Fbgs, k \in 0..(1 - 1) : Placed(b, c, z, g, 1, f, k)
  BY <1>2
<1> HIDE DEF c
<1>4. b.uses = m.uses /\ b.phy = m.phy /\ b.remain = m.remain
  BY <1>1, Appended
<1> HIDE DEF b
<1>5. Span(g, 1) = {g}
  BY Geometry, SMTT(20) DEF Span, Groups
<1>6. /\ c.phy = [m.phy EXCEPT ![z] = [n |-> 1, first |-> g, ofst |-> f, part |-> k]]
      /\ \A i \in Groups, e \in Fbgs :
           c.uses[i][e] = IF i = g /\ e = f THEN Inc(m.uses[i][e]) ELSE m.uses[i][e]
      /\ f \in FreeFbgs(m, g)
      /\ c.remain = [m.remain EXCEPT ![g] = Dec(@)]
  BY <1>3, <1>4, <1>5, SMTT(20) DEF Placed, FreeFbgs
<1>7. m.uses[g][f] = 0 /\ c.uses[g][f] # 0
  <2>1. m.uses[g][f] = 0
    BY <1>6 DEF FreeFbgs
  <2>2. Word > 1
    BY Geometry, SMTT(20)
  <2>3. Inc(0) = 1
    BY <2>2, Geometry, Wraps, SMTT(20)
  <2> QED BY <1>6, <2>1, <2>3, SMTT(20)
<1>8. ASSUME NEW i \in Groups PROVE c.remain[i] = Cardinality(FreeFbgs(c, i))
  <2>1. CASE i = g
    <3>1. FreeFbgs(c, g) = FreeFbgs(m, g) \ {f}
      BY <1>6, <1>7 DEF FreeFbgs
    <3>2. /\ Cardinality(FreeFbgs(m, g) \ {f}) = Cardinality(FreeFbgs(m, g)) - 1
          /\ Cardinality(FreeFbgs(m, g)) \in Nat \ {0}
          /\ Cardinality(FreeFbgs(m, g)) < Word
      <4>1. IsFiniteSet(FreeFbgs(m, g)) /\ Cardinality(FreeFbgs(m, g)) \in 0..NumFbgs
        BY FreeCount
      <4>2. Cardinality(FreeFbgs(m, g) \ {f}) = Cardinality(FreeFbgs(m, g)) - 1
        BY <1>6, <4>1, FS_RemoveElement
      <4>3. Cardinality(FreeFbgs(m, g)) # 0
        BY <1>6, <4>1, FreeCount
      <4> QED BY <4>1, <4>2, <4>3, Geometry, SMTT(20)
    <3>3. m.remain[g] = Cardinality(FreeFbgs(m, g))
      BY DEF Exact
    <3>4. c.remain[g] = Dec(m.remain[g])
      BY <1>1, <1>6 DEF Mappings
    <3>5. Dec(m.remain[g]) = m.remain[g] - 1
      BY <3>2, <3>3, Wraps
    <3> QED BY <2>1, <3>1, <3>2, <3>3, <3>4, <3>5
  <2>2. CASE i # g
    <3>1. FreeFbgs(c, i) = FreeFbgs(m, i)
      BY <1>6, <2>2 DEF FreeFbgs
    <3>2. c.remain[i] = m.remain[i]
      BY <1>1, <1>6, <2>2 DEF Mappings
    <3> QED BY <3>1, <3>2 DEF Exact
  <2> QED BY <2>1, <2>2
<1>9. ASSUME NEW y \in h PROVE m.phy[y].first # g \/ m.phy[y].ofst # f
  <2> SUFFICES ASSUME m.phy[y].first = g, m.phy[y].ofst = f PROVE FALSE
    OBVIOUS
  <2>1. y \in At(m, h, g, f)
    BY OneGroup DEF At
  <2>2. Cardinality(At(m, h, g, f)) # 0
    <3>1. At(m, h, g, f) \in SUBSET Zones
      BY <1>1 DEF At
    <3> QED BY <2>1, <3>1, CountLeaves
  <2> QED BY <1>7, <2>2 DEF Sound
<1>10. /\ c.phy[z].first = g /\ c.phy[z].ofst = f
       /\ \A y \in h : c.phy[y] = m.phy[y]
  BY <1>1, <1>6, SMTT(20) DEF Mappings
<1>11. \A x, y \in h \cup {z} : x # y =>
         c.phy[x].first # c.phy[y].first \/ c.phy[x].ofst # c.phy[y].ofst
  BY <1>9, <1>10, SMTT(20) DEF Exact
<1>12. Exact(c, h \cup {z})
  BY <1>8, <1>11 DEF Exact
<1> QED BY <1>12 DEF c

\* zone_close keeps the free counts exact.
LEMMA CloseExact ==
  ASSUME NEW m, NEW h, Sound(m, h), Exact(m, h), NEW z \in Zones
  PROVE  Exact(zone_close(m, z), h)
<1>1. LET c == zone_close(m, z)
      IN  c.remain = m.remain /\ c.uses = m.uses /\ c.phy = m.phy
  BY DEF zone_close, Sound, Mappings
<1> QED BY <1>1 DEF Exact, FreeFbgs

\* zone_reset keeps the free counts exact.
LEMMA ResetExact ==
  ASSUME NEW m, NEW h, Sound(m, h), Exact(m, h), Parts = 1, NEW z \in h
  PROVE  Exact(zone_reset(m, z), h \ {z})
<1> DEFINE c == zone_reset(m, z)
           g == m.phy[z].first
           q == m.phy[z].ofst
           u == [i \in Groups |->
                   IF i \in GroupsOf(m, z)
                   THEN [m.uses[i] EXCEPT ![q] = Dec(@)] ELSE m.uses[i]]
           r == [i \in Groups |->
                   IF Erases(m, z) /\ i \in GroupsOf(m, z)
                   THEN Inc(m.remain[i]) ELSE m.remain[i]]
<1>1. m \in Mappings /\ h \in SUBSET Zones /\ z \in Zones
  BY DEF Sound
<1>2. g \in Groups /\ q \in Fbgs /\ GroupsOf(m, z) = {g}
  BY OneGroup
<1>3. m.uses[g][q] = 1
  <2>1. At(m, h, g, q) = {z}
    <3>1. z \in At(m, h, g, q)
      BY <1>2 DEF At
    <3>2. \A y \in At(m, h, g, q) : y = z
      <4>1. \A y \in h : g \in GroupsOf(m, y) => m.phy[y].first = g
        BY OneGroup, SMTT(20)
      <4> QED BY <4>1 DEF At, Exact
    <3> QED BY <3>1, <3>2
  <2>2. Cardinality({z}) = 1
    BY FS_Singleton
  <2> QED BY <1>2, <2>1, <2>2 DEF Sound
<1>4. c = [m EXCEPT !.uses = u, !.remain = r] /\ Erases(m, z)
  <2>1. UsesOf(m, z) # 0
    BY ResetSound
  <2>2. c = [m EXCEPT !.uses = u, !.remain = r]
    BY <2>1 DEF zone_reset
  <2> QED BY <1>3, <2>2 DEF Erases, UsesOf
<1> HIDE DEF c, g, q
<1>5. /\ \A i \in Groups, e \in Fbgs :
           u[i][e] = IF i = g /\ e = q THEN Dec(m.uses[i][e]) ELSE m.uses[i][e]
      /\ \A i \in Groups : r[i] = IF i = g THEN Inc(m.remain[i]) ELSE m.remain[i]
  BY <1>1, <1>2, <1>4 DEF Mappings
<1> HIDE DEF u, r
<1>6. c.uses = u /\ c.remain = r /\ c.phy = m.phy
  BY <1>1, <1>4 DEF Mappings
<1>7. Dec(1) = 0
  <2>1. 1 < Word
    BY Geometry, SMTT(20)
  <2> QED BY <2>1, Wraps, SMTT(20)
<1>8. ASSUME NEW i \in Groups PROVE c.remain[i] = Cardinality(FreeFbgs(c, i))
  <2>1. CASE i = g
    <3>1. FreeFbgs(c, g) = FreeFbgs(m, g) \cup {q} /\ q \notin FreeFbgs(m, g)
      BY <1>2, <1>3, <1>5, <1>6, <1>7, SMTT(20) DEF FreeFbgs
    <3>2. /\ Cardinality(FreeFbgs(c, g)) = Cardinality(FreeFbgs(m, g)) + 1
          /\ Cardinality(FreeFbgs(m, g)) \in Nat
      <4>1. IsFiniteSet(FreeFbgs(m, g)) /\ Cardinality(FreeFbgs(m, g)) \in 0..NumFbgs
        BY FreeCount
      <4>2. Cardinality(FreeFbgs(m, g) \cup {q}) = Cardinality(FreeFbgs(m, g)) + 1
        BY <3>1, <4>1, FS_AddElement
      <4> QED BY <3>1, <4>1, <4>2, Geometry, SMTT(20)
    <3>3. Cardinality(FreeFbgs(m, g)) + 1 < Word
      <4>1. Cardinality(FreeFbgs(c, g)) \in 0..NumFbgs
        BY FreeCount
      <4> QED BY <3>2, <4>1, Geometry, SMTT(20)
    <3>4. m.remain[g] = Cardinality(FreeFbgs(m, g))
      BY <1>2 DEF Exact
    <3>5. c.remain[g] = Inc(m.remain[g])
      BY <1>2, <1>5, <1>6
    <3>6. Inc(m.remain[g]) = m.remain[g] + 1
      BY <3>2, <3>3, <3>4, Wraps
    <3> QED BY <2>1, <3>2, <3>4, <3>5, <3>6
  <2>2. CASE i # g
    <3>1. FreeFbgs(c, i) = FreeFbgs(m, i)
      BY <1>5, <1>6, <2>2 DEF FreeFbgs
    <3>2. c.remain[i] = m.remain[i]
      BY <1>5, <1>6, <2>2
    <3> QED BY <3>1, <3>2 DEF Exact
  <2> QED BY <2>1, <2>2
<1>9. Exact(c, h \ {z})
  BY <1>6, <1>8 DEF Exact
<1> QED BY <1>9 DEF c

\* Why the search of zone_open for a place fails, in the full mapping.
LEMMA SearchStops ==
  ASSUME NEW m, NEW h, Sound(m, h), Exact(m, h), Parts = 1, NEW z \in Zones
  PROVE  LET b == Append1(m, z)
         IN  /\ OpenFault(b) \in {"none", "no_free_fbg", "group_exhausted"}
             /\ OpenFault(b) = "no_free_fbg" => \A g \in Groups : FreeFbgs(m, g) = {}
<1> DEFINE b == Append1(m, z)
           g == LeastUsed(b)
<1>1. m \in Mappings /\ Len(m.opened) \in Nat
  BY OpenedLists DEF Sound
<1>2. /\ b \in Mappings /\ b.opened = Append(m.opened, z) /\ b.st_stage = m.st_stage
      /\ b.uses = m.uses /\ b.remain = m.remain
  BY <1>1, Appended
<1> HIDE DEF b
<1>4. \A i \in Groups : FreeFbgs(b, i) = FreeFbgs(m, i) /\ b.remain[i] = Cardinality(FreeFbgs(m, i))
  BY <1>2 DEF FreeFbgs, Exact
<1>5. ~(b.st_stage /\ Len(b.opened) > OpenLimit)
  <2>1. Len(b.opened) = Len(m.opened) + 1
    BY <1>1, <1>2, AppendProperties, SMTT(20) DEF Mappings
  <2> QED BY <1>1, <1>2, <2>1, Geometry, SMTT(20) DEF Sound
<1>6. CASE Candidates(b) = {}
  <2>1. OpenFault(b) = "no_free_fbg"
    BY <1>5, <1>6 DEF OpenFault
  <2>2. ASSUME NEW i \in Groups PROVE FreeFbgs(m, i) = {}
    <3>1. ~Partial(b)
      <4> SUFFICES ASSUME Partial(b) PROVE FALSE
        OBVIOUS
      <4>1. GroupsPerZone(b) = 1
        BY DEF GroupsPerZone, Parts
      <4>2. i % 1 = 0
        BY Geometry, SMTT(20) DEF Groups
      <4> QED BY <1>6, <4>1, <4>2 DEF Candidates
    <3>2. ~(b.remain[i] > 0)
      BY <1>6, <3>1 DEF Candidates
    <3> QED BY <1>4, <3>2, FreeCount, Geometry, SMTT(20)
  <2> QED BY <2>1, <2>2 DEF b
<1>7. CASE Candidates(b) # {}
  <2>1. g \in Groups
    BY <1>2, <1>7, Chosen
  <2>2. OpenFault(b) = AllocFault(b, GroupsPerZone(b), g)
    BY <1>5, <1>7 DEF OpenFault
  <2>3. GroupsPerZone(b) = 1
    BY DEF GroupsPerZone, Parts
  <2> HIDE DEF g
  <2>4. b.remain[g] # 0 => FreeFbgs(b, g) # {}
    BY <1>4, <2>1, FreeCount
  <2>5. OpenFault(b) \in {"none", "group_exhausted"}
    BY <2>2, <2>3, <2>4 DEF AllocFault
  <2> QED BY <2>5 DEF b
<1> QED BY <1>6, <1>7

\* Why zone_open stops, in the full mapping.
LEMMA OpenStops ==
  ASSUME NEW m, NEW h, Sound(m, h), Exact(m, h), Parts = 1, NEW z \in Zones
  PROVE  /\ zone_open_fault(m, z) \in
              {"none", "no_free_fbg", "group_exhausted", "opened_overrun"}
         /\ zone_open_fault(m, z) = "no_free_fbg" => \A g \in Groups : FreeFbgs(m, g) = {}
         /\ zone_open_fault(m, z) = "opened_overrun" =>
              Cardinality({y \in Zones : IsOpened(m, y)}) = MaxOpened
<1>1. /\ Range(m.opened) \in SUBSET Zones /\ Len(m.opened) \in Nat
      /\ Cardinality(Range(m.opened)) = Len(m.opened) /\ Len(m.opened) <= MaxOpened
  BY OpenedLists DEF Sound
<1>2. CASE Len(m.opened) >= MaxOpened
  <2>1. zone_open_fault(m, z) = "opened_overrun"
    BY <1>2 DEF zone_open_fault
  <2>2. {y \in Zones : IsOpened(m, y)} = Range(m.opened)
    BY <1>1, IsOpenedRange
  <2>3. Len(m.opened) = MaxOpened
    BY <1>1, <1>2, Geometry, SMTT(20)
  <2> QED BY <1>1, <2>1, <2>2, <2>3
<1>3. CASE ~(Len(m.opened) >= MaxOpened)
  <2>1. zone_open_fault(m, z) = OpenFault(Append1(m, z))
    BY <1>3 DEF zone_open_fault
  <2> QED BY <2>1, SearchStops
<1> QED BY <1>2, <1>3

(***************************************************************************)
(* The steps.  Hosts that are disciplined open a zone that is closed and   *)
(* holds nothing and reset a zone they opened.                             *)
(***************************************************************************)
Disciplined == ~MayReopen /\ ~MayResetUnused

MappingInv == Sound(map, held)
FullInv    == Exact(map, held) /\ StopsOnlyExhausted

\* The invariants hold at the start.
LEMMA InitSound ==
  ASSUME MappingInit
  PROVE  MappingInv /\ FullInv
<1> DEFINE m == zns_dynamic_mapping_init
<1>1. map = m /\ held = {} /\ fault = "none"
  BY DEF MappingInit
<1>2. \A g \in Groups : [flag |-> FALSE, fbg |-> 0, next |-> 0] \in Shares
  BY Geometry, SMTT(20) DEF Shares, Fbgs
<1>3. \A z \in Zones : Unmapped \in Places /\ PlaceOK(Unmapped)
  BY Geometry, SMTT(20) DEF Unmapped, Places, Groups, Fbgs, PlaceOK
<1>4. NumFbgs \in 0..(Word - 1) /\ 0 \in Fbgs /\ <<>> \in Seq(Zones)
  BY Geometry, SMTT(20) DEF Fbgs
<1>5. /\ m.opened = <<>> /\ m.st_stage = TRUE /\ m.used = [g \in Groups |-> 0]
      /\ m.uses = [g \in Groups |-> [f \in Fbgs |-> 0]]
      /\ m.remain = [g \in Groups |-> NumFbgs]
      /\ m.part = [g \in Groups |-> [flag |-> FALSE, fbg |-> 0, next |-> 0]]
      /\ m.phy = [z \in Zones |-> Unmapped]
  BY DEF zns_dynamic_mapping_init
<1>6. m \in Mappings
  BY <1>2, <1>3, <1>4 DEF zns_dynamic_mapping_init, Mappings
<1> HIDE DEF m
<1>7. SharesOK(m)
  BY <1>5, SMTT(20) DEF SharesOK
<1>8. IsInjective(m.opened) /\ Range(m.opened) = {} /\ Len(m.opened) = 0
  BY <1>5, SMTT(20) DEF IsInjective, Range
<1>9. \A g : On(m, {}, g) = {} /\ \A f : At(m, {}, g, f) = {}
  BY DEF On, At
<1>10. Cardinality({}) = 0
  BY FS_EmptySet
<1>11. /\ \A g \in Groups, f \in Fbgs : m.uses[g][f] = Cardinality(At(m, {}, g, f))
       /\ \A g \in Groups : m.used[g] = Cardinality(On(m, Range(m.opened), g))
  <2>1. \A g \in Groups, f \in Fbgs : m.uses[g][f] = 0 /\ m.used[g] = 0
    BY <1>5, SMTT(20)
  <2>2. \A g \in Groups : m.used[g] = 0
    BY <1>5, SMTT(20)
  <2>3. \A g, f : Cardinality(At(m, {}, g, f)) = 0
    BY <1>9, <1>10
  <2>4. \A g : Cardinality(On(m, Range(m.opened), g)) = 0
    BY <1>8, <1>9, <1>10
  <2> QED BY <2>1, <2>2, <2>3, <2>4
<1>12. \A z \in Zones : PlaceOK(m.phy[z])
  BY <1>3, <1>5
<1>13. Len(m.opened) <= MaxOpened /\ Len(m.opened) < OpenLimit
  BY <1>8, Geometry, SMTT(20)
<1>14. Sound(m, {})
  BY <1>6, <1>7, <1>8, <1>11, <1>12, <1>13 DEF Sound
<1>15. Exact(m, {})
  <2>1. \A g \in Groups : FreeFbgs(m, g) = Fbgs
    BY <1>5, SMTT(20) DEF FreeFbgs
  <2>2. 0 \in Int /\ NumFbgs - 1 \in Int /\ ~(0 > NumFbgs - 1) /\ NumFbgs - 1 - 0 + 1 = NumFbgs
    BY Geometry, SMTT(20)
  <2>3. Cardinality(Fbgs) = NumFbgs
    BY <2>2, FS_Interval DEF Fbgs
  <2> QED BY <1>5, <2>1, <2>3, SMTT(20) DEF Exact
<1> QED BY <1>1, <1>14, <1>15 DEF MappingInv, FullInv, StopsOnlyExhausted

\* Opening a zone keeps them.
LEMMA OpenStep ==
  ASSUME Disciplined, MappingInv, NEW z \in Zones, Open(z)
  PROVE  MappingInv' /\ (Parts = 1 /\ FullInv => FullInv')
<1> DEFINE c == zone_open(map, z)
<1>1. /\ z \notin held /\ z \notin Range(map.opened)
      /\ map' = c /\ fault' = zone_open_fault(map, z)
      /\ held' = IF fault' = "none" THEN held \cup {z} ELSE held
  BY IsOpenedRange DEF Open, Disciplined
<1>2. CASE zone_open_fault(map, z) = "none"
  <2>1. Sound(c, held \cup {z})
    BY <1>1, <1>2, OpenSound DEF MappingInv
  <2>2. Parts = 1 /\ FullInv => Exact(c, held \cup {z})
    BY <1>1, <1>2, OpenExact DEF MappingInv, FullInv
  <2> QED BY <1>1, <1>2, <2>1, <2>2 DEF MappingInv, FullInv, StopsOnlyExhausted
<1>3. CASE zone_open_fault(map, z) # "none"
  <2>1. c = map
    BY <1>3 DEF zone_open
  <2>2. map' = map /\ held' = held
    BY <1>1, <1>3, <2>1
  <2>3. MappingInv'
    BY <2>2 DEF MappingInv
  <2>4. Parts = 1 /\ FullInv => Exact(map', held') /\ StopsOnlyExhausted'
    <3> SUFFICES ASSUME Parts = 1, FullInv PROVE Exact(map', held') /\ StopsOnlyExhausted'
      OBVIOUS
    <3>1. /\ fault' \in {"none", "no_free_fbg", "group_exhausted", "opened_overrun"}
          /\ fault' = "no_free_fbg" => \A g \in Groups : FreeFbgs(map, g) = {}
          /\ fault' = "opened_overrun" =>
               Cardinality({y \in Zones : IsOpened(map, y)}) = MaxOpened
      BY <1>1, OpenStops DEF MappingInv, FullInv
    <3> QED BY <2>2, <3>1 DEF FullInv, StopsOnlyExhausted
  <2> QED BY <2>3, <2>4 DEF FullInv
<1> QED BY <1>2, <1>3

\* Closing a zone keeps them.
LEMMA CloseStep ==
  ASSUME MappingInv, NEW z \in Zones, Close(z)
  PROVE  MappingInv' /\ (Parts = 1 /\ FullInv => FullInv')
<1>1. map' = zone_close(map, z) /\ fault' = zone_close_fault(map, z) /\ held' = held
  BY DEF Close
<1>2. zone_close_fault(map, z) = "none" /\ Sound(zone_close(map, z), held)
  BY CloseSound DEF MappingInv
<1>3. FullInv => Exact(zone_close(map, z), held)
  BY CloseExact DEF MappingInv, FullInv
<1> QED BY <1>1, <1>2, <1>3 DEF MappingInv, FullInv, StopsOnlyExhausted

\* Resetting a zone keeps them.
LEMMA ResetStep ==
  ASSUME Disciplined, MappingInv, NEW z \in Zones, Reset(z)
  PROVE  MappingInv' /\ (Parts = 1 /\ FullInv => FullInv')
<1>1. /\ z \in held /\ map' = zone_reset(map, z) /\ fault' = zone_reset_fault(map, z)
      /\ held' = IF fault' = "none" THEN held \ {z} ELSE held
  BY DEF Reset, Disciplined
<1>2. zone_reset_fault(map, z) = "none" /\ Sound(zone_reset(map, z), held \ {z})
  BY <1>1, ResetSound DEF MappingInv
<1>3. Parts = 1 /\ FullInv => Exact(zone_reset(map, z), held \ {z})
  BY <1>1, ResetExact DEF MappingInv, FullInv
<1> QED BY <1>1, <1>2, <1>3 DEF MappingInv, FullInv, StopsOnlyExhausted

\* Every step keeps them.
LEMMA MappingStep ==
  ASSUME Disciplined, MappingInv, [MappingNext]_mvars
  PROVE  MappingInv' /\ (Parts = 1 /\ FullInv => FullInv')
<1>1. CASE MappingNext
  <2>1. PICK z \in Zones : Open(z) \/ Close(z) \/ Reset(z)
    BY <1>1 DEF MappingNext
  <2> QED BY <2>1, OpenStep, CloseStep, ResetStep
<1>2. CASE UNCHANGED mvars
  BY <1>2 DEF mvars, MappingInv, FullInv, StopsOnlyExhausted
<1> QED BY <1>1, <1>2

(***************************************************************************)
(* Addresses.  A page of a zone is the page r of plane s on die j of the   *)
(* zone's i-th group, counted in its part of the block.                    *)
(***************************************************************************)
LEMMA Flash ==
  DiesPerGroup \in Nat \ {0} /\ Planes \in Nat \ {0} /\ PgsPerBlk \in Nat \ {0}
BY MappingAssumption

\* The page number of a zone, split into die, plane and page of a part.
LEMMA PageParts ==
  ASSUME NEW n \in Nat \ {0}, PgsPerBlk % n = 0, NEW p \in ZonePages
  PROVE  LET k == p % (n * DiesPerGroup)
             q == p \div (n * DiesPerGroup)
             B == PgsPerBlk \div n
         IN  /\ B \in Nat \ {0} /\ PgsPerBlk = n * B
             /\ k \in Nat /\ q \in Nat /\ p = (n * DiesPerGroup) * q + k
             /\ k \div DiesPerGroup \in 0..(n - 1) /\ k % DiesPerGroup \in 0..(DiesPerGroup - 1)
             /\ k = DiesPerGroup * (k \div DiesPerGroup) + (k % DiesPerGroup)
             /\ q \div Planes \in 0..(B - 1) /\ q % Planes \in 0..(Planes - 1)
             /\ q = Planes * (q \div Planes) + (q % Planes)
<1> DEFINE N == n * DiesPerGroup
           k == p % N
           q == p \div N
           B == PgsPerBlk \div n
<1>1. N \in Nat \ {0}
  BY Flash, SMTT(20)
<1>2. p \in Nat /\ p < DiesPerGroup * Planes * PgsPerBlk
  BY Flash, SMTT(20) DEF ZonePages
<1>3. B \in Nat /\ PgsPerBlk = n * B
  <2>1. PgsPerBlk \div n \in Nat /\ PgsPerBlk = n * (PgsPerBlk \div n) + (PgsPerBlk % n)
    BY Flash, DivMod
  <2>2. B \in Nat /\ PgsPerBlk = n * B + 0
    BY <2>1
  <2> HIDE DEF B
  <2> QED BY <2>2, SMTT(20)
<1> HIDE DEF B
<1>4. B # 0
  BY <1>3, Flash, SMTT(20)
<1>5. k \in 0..(N - 1) /\ q \in Nat /\ p = N * q + k
  <2> HIDE DEF N
  <2> QED BY <1>1, <1>2, DivMod
<1>6. q < Planes * B
  <2>1. DiesPerGroup * Planes * PgsPerBlk = N * (Planes * B)
    BY <1>3, Flash, SMTT(20)
  <2>2. Planes * B \in Nat
    BY <1>3, Flash, SMTT(20)
  <2> HIDE DEF N
  <2> QED BY <1>1, <1>2, <2>1, <2>2, DivBound
<1>7. k \in Nat /\ k < DiesPerGroup * n
  BY <1>5, Flash, SMTT(20)
<1> HIDE DEF N, k, q
<1>8. /\ k \div DiesPerGroup \in Nat /\ k % DiesPerGroup \in 0..(DiesPerGroup - 1)
      /\ k = DiesPerGroup * (k \div DiesPerGroup) + (k % DiesPerGroup)
      /\ k \div DiesPerGroup < n
  BY <1>7, Flash, DivMod, DivBound
<1>9. /\ q \div Planes \in Nat /\ q % Planes \in 0..(Planes - 1)
      /\ q = Planes * (q \div Planes) + (q % Planes)
      /\ q \div Planes < B
  BY <1>3, <1>5, <1>6, Flash, DivMod, DivBound
<1>10. k \div DiesPerGroup \in 0..(n - 1) /\ q \div Planes \in 0..(B - 1)
  BY <1>3, <1>8, <1>9, SMTT(20)
<1> QED BY <1>3, <1>4, <1>5, <1>7, <1>8, <1>9, <1>10 DEF N, k, q, B

\* Address a of page p of a zone placed at t, in parts of B pages.
Addressed(a, p, t, B) ==
  \E i \in 0..(t.n - 1), j \in 0..(DiesPerGroup - 1), s \in 0..(Planes - 1), r \in 0..(B - 1) :
    /\ p = (t.n * DiesPerGroup) * (Planes * r + s) + (DiesPerGroup * i + j)
    /\ a.die = DiesPerGroup * (t.first + i) + j /\ a.pl = s
    /\ a.blk = t.ofst /\ a.pg = B * t.part + r

\* get_ppa_by_lba_base gives a page the address that split names.
LEMMA PageAddress ==
  ASSUME NEW m, NEW h, Sound(m, h), NEW z \in h, PgsPerBlk % Parts = 0, NEW p \in ZonePages
  PROVE  Addressed(get_ppa_by_lba_base(m, z, p), p, m.phy[z], PgsPerBlk \div m.phy[z].n)
<1> DEFINE a == get_ppa_by_lba_base(m, z, p)
           t == m.phy[z]
           n == t.n
           B == PgsPerBlk \div n
           k == p % (n * DiesPerGroup)
           q == p \div (n * DiesPerGroup)
           i == k \div DiesPerGroup
           j == k % DiesPerGroup
           r == q \div Planes
           s == q % Planes
<1>1. t \in Places /\ PlaceOK(t) /\ t.n # 0
  BY DEF Sound, Mappings
<1>2. /\ n \in Nat \ {0} /\ n \in {1, Parts} /\ t.first \in Nat /\ t.part \in Nat
      /\ (n = 1 => t.part = 0)
  <2>1. n \in Nat \ {0} /\ n \in {1, Parts} /\ t.part \in Nat /\ t.first \in Groups
    BY <1>1 DEF Places, PlaceOK
  <2>2. t.first \in Nat
    BY <2>1, Geometry, SMTT(20) DEF Groups
  <2>3. n = 1 => t.part = 0
    BY <1>1, <2>1, SMTT(20) DEF PlaceOK
  <2> QED BY <2>1, <2>2, <2>3
<1>3. PgsPerBlk % n = 0
  <2>1. PgsPerBlk % 1 = 0
    BY Flash, SMTT(20)
  <2> QED BY <1>2, <2>1
<1>4. /\ a.die = (t.first + i) * DiesPerGroup + j /\ a.pl = s /\ a.blk = t.ofst
      /\ a.pg = r + (IF n > 1 THEN t.part * B ELSE 0)
  BY DEF get_ppa_by_lba_base, DieOf, PlaneOf, PageOf, Para
<1> HIDE DEF a, n, t
<1>5. /\ B \in Nat \ {0} /\ k \in Nat /\ q \in Nat /\ p = (n * DiesPerGroup) * q + k
      /\ i \in 0..(n - 1) /\ j \in 0..(DiesPerGroup - 1) /\ k = DiesPerGroup * i + j
      /\ r \in 0..(B - 1) /\ s \in 0..(Planes - 1) /\ q = Planes * r + s
  BY <1>2, <1>3, PageParts
<1> HIDE DEF B, k, q, i, j, r, s
<1>6. p = (n * DiesPerGroup) * (Planes * r + s) + (DiesPerGroup * i + j)
  BY <1>5
<1>7. a.die = DiesPerGroup * (t.first + i) + j
  BY <1>2, <1>4, <1>5, Flash, SMTT(20)
<1>8. a.pg = B * t.part + r
  BY <1>2, <1>4, <1>5, SMTT(20)
<1>9. a.pl = s /\ a.blk = t.ofst
  BY <1>4
<1>10. Addressed(a, p, t, B)
  BY <1>5, <1>6, <1>7, <1>8, <1>9 DEF Addressed, n
<1> QED BY <1>10 DEF a, t, n, B

\* That address is inside the device and inside the block.
LEMMA AddressInside ==
  ASSUME NEW n \in Nat \ {0}, PgsPerBlk % n = 0,
         NEW f \in Nat, f + n <= NumGroups, NEW k \in Nat, k = 0 \/ k < n,
         NEW i \in 0..(n - 1), NEW j \in 0..(DiesPerGroup - 1),
         NEW r \in 0..((PgsPerBlk \div n) - 1)
  PROVE  /\ DiesPerGroup * (f + i) + j < NumGroups * DiesPerGroup
         /\ (PgsPerBlk \div n) * k + r < PgsPerBlk
<1> DEFINE B == PgsPerBlk \div n
<1>1. B \in Nat /\ PgsPerBlk = n * B
  <2>1. PgsPerBlk \div n \in Nat /\ PgsPerBlk = n * (PgsPerBlk \div n) + (PgsPerBlk % n)
    BY Flash, DivMod
  <2>2. B \in Nat /\ PgsPerBlk = n * B + 0
    BY <2>1
  <2> HIDE DEF B
  <2> QED BY <2>2, SMTT(20)
<1>2. r < B /\ r \in Nat
  BY <1>1, SMTT(20)
<1> HIDE DEF B
<1>3. \A x \in Nat, y \in Nat, b \in Nat, e \in Nat : x < y /\ e < b => b * x + e < b * y
  <2> TAKE x \in Nat, y \in Nat, b \in Nat, e \in Nat
  <2> HAVE x < y /\ e < b
  <2>1. y - x - 1 \in Nat /\ y = x + 1 + (y - x - 1)
    BY SMTT(20)
  <2>2. PICK d \in Nat : y = x + 1 + d
    BY <2>1
  <2>3. b * y = b * x + b + b * d /\ b * d >= 0
    BY <2>2, SMTT(20)
  <2> QED BY <2>3, SMTT(20)
<1>4. DiesPerGroup * (f + i) + j < DiesPerGroup * NumGroups
  <2>1. f + i \in Nat /\ NumGroups \in Nat /\ f + i < NumGroups
    BY Geometry, SMTT(20)
  <2>2. j \in Nat /\ DiesPerGroup \in Nat /\ j < DiesPerGroup
    BY Flash, SMTT(20)
  <2> QED BY <1>3, <2>1, <2>2
<1>5. k < n
  BY SMTT(20)
<1>6. B * k + r < B * n
  BY <1>1, <1>2, <1>3, <1>5
<1> QED BY <1>1, <1>4, <1>6, Geometry, Flash, SMTT(20) DEF B

\* In a sound mapping addresses are distinct.
LEMMA SoundAddresses ==
  ASSUME MappingInv, PgsPerBlk % Parts = 0
  PROVE  AddressesDistinct
<1> SUFFICES ASSUME NEW y \in held, NEW z \in held, NEW p \in ZonePages, NEW q \in ZonePages
             PROVE  LET a == get_ppa_by_lba_base(map, y, p)
                        b == get_ppa_by_lba_base(map, z, q)
                    IN  /\ a.die < NumGroups * DiesPerGroup /\ a.pg < PgsPerBlk
                        /\ a = b => (y = z /\ p = q) \/ Conflict(y, z)
  BY DEF AddressesDistinct
<1> DEFINE a == get_ppa_by_lba_base(map, y, p)
           b == get_ppa_by_lba_base(map, z, q)
           t == map.phy[y]
           u == map.phy[z]
           B == PgsPerBlk \div t.n
           C == PgsPerBlk \div u.n
<1>1. \A x \in held : /\ map.phy[x].n \in Nat \ {0} /\ map.phy[x].n \in {1, Parts}
                      /\ map.phy[x].first \in Nat /\ map.phy[x].part \in Nat
                      /\ map.phy[x].ofst \in Fbgs
                      /\ map.phy[x].first + map.phy[x].n <= NumGroups
                      /\ map.phy[x].part = 0 \/ map.phy[x].part < map.phy[x].n
  <2> TAKE x \in held
  <2>1. map.phy[x] \in Places /\ PlaceOK(map.phy[x]) /\ map.phy[x].n # 0
    BY DEF MappingInv, Sound, Mappings
  <2>2. map.phy[x].first \in Nat
    BY <2>1, Geometry, SMTT(20) DEF Places, Groups
  <2> QED BY <2>1, <2>2 DEF Places, PlaceOK
<1>2. PgsPerBlk % t.n = 0 /\ PgsPerBlk % u.n = 0
  <2>1. PgsPerBlk % 1 = 0
    BY Flash, SMTT(20)
  <2> QED BY <1>1, <2>1
<1>a. Addressed(a, p, t, B) /\ Addressed(b, q, u, C)
  BY PageAddress DEF MappingInv
<1> HIDE DEF a, b, t, u, B, C
<1>3. PICK i \in 0..(t.n - 1), j \in 0..(DiesPerGroup - 1),
           s \in 0..(Planes - 1), r \in 0..(B - 1) :
        /\ p = (t.n * DiesPerGroup) * (Planes * r + s) + (DiesPerGroup * i + j)
        /\ a.die = DiesPerGroup * (t.first + i) + j /\ a.pl = s
        /\ a.blk = t.ofst /\ a.pg = B * t.part + r
  BY <1>a DEF Addressed
<1>4. PICK k \in 0..(u.n - 1), l \in 0..(DiesPerGroup - 1),
           v \in 0..(Planes - 1), w \in 0..(C - 1) :
        /\ q = (u.n * DiesPerGroup) * (Planes * w + v) + (DiesPerGroup * k + l)
        /\ b.die = DiesPerGroup * (u.first + k) + l /\ b.pl = v
        /\ b.blk = u.ofst /\ b.pg = C * u.part + w
  BY <1>a DEF Addressed
<1> USE DEF t, u, B, C
<1>5. a.die < NumGroups * DiesPerGroup /\ a.pg < PgsPerBlk
  <2>1. /\ t.n \in Nat \ {0} /\ t.first \in Nat /\ t.part \in Nat
        /\ t.first + t.n <= NumGroups /\ (t.part = 0 \/ t.part < t.n)
    BY <1>1
  <2> HIDE DEF t
  <2>2. /\ DiesPerGroup * (t.first + i) + j < NumGroups * DiesPerGroup
        /\ B * t.part + r < PgsPerBlk
    BY <1>2, <2>1, AddressInside
  <2> QED BY <1>3, <2>2
<1>6. B \in Nat \ {0} /\ C \in Nat \ {0}
  BY <1>1, <1>2, PageParts
<1>7. ASSUME a = b, ~Conflict(y, z) PROVE y = z /\ p = q
  <2>1. t.first + i = u.first + k /\ j = l
    <3> DEFINE x == t.first + i
               e == u.first + k
    <3>1. x \in Nat /\ e \in Nat
      BY <1>1, SMTT(20)
    <3>2. DiesPerGroup * x + j = DiesPerGroup * e + l
      BY <1>3, <1>4, <1>7
    <3> HIDE DEF x, e, t, u
    <3>3. x = e /\ j = l
      BY <3>1, <3>2, Flash, DivUnique, SMTT(20)
    <3> QED BY <3>3 DEF x, e
  <2>2. s = v /\ t.ofst = u.ofst /\ B * t.part + r = C * u.part + w
    BY <1>3, <1>4, <1>7
  <2>3. Holds(y, t.first + i, t.ofst) /\ Holds(z, t.first + i, t.ofst)
    <3>1. t.first + i \in Span(t.first, t.n) /\ u.first + k \in Span(u.first, u.n)
      BY <1>1, Geometry, SMTT(20) DEF Span, Groups
    <3> QED BY <2>1, <2>2, <3>1 DEF Holds, GroupsOf
  <2>4. t.first + i \in Groups /\ t.ofst \in Fbgs
    BY <1>1, Geometry, SMTT(20) DEF Groups
  <2>5. y = z \/ (t.n = u.n /\ t.first = u.first /\ t.part # u.part)
    BY <1>7, <2>3, <2>4 DEF Conflict
  <2>6. t.n = u.n /\ t.first = u.first
    BY <2>5
  <2>7. t.part = u.part /\ r = w
    <3>1. B = C /\ w \in 0..(B - 1) /\ B * t.part + r = B * u.part + w
      BY <2>2, <2>6
    <3>2. t.part \in Nat /\ u.part \in Nat
      BY <1>1
    <3> DEFINE x == t.part
               e == u.part
    <3> HIDE DEF B, C, t, u, x, e
    <3>3. x = e /\ r = w
      <4>1. x \in Nat /\ e \in Nat /\ B * x + r = B * e + w
        BY <3>1, <3>2 DEF x, e
      <4> QED BY <1>6, <3>1, <4>1, DivUnique, SMTT(20)
    <3> QED BY <3>3 DEF x, e
  <2>8. y = z
    BY <2>5, <2>7
  <2>9. i = k
    BY <1>1, <2>1, <2>6, SMTT(20)
  <2> QED BY <1>3, <1>4, <2>1, <2>2, <2>6, <2>7, <2>8, <2>9
<1> QED BY <1>5, <1>7 DEF a, b

\* A sound mapping has its counters right.
LEMMA SoundMapping ==
  ASSUME MappingInv
  PROVE  MappingTypeOK /\ BitmapCountsZones /\ UsedCountsOpened
<1> DEFINE O == Range(map.opened)
<1>1. /\ map \in Mappings /\ held \in SUBSET Zones /\ IsInjective(map.opened)
      /\ Len(map.opened) <= MaxOpened
  BY DEF MappingInv, Sound
<1>2. O \in SUBSET Zones /\ IsFiniteSet(O) /\ Cardinality(O) <= MaxOpened
  BY <1>1, OpenedLists
<1>3. BitmapCountsZones
  <2>1. \A g, f : {z \in Zones : Holds(z, g, f)} = At(map, held, g, f)
    BY <1>1 DEF Holds, At
  <2> QED BY <2>1 DEF BitmapCountsZones, MappingInv, Sound
<1>4. UsedCountsOpened
  <2>1. \A g : {z \in Zones : IsOpened(map, z) /\ g \in GroupsOf(map, z)} = On(map, O, g)
    BY <1>2, IsOpenedRange DEF On
  <2> QED BY <1>1, <2>1 DEF UsedCountsOpened, MappingInv, Sound
<1>5. map.used \in [Groups -> 0..MaxOpened]
  <2>1. ASSUME NEW g \in Groups PROVE map.used[g] \in 0..MaxOpened
    <3>1. On(map, O, g) \in SUBSET O
      BY DEF On
    <3>2. Cardinality(On(map, O, g)) <= Cardinality(O) /\ IsFiniteSet(On(map, O, g))
      BY <1>2, <3>1, FS_Subset
    <3>3. Cardinality(On(map, O, g)) \in Nat /\ Cardinality(O) \in Nat
      BY <1>2, <3>2, FS_CardinalityType
    <3>4. map.used[g] = Cardinality(On(map, O, g))
      BY DEF MappingInv, Sound
    <3> QED BY <1>2, <3>2, <3>3, <3>4, Geometry, SMTT(20)
  <2>2. map.used = [g \in Groups |-> map.used[g]]
    BY <1>1 DEF Mappings
  <2> QED BY <2>1, <2>2
<1>6. map.uses \in [Groups -> [Fbgs -> 0..(Word - 1)]]
  <2>1. ASSUME NEW g \in Groups, NEW f \in Fbgs PROVE map.uses[g][f] \in 0..(Word - 1)
    <3>1. At(map, held, g, f) \in SUBSET Zones
      BY <1>1 DEF At
    <3>2. /\ Cardinality(At(map, held, g, f)) <= Cardinality(Zones)
          /\ Cardinality(At(map, held, g, f)) \in Nat
      BY <3>1, Geometry, FS_Subset, FS_CardinalityType
    <3>3. map.uses[g][f] = Cardinality(At(map, held, g, f))
      BY DEF MappingInv, Sound
    <3> QED BY <3>2, <3>3, Geometry, SMTT(20)
  <2>2. ASSUME NEW g \in Groups PROVE map.uses[g] \in [Fbgs -> 0..(Word - 1)]
    <3>1. map.uses[g] = [f \in Fbgs |-> map.uses[g][f]]
      BY <1>1 DEF Mappings
    <3> QED BY <2>1, <3>1
  <2>3. map.uses = [g \in Groups |-> map.uses[g]]
    BY <1>1 DEF Mappings
  <2> QED BY <2>2, <2>3
<1>7. map.part \in [Groups -> [flag : BOOLEAN, fbg : Fbgs, next : 0..NumGroups]]
  <2>1. Shares \subseteq [flag : BOOLEAN, fbg : Fbgs, next : 0..NumGroups]
    <3>1. 0..Parts \subseteq 0..NumGroups
      BY Geometry, SMTT(20)
    <3> QED BY <3>1 DEF Shares
  <2> QED BY <1>1, <2>1 DEF Mappings
<1>8. map.phy \in [Zones -> [n : 0..NumGroups, first : Groups,
                             ofst : Fbgs, part : 0..(NumGroups - 1)]]
  <2>1. ASSUME NEW z \in Zones
        PROVE  map.phy[z] \in [n : 0..NumGroups, first : Groups,
                               ofst : Fbgs, part : 0..(NumGroups - 1)]
    <3>1. map.phy[z] \in Places /\ PlaceOK(map.phy[z])
      BY <1>1 DEF MappingInv, Sound, Mappings
    <3>2. map.phy[z].n \in 0..NumGroups
      BY <3>1, Geometry, SMTT(20) DEF PlaceOK
    <3>3. map.phy[z].part \in 0..(NumGroups - 1)
      BY <3>1, <3>2, Geometry, SMTT(20) DEF PlaceOK, Places
    <3> QED BY <3>1, <3>2, <3>3 DEF Places
  <2>2. map.phy = [z \in Zones |-> map.phy[z]]
    BY <1>1 DEF Mappings
  <2> QED BY <2>1, <2>2
<1>9. MappingTypeOK
  BY <1>1, <1>5, <1>6, <1>7, <1>8 DEF MappingTypeOK, Mappings
<1> QED BY <1>3, <1>4, <1>9

\* In the full mapping free counts are exact and no block is shared.
LEMMA ExactMapping ==
  ASSUME MappingInv, FullInv, Parts = 1
  PROVE  RemainIsExact /\ NoSharedBlocks
<1>1. RemainIsExact
  BY DEF FullInv, Exact, RemainIsExact
<1>2. ASSUME NEW y \in held, NEW z \in held, Conflict(y, z) PROVE FALSE
  <2>1. PICK g \in Groups, f \in Fbgs : Holds(y, g, f) /\ Holds(z, g, f)
    BY <1>2 DEF Conflict
  <2>2. \A x \in held : Holds(x, g, f) => map.phy[x].first = g /\ map.phy[x].ofst = f
    BY OneGroup, SMTT(20) DEF Holds, MappingInv
  <2>3. y # z
    BY <1>2 DEF Conflict
  <2> QED BY <2>1, <2>2, <2>3 DEF FullInv, Exact
<1> QED BY <1>1, <1>2 DEF NoSharedBlocks

(***************************************************************************)
(* The theorems.                                                           *)
(***************************************************************************)

\* The inductive invariant of the mapping: it holds in any geometry.
THEOREM MappingInvariant ==
  ASSUME Disciplined
  PROVE  MappingSpec => []MappingInv
<1>1. MappingInit => MappingInv
  BY InitSound
<1>2. MappingInv /\ [MappingNext]_mvars => MappingInv'
  BY MappingStep
<1> QED BY <1>1, <1>2, PTL DEF MappingSpec

\* zone_open, zone_close and zone_reset keep the mapping well formed as long
\* as no open has overrun opened_zones: every index stays inside its array and
\* no counter of die_group_used_bitmap and fbgs_used_bitmap wraps, for any
\* geometry.
THEOREM MappingWellFormed ==
  ASSUME Disciplined
  PROVE  MappingSpec => []MappingTypeOK
<1>1. MappingInv => MappingTypeOK
  BY SoundMapping
<1> QED BY <1>1, MappingInvariant, PTL

\* fbgs_used_bitmap counts exactly the zones that hold data in an FBG, in the
\* full and in every partial mapping, so it is 0 exactly when none is left.
THEOREM UsersCounted ==
  ASSUME Disciplined
  PROVE  MappingSpec => []BitmapCountsZones
<1>1. MappingInv => BitmapCountsZones
  BY SoundMapping
<1> QED BY <1>1, MappingInvariant, PTL

\* die_group_used_bitmap counts exactly the open zones on a die group and no
\* zone is in opened_zones twice, so the assertions of zone_close never fail.
THEOREM OpenZonesCounted ==
  ASSUME Disciplined
  PROVE  MappingSpec => []UsedCountsOpened
<1>1. MappingInv => UsedCountsOpened
  BY SoundMapping, SMTT(20)
<1> QED BY <1>1, MappingInvariant, PTL

\* get_ppa_by_lba_base is injective on the pages of zones that alloc_fbg gave
\* disjoint flash, and stays inside the die and the block, whenever the parts
\* of a partial mapping divide the block evenly.
THEOREM PagesApart ==
  ASSUME Disciplined, PgsPerBlk % Parts = 0
  PROVE  MappingSpec => []AddressesDistinct
<1>1. MappingInv => AddressesDistinct
  BY SoundAddresses
<1> QED BY <1>1, MappingInvariant, PTL

\* The full mapping, OpenLimit = NumGroups as in the shipped build.
LEMMA FullParts ==
  ASSUME OpenLimit = NumGroups
  PROVE  Parts = 1
BY Geometry, SMTT(20) DEF Parts

\* The invariant of the full mapping.
LEMMA FullInvariant ==
  ASSUME Disciplined, OpenLimit = NumGroups
  PROVE  MappingSpec => [](MappingInv /\ FullInv)
<1>1. MappingInit => MappingInv /\ FullInv
  BY InitSound
<1>2. MappingInv /\ FullInv /\ [MappingNext]_mvars => MappingInv' /\ FullInv'
  BY MappingStep, FullParts
<1> QED BY <1>1, <1>2, PTL DEF MappingSpec

\* In the full mapping remain_fbgs_num is the number of free FBGs, which the
\* search of alloc_fbg for a free one relies on to end.
THEOREM FreeFbgsCounted ==
  ASSUME Disciplined, OpenLimit = NumGroups
  PROVE  MappingSpec => []RemainIsExact
<1>1. MappingInv /\ FullInv => RemainIsExact
  BY ExactMapping, FullParts
<1> QED BY <1>1, FullInvariant, PTL

\* In the full mapping two zones that hold data never share a block.
THEOREM BlocksApart ==
  ASSUME Disciplined, OpenLimit = NumGroups
  PROVE  MappingSpec => []NoSharedBlocks
<1>1. MappingInv /\ FullInv => NoSharedBlocks
  BY ExactMapping, FullParts
<1> QED BY <1>1, FullInvariant, PTL

\* In the full mapping the emulator stops only for lack of free FBGs or with
\* MAXOPENZONES zones really open: no other assertion of zone_open, zone_close
\* and zone_reset can fail, and no stale entry fills opened_zones.
THEOREM OnlyExhaustionStops ==
  ASSUME Disciplined, OpenLimit = NumGroups
  PROVE  MappingSpec => []StopsOnlyExhausted
<1>1. MappingInv /\ FullInv => StopsOnlyExhausted
  BY DEF FullInv
<1> QED BY <1>1, FullInvariant, PTL

=============================================================================
