-------------------------- MODULE ZnsZonesHandlers --------------------------
(***************************************************************************)
(* The handlers of zns.c lead from a device whose lists and counters agree *)
(* with its zone states to another one, for any number of zones and any    *)
(* limits: the handlers for one zone, then the commands on all zones and   *)
(* the steps of a shutdown.                                                *)
(***************************************************************************)
EXTENDS ZnsZones, SequenceTheorems, TLAPS

\* Leaves are for Zenon, the ones with arithmetic or records name SMT.
USE ZenonT(20)

(***************************************************************************)
(* Facts about the QTAILQ lists of src/zns/zns.c, sequences without        *)
(* repetition: what inserting, unlinking, moving and joining lists does to *)
(* the set of their members and to their length.                           *)
(***************************************************************************)


\* l lists every member of Z once, and nothing else.
Lists(l, Z) == l \in Seq(Z) /\ IsInjective(l) /\ Range(l) = Z

\* QTAILQ_INIT: the empty list lists nothing.
LEMMA EmptyLists == Lists(<<>>, {})
BY EmptySeq, SMTT(20) DEF Lists, IsInjective, Range

\* A list of Z is empty exactly when Z is.
LEMMA NonEmptyLists ==
  ASSUME NEW Z, NEW l, Lists(l, Z)
  PROVE  /\ Len(l) \in Nat
         /\ \A z \in Z : Len(l) >= 1
         /\ Z = {} => l = <<>> /\ Len(l) = 0
         /\ l = <<>> => Z = {}
<1>1. Len(l) \in Nat /\ DOMAIN l = 1..Len(l)
  BY LenProperties DEF Lists
<1>2. \A z \in Z : \E i \in 1..Len(l) : l[i] = z
  BY <1>1 DEF Lists, Range
<1>3. Z = {} => 1..Len(l) = {}
  BY <1>1 DEF Lists, Range
<1>4. 1..Len(l) = {} => Len(l) = 0
  <2>1. 1 \in 1..Len(l) \/ Len(l) = 0
    BY <1>1, SMTT(20)
  <2> QED BY <2>1
<1>5. Len(l) = 0 => l = <<>>
  BY EmptySeq DEF Lists
<1>6. l = <<>> => Len(l) = 0
  BY EmptySeq
<1> QED BY <1>1, <1>2, <1>3, <1>4, <1>5, <1>6, SMTT(20)

\* QTAILQ_INSERT_TAIL of a zone that is on no list.
LEMMA AppendLists ==
  ASSUME NEW Z, NEW l, Lists(l, Z), NEW x, x \notin Z
  PROVE  Lists(Append(l, x), Z \cup {x}) /\ Len(Append(l, x)) = Len(l) + 1
<1> DEFINE m == Append(l, x)
<1>1. l \in Seq(Z \cup {x}) /\ Len(l) \in Nat /\ DOMAIN l = 1..Len(l)
  BY SeqMonotonic, LenProperties, Z \subseteq Z \cup {x} DEF Lists
<1>2. /\ m \in Seq(Z \cup {x}) /\ Len(m) = Len(l) + 1
      /\ \A i \in 1..Len(l) : m[i] = l[i]
      /\ m[Len(l) + 1] = x
  BY <1>1, AppendProperties, SMTT(20)
<1>3. DOMAIN m = 1..(Len(l) + 1)
  BY <1>2, LenProperties
<1>4. \A i \in 1..Len(l) : l[i] \in Z
  BY <1>1 DEF Lists, Range
<1> HIDE DEF m
<1>5. IsInjective(m)
  BY <1>1, <1>2, <1>3, <1>4, SMTT(20) DEF Lists, IsInjective
<1>6. \A z \in Z : \E i \in 1..Len(l) : l[i] = z
  BY <1>1 DEF Lists, Range
<1>7. Range(m) = Z \cup {x}
  <2>1. \A i \in DOMAIN m : m[i] \in Z \cup {x}
    BY <1>1, <1>2, <1>3, <1>4, SMTT(20)
  <2>2. \A z \in Z \cup {x} : \E i \in DOMAIN m : m[i] = z
    BY <1>1, <1>2, <1>3, <1>6, SMTT(20)
  <2> QED BY <2>1, <2>2 DEF Range
<1> QED BY <1>2, <1>5, <1>7 DEF Lists, m

\* Two lists without a common member, one after the other.
LEMMA ConcatLists ==
  ASSUME NEW Y, NEW Z, NEW k, NEW l, Lists(k, Y), Lists(l, Z), Y \cap Z = {}
  PROVE  Lists(k \o l, Y \cup Z) /\ Len(k \o l) = Len(k) + Len(l)
<1> DEFINE m == k \o l
<1>1. /\ k \in Seq(Y \cup Z) /\ Len(k) \in Nat /\ DOMAIN k = 1..Len(k)
      /\ l \in Seq(Y \cup Z) /\ Len(l) \in Nat /\ DOMAIN l = 1..Len(l)
  BY SeqMonotonic, LenProperties, Y \subseteq Y \cup Z, Z \subseteq Y \cup Z
  DEF Lists
<1>2. /\ m \in Seq(Y \cup Z) /\ Len(m) = Len(k) + Len(l)
      /\ \A i \in 1..(Len(k) + Len(l)) :
           m[i] = IF i <= Len(k) THEN k[i] ELSE l[i - Len(k)]
  BY <1>1, ConcatProperties
<1>3. DOMAIN m = 1..(Len(k) + Len(l))
  BY <1>2, LenProperties
<1>4. /\ \A i \in 1..Len(k) : k[i] \in Y
      /\ \A i \in 1..Len(l) : l[i] \in Z
  BY <1>1 DEF Lists, Range
<1>5. Range(m) = Y \cup Z
  BY <1>1, RangeConcatenation, SMTT(20) DEF Lists
<1> HIDE DEF m
<1>6. IsInjective(m)
  <2> SUFFICES ASSUME NEW i \in DOMAIN m, NEW j \in DOMAIN m, m[i] = m[j]
               PROVE  i = j
    BY DEF IsInjective
  <2>1. CASE i <= Len(k) /\ j <= Len(k)
    BY <2>1, <1>1, <1>2, <1>3, SMTT(20) DEF Lists, IsInjective
  <2>2. CASE i > Len(k) /\ j > Len(k)
    <3>1. i - Len(k) \in 1..Len(l) /\ j - Len(k) \in 1..Len(l)
      BY <2>2, <1>1, <1>3, SMTT(20)
    <3>2. m[i] = l[i - Len(k)]
      <4>1. ~(i <= Len(k))
        BY <2>2, <1>1, <1>3, SMTT(20)
      <4> QED BY <4>1, <1>2, <1>3
    <3>3. m[j] = l[j - Len(k)]
      <4>1. ~(j <= Len(k))
        BY <2>2, <1>1, <1>3, SMTT(20)
      <4> QED BY <4>1, <1>2, <1>3
    <3>4. i - Len(k) = j - Len(k)
      BY <3>1, <3>2, <3>3, <1>1 DEF Lists, IsInjective
    <3> QED BY <3>4, <1>1, <1>3, SMTT(20)
  <2>3. CASE i <= Len(k) /\ j > Len(k)
    <3>1. i \in 1..Len(k) /\ j - Len(k) \in 1..Len(l)
      BY <2>3, <1>1, <1>3, SMTT(20)
    <3>2. m[i] = k[i] /\ m[j] = l[j - Len(k)]
      BY <2>3, <1>1, <1>2, <1>3, SMTT(20)
    <3>3. m[i] \in Y /\ m[j] \in Z
      BY <3>1, <3>2, <1>4
    <3> QED BY <3>3
  <2>4. CASE i > Len(k) /\ j <= Len(k)
    <3>1. j \in 1..Len(k) /\ i - Len(k) \in 1..Len(l)
      BY <2>4, <1>1, <1>3, SMTT(20)
    <3>2. m[j] = k[j] /\ m[i] = l[i - Len(k)]
      BY <2>4, <1>1, <1>2, <1>3, SMTT(20)
    <3>3. m[j] \in Y /\ m[i] \in Z
      BY <3>1, <3>2, <1>4
    <3> QED BY <3>3
  <2> QED BY <2>1, <2>2, <2>3, <2>4, <1>1, <1>3, SMTT(20)
<1> QED BY <1>2, <1>5, <1>6 DEF Lists, m

\* QTAILQ_INSERT_HEAD of a zone that is on no list.
LEMMA ConsLists ==
  ASSUME NEW Z, NEW l, Lists(l, Z), NEW x, x \notin Z
  PROVE  Lists(<<x>> \o l, Z \cup {x}) /\ Len(<<x>> \o l) = Len(l) + 1
<1>1. <<x>> \in Seq({x}) /\ Len(<<x>>) = 1 /\ <<x>>[1] = x
  BY SMTT(20)
<1>2. DOMAIN <<x>> = 1..1
  BY <1>1, LenProperties
<1>3. Lists(<<x>>, {x})
  BY <1>1, <1>2, SMTT(20) DEF Lists, IsInjective, Range
<1>4. Lists(<<x>> \o l, {x} \cup Z) /\ Len(<<x>> \o l) = 1 + Len(l)
  BY <1>1, <1>3, ConcatLists, SMTT(20)
<1>5. {x} \cup Z = Z \cup {x} /\ Len(l) \in Nat
  BY LenProperties DEF Lists
<1> QED BY <1>4, <1>5, SMTT(20)

\* The first k members of a list, and the others.
FirstOf(l, k) == SubSeq(l, 1, k)
RestOf(l, k) == SubSeq(l, k + 1, Len(l))

\* Cutting a list in two: a loop that stops after its first k zones.
LEMMA SplitLists ==
  ASSUME NEW Z, NEW l, Lists(l, Z), NEW k \in 0..Len(l)
  PROVE  /\ Lists(FirstOf(l, k), Range(FirstOf(l, k)))
         /\ Len(FirstOf(l, k)) = k
         /\ \A i \in 1..k : FirstOf(l, k)[i] = l[i]
         /\ Lists(RestOf(l, k), Range(RestOf(l, k)))
         /\ Len(RestOf(l, k)) = Len(l) - k
         /\ Range(FirstOf(l, k)) \cup Range(RestOf(l, k)) = Z
         /\ Range(FirstOf(l, k)) \cap Range(RestOf(l, k)) = {}
<1> DEFINE a == FirstOf(l, k)
           b == RestOf(l, k)
<1>1. l \in Seq(Z) /\ Len(l) \in Nat /\ DOMAIN l = 1..Len(l) /\ k \in Nat
  BY LenProperties, SMTT(20) DEF Lists
<1>2. \A i \in 1..Len(l) : l[i] \in Z
  BY <1>1, ElementOfSeq
<1>3. /\ a \in Seq(Z) /\ Len(a) = k
      /\ \A i \in 1..k : a[i] = l[i]
  <2>1. \A i \in 1..k : l[i] \in Z
    BY <1>1, <1>2, SMTT(20)
  <2>2. /\ a \in Seq(Z)
        /\ Len(a) = IF 1 <= k THEN k - 1 + 1 ELSE 0
        /\ \A i \in 1..(k - 1 + 1) : a[i] = l[1 + i - 1]
    <3>1. 1 \in Int /\ k \in Int
      BY <1>1, SMTT(20)
    <3> QED BY <2>1, <3>1, <1>1, SubSeqProperties, SMTT(20) DEF FirstOf
  <2>3. /\ k - 1 + 1 = k /\ (1 <= k \/ k = 0)
        /\ \A i \in 1..k : 1 + i - 1 = i
    BY <1>1, SMTT(20)
  <2> QED BY <2>2, <2>3
<1>4. /\ b \in Seq(Z) /\ Len(b) = Len(l) - k
      /\ \A i \in 1..(Len(l) - k) : b[i] = l[k + i]
  <2>1. \A i \in (k + 1)..Len(l) : l[i] \in Z
    BY <1>1, <1>2, SMTT(20)
  <2>2. /\ b \in Seq(Z)
        /\ Len(b) = IF k + 1 <= Len(l) THEN Len(l) - (k + 1) + 1 ELSE 0
        /\ \A i \in 1..(Len(l) - (k + 1) + 1) : b[i] = l[(k + 1) + i - 1]
    <3>1. k + 1 \in Int /\ Len(l) \in Int
      BY <1>1, SMTT(20)
    <3> QED BY <2>1, <3>1, <1>1, SubSeqProperties, SMTT(20) DEF RestOf
  <2>3. \A n \in Nat : \A m \in 0..n :
          /\ n - (m + 1) + 1 = n - m
          /\ \A i \in 1..(n - m) : (m + 1) + i - 1 = m + i
          /\ m + 1 <= n \/ n - m = 0
    BY SMTT(20)
  <2> QED BY <2>2, <2>3, <1>1
<1>5. DOMAIN a = 1..k /\ DOMAIN b = 1..(Len(l) - k)
  BY <1>3, <1>4, LenProperties
<1> HIDE DEF a, b
<1>6. a \in Seq(Range(a)) /\ b \in Seq(Range(b))
  BY <1>3, <1>4, SeqOfRange
<1>7. IsInjective(a)
  BY <1>1, <1>3, <1>5, SMTT(20) DEF Lists, IsInjective
<1>8. IsInjective(b)
  <2> SUFFICES ASSUME NEW i \in 1..(Len(l) - k), NEW j \in 1..(Len(l) - k),
                      b[i] = b[j]
               PROVE  i = j
    BY <1>5 DEF IsInjective
  <2>1. k + i \in DOMAIN l /\ k + j \in DOMAIN l /\ l[k + i] = l[k + j]
    BY <1>1, <1>4, SMTT(20)
  <2>2. k + i = k + j
    BY <2>1 DEF Lists, IsInjective
  <2> QED BY <2>2, <1>1, SMTT(20)
<1>9. Range(a) \cup Range(b) = Z
  <2>1. \A i \in 1..k : a[i] \in Z
    BY <1>1, <1>2, <1>3, SMTT(20)
  <2>2. \A i \in 1..(Len(l) - k) : b[i] \in Z
    BY <1>1, <1>2, <1>4, SMTT(20)
  <2>3. ASSUME NEW z \in Z PROVE z \in Range(a) \cup Range(b)
    <3>1. PICK i \in 1..Len(l) : l[i] = z
      BY <1>1 DEF Lists, Range
    <3>2. CASE i <= k
      <4>1. i \in DOMAIN a /\ a[i] = z
        BY <3>1, <3>2, <1>1, <1>3, <1>5, SMTT(20)
      <4> QED BY <4>1 DEF Range
    <3>3. CASE i > k
      <4>1. i - k \in 1..(Len(l) - k) /\ k + (i - k) = i
        BY <3>3, <1>1, SMTT(20)
      <4>2. b[i - k] = l[k + (i - k)]
        BY <4>1, <1>4
      <4>3. i - k \in DOMAIN b /\ b[i - k] = z
        BY <4>1, <4>2, <3>1, <1>5
      <4> QED BY <4>3 DEF Range
    <3> QED BY <3>2, <3>3, <1>1, SMTT(20)
  <2> QED BY <2>1, <2>2, <2>3, <1>5 DEF Range
<1>10. Range(a) \cap Range(b) = {}
  <2> SUFFICES ASSUME NEW i \in 1..k, NEW j \in 1..(Len(l) - k), a[i] = b[j]
               PROVE  FALSE
    BY <1>5 DEF Range
  <2>1. i \in DOMAIN l /\ k + j \in DOMAIN l /\ l[i] = l[k + j]
    BY <1>1, <1>3, <1>4, SMTT(20)
  <2>2. i = k + j
    BY <2>1 DEF Lists, IsInjective
  <2> QED BY <2>2, <1>1, SMTT(20)
<1> QED BY <1>3, <1>4, <1>6, <1>7, <1>8, <1>9, <1>10 DEF Lists, a, b

\* QTAILQ_REMOVE of the zone at position i.
LEMMA CutAtLists ==
  ASSUME NEW Z, NEW l, Lists(l, Z), NEW i \in 1..Len(l)
  PROVE  /\ Lists(CutAt(l, i), Z \ {l[i]})
         /\ Len(CutAt(l, i)) = Len(l) - 1
<1> DEFINE a == FirstOf(l, i - 1)
           c == FirstOf(l, i)
           b == RestOf(l, i)
<1>1. l \in Seq(Z) /\ Len(l) \in Nat /\ DOMAIN l = 1..Len(l)
  BY LenProperties DEF Lists
<1>2. /\ Lists(a, Range(a)) /\ Len(a) = i - 1
      /\ \A j \in 1..(i - 1) : a[j] = l[j]
      /\ Range(a) \subseteq Z
  <2>1. i - 1 \in 0..Len(l)
    BY <1>1, SMTT(20)
  <2> QED BY <2>1, SplitLists, SMTT(20)
<1>3. /\ Lists(c, Range(c)) /\ Len(c) = i
      /\ \A j \in 1..i : c[j] = l[j]
      /\ Lists(b, Range(b)) /\ Len(b) = Len(l) - i
      /\ Range(c) \cup Range(b) = Z
      /\ Range(c) \cap Range(b) = {}
  <2>1. i \in 0..Len(l)
    BY <1>1, SMTT(20)
  <2> QED BY <2>1, SplitLists, SMTT(20)
<1> HIDE DEF a, b, c
<1>4. DOMAIN a = 1..(i - 1) /\ DOMAIN c = 1..i
  BY <1>2, <1>3, LenProperties DEF Lists
<1>5. Range(c) = Range(a) \cup {l[i]}
  <2>1. \A j \in 1..i : j \in 1..(i - 1) \/ j = i
    BY SMTT(20)
  <2>2. \A j \in 1..(i - 1) : j \in 1..i
    BY SMTT(20)
  <2>3. i \in 1..i
    BY SMTT(20)
  <2> QED BY <2>1, <2>2, <2>3, <1>2, <1>3, <1>4, SMTT(20) DEF Range
<1>6. l[i] \notin Range(a)
  <2> SUFFICES ASSUME NEW j \in 1..(i - 1), l[j] = l[i] PROVE FALSE
    BY <1>2, <1>4 DEF Range
  <2>1. j \in DOMAIN l /\ i \in DOMAIN l
    BY <1>1, SMTT(20)
  <2>2. j = i
    BY <2>1 DEF Lists, IsInjective
  <2> QED BY <2>2, SMTT(20)
<1>7. Range(a) \cap Range(b) = {} /\ Range(a) \cup Range(b) = Z \ {l[i]}
  BY <1>3, <1>5, <1>6
<1>8. Lists(a \o b, Z \ {l[i]}) /\ Len(a \o b) = Len(a) + Len(b)
  <2>1. Lists(a \o b, Range(a) \cup Range(b)) /\ Len(a \o b) = Len(a) + Len(b)
    BY <1>2, <1>3, <1>7, ConcatLists, SMTT(20)
  <2> QED BY <2>1, <1>7, SMTT(20)
<1>9. CutAt(l, i) = a \o b
  BY DEF CutAt, FirstOf, RestOf, a, b
<1>10. (i - 1) + (Len(l) - i) = Len(l) - 1
  BY <1>1, SMTT(20)
<1> QED BY <1>2, <1>3, <1>8, <1>9, <1>10

\* QTAILQ_REMOVE of a zone that is on the list.
LEMMA RemoveLists ==
  ASSUME NEW Z, NEW l, Lists(l, Z), NEW x \in Z
  PROVE  /\ Lists(QTAILQ_REMOVE(l, x), Z \ {x})
         /\ Len(QTAILQ_REMOVE(l, x)) = Len(l) - 1
<1> DEFINE at == {j \in DOMAIN l : l[j] = x}
           i == CHOOSE j \in at : TRUE
<1>1. l \in Seq(Z) /\ Len(l) \in Nat /\ DOMAIN l = 1..Len(l)
  BY LenProperties DEF Lists
<1>2. at # {}
  BY DEF Lists, Range
<1>3. i \in 1..Len(l) /\ l[i] = x
  BY <1>1, <1>2
<1>4. QTAILQ_REMOVE(l, x) = CutAt(l, i)
  BY <1>2 DEF QTAILQ_REMOVE
<1> HIDE DEF i
<1>5. /\ Lists(CutAt(l, i), Z \ {l[i]})
      /\ Len(CutAt(l, i)) = Len(l) - 1
  BY <1>3, CutAtLists
<1> QED BY <1>3, <1>4, <1>5

\* QTAILQ_REMOVE of QTAILQ_FIRST.
LEMMA TailLists ==
  ASSUME NEW Z, NEW l, Lists(l, Z), l # <<>>
  PROVE  /\ Head(l) \in Z /\ Lists(Tail(l), Z \ {Head(l)})
         /\ Len(Tail(l)) = Len(l) - 1
<1>1. l \in Seq(Z) /\ Len(l) \in Nat /\ Len(l) # 0
  BY LenProperties, EmptySeq DEF Lists
<1>2. Head(l) = l[1] /\ 1 \in 1..Len(l)
  BY <1>1, SMTT(20)
<1>3. CutAt(l, 1) = SubSeq(l, 1, 0) \o SubSeq(l, 2, Len(l))
  BY SMTT(20) DEF CutAt
<1>4. SubSeq(l, 1, 0) = <<>>
  BY SubSeqEmpty, SMTT(20)
<1>5. Tail(l) = SubSeq(l, 2, Len(l)) /\ Tail(l) \in Seq(Z) /\ Head(l) \in Z
  BY <1>1, TailIsSubSeq, HeadTailProperties
<1>6. <<>> \o Tail(l) = Tail(l)
  BY <1>5, ConcatEmptySeq
<1>7. CutAt(l, 1) = Tail(l)
  BY <1>3, <1>4, <1>5, <1>6
<1>8. Lists(CutAt(l, 1), Z \ {l[1]}) /\ Len(CutAt(l, 1)) = Len(l) - 1
  BY <1>2, CutAtLists
<1> QED BY <1>2, <1>5, <1>7, <1>8

(***************************************************************************)
(* Facts on the fields of a device, its counters and its zone lists: what  *)
(* linking and unlinking a zone and counting it do.                        *)
(***************************************************************************)


\* A device in the middle of a handler: the counters may be ahead of or
\* behind the lists.
PreDevice == [zs : [Zones -> ZoneState], za : [Zones -> BOOLEAN],
              wp : [Zones -> Nat], w_ptr : [Zones -> Nat],
              list : [ListStates -> Seq(Zones)],
              nr_open : Int, nr_active : Int]

In(d, s) == {z \in Zones : d.zs[z] = s}

\* The lists match the states but for zone z, which is on no list.
ListsBut(d, z) == \A s \in ListStates : Lists(d.list[s], In(d, s) \ {z})

ListsOK(d) == \A s \in ListStates : Lists(d.list[s], In(d, s))

CountersOK(d) ==
  /\ d.nr_open = IF MaxOpen = 0 THEN 0
                 ELSE Len(d.list["IMPLICITLY_OPEN"])
                        + Len(d.list["EXPLICITLY_OPEN"])
  /\ d.nr_active = IF MaxActive = 0 THEN 0
                   ELSE Len(d.list["CLOSED"])
                          + Len(d.list["IMPLICITLY_OPEN"])
                          + Len(d.list["EXPLICITLY_OPEN"])
  /\ d.nr_open <= MaxOpen
  /\ d.nr_active <= MaxActive

Good(d) == d \in PreDevice /\ ListsOK(d) /\ CountersOK(d)

\* e differs from d in nothing but the counters.
SameZones(d, e) == /\ e.zs = d.zs /\ e.za = d.za /\ e.list = d.list
                   /\ e.wp = d.wp /\ e.w_ptr = d.w_ptr

-----------------------------------------------------------------------------
(* Reading and writing the fields of a device.                             *)

\* The types of the fields.
LEMMA Fields ==
  ASSUME NEW d \in PreDevice
  PROVE  /\ d.zs \in [Zones -> ZoneState] /\ d.za \in [Zones -> BOOLEAN]
         /\ d.wp \in [Zones -> Nat] /\ d.w_ptr \in [Zones -> Nat]
         /\ d.list \in [ListStates -> Seq(Zones)]
         /\ d.nr_open \in Int /\ d.nr_active \in Int
BY DEF PreDevice

\* An assignment to zs changes nothing else.
LEMMA SetZs ==
  ASSUME NEW d \in PreDevice, NEW v \in [Zones -> ZoneState]
  PROVE  LET e == [d EXCEPT !.zs = v]
         IN /\ e \in PreDevice /\ e.zs = v
            /\ e.za = d.za /\ e.wp = d.wp /\ e.w_ptr = d.w_ptr
            /\ e.list = d.list /\ e.nr_open = d.nr_open /\ e.nr_active = d.nr_active
<1>1. [d EXCEPT !.zs = v] \in PreDevice
  BY DEF PreDevice
<1> QED BY <1>1 DEF PreDevice

\* An assignment to za changes nothing else.
LEMMA SetZa ==
  ASSUME NEW d \in PreDevice, NEW v \in [Zones -> BOOLEAN]
  PROVE  LET e == [d EXCEPT !.za = v]
         IN /\ e \in PreDevice /\ e.za = v
            /\ e.zs = d.zs /\ e.wp = d.wp /\ e.w_ptr = d.w_ptr
            /\ e.list = d.list /\ e.nr_open = d.nr_open /\ e.nr_active = d.nr_active
<1>1. [d EXCEPT !.za = v] \in PreDevice
  BY DEF PreDevice
<1> QED BY <1>1 DEF PreDevice

\* An assignment to wp changes nothing else.
LEMMA SetWp ==
  ASSUME NEW d \in PreDevice, NEW v \in [Zones -> Nat]
  PROVE  LET e == [d EXCEPT !.wp = v]
         IN /\ e \in PreDevice /\ e.wp = v
            /\ e.zs = d.zs /\ e.za = d.za /\ e.w_ptr = d.w_ptr
            /\ e.list = d.list /\ e.nr_open = d.nr_open /\ e.nr_active = d.nr_active
<1>1. [d EXCEPT !.wp = v] \in PreDevice
  BY DEF PreDevice
<1> QED BY <1>1 DEF PreDevice

\* An assignment to w_ptr changes nothing else.
LEMMA SetWptr ==
  ASSUME NEW d \in PreDevice, NEW v \in [Zones -> Nat]
  PROVE  LET e == [d EXCEPT !.w_ptr = v]
         IN /\ e \in PreDevice /\ e.w_ptr = v
            /\ e.zs = d.zs /\ e.za = d.za /\ e.wp = d.wp
            /\ e.list = d.list /\ e.nr_open = d.nr_open /\ e.nr_active = d.nr_active
<1>1. [d EXCEPT !.w_ptr = v] \in PreDevice
  BY DEF PreDevice
<1> QED BY <1>1 DEF PreDevice

\* An assignment to list changes nothing else.
LEMMA SetList ==
  ASSUME NEW d \in PreDevice, NEW v \in [ListStates -> Seq(Zones)]
  PROVE  LET e == [d EXCEPT !.list = v]
         IN /\ e \in PreDevice /\ e.list = v
            /\ e.zs = d.zs /\ e.za = d.za /\ e.wp = d.wp
            /\ e.w_ptr = d.w_ptr /\ e.nr_open = d.nr_open /\ e.nr_active = d.nr_active
<1>1. [d EXCEPT !.list = v] \in PreDevice
  BY DEF PreDevice
<1> QED BY <1>1 DEF PreDevice

\* An assignment to nr_open changes nothing else.
LEMMA SetOpen ==
  ASSUME NEW d \in PreDevice, NEW v \in Int
  PROVE  LET e == [d EXCEPT !.nr_open = v]
         IN /\ e \in PreDevice /\ e.nr_open = v
            /\ e.zs = d.zs /\ e.za = d.za /\ e.wp = d.wp
            /\ e.w_ptr = d.w_ptr /\ e.list = d.list /\ e.nr_active = d.nr_active
<1>1. [d EXCEPT !.nr_open = v] \in PreDevice
  BY DEF PreDevice
<1> QED BY <1>1 DEF PreDevice

\* An assignment to nr_active changes nothing else.
LEMMA SetActive ==
  ASSUME NEW d \in PreDevice, NEW v \in Int
  PROVE  LET e == [d EXCEPT !.nr_active = v]
         IN /\ e \in PreDevice /\ e.nr_active = v
            /\ e.zs = d.zs /\ e.za = d.za /\ e.wp = d.wp
            /\ e.w_ptr = d.w_ptr /\ e.list = d.list /\ e.nr_open = d.nr_open
<1>1. [d EXCEPT !.nr_active = v] \in PreDevice
  BY DEF PreDevice
<1> QED BY <1>1 DEF PreDevice

-----------------------------------------------------------------------------
(* The counters.                                                           *)

\* e is d with the counters that have a limit moved by o and by a.
Counted(d, e, o, a) ==
  /\ e \in PreDevice /\ SameZones(d, e)
  /\ e.nr_open = d.nr_open + (IF MaxOpen = 0 THEN 0 ELSE o)
  /\ e.nr_active = d.nr_active + (IF MaxActive = 0 THEN 0 ELSE a)

\* The four zns_aor_* functions move one counter by one, if it has a limit.
LEMMA AorSteps ==
  ASSUME NEW d \in PreDevice
  PROVE  /\ Counted(d, zns_aor_inc_open(d), 1, 0)
         /\ Counted(d, zns_aor_dec_open(d), -1, 0)
         /\ Counted(d, zns_aor_inc_active(d), 0, 1)
         /\ Counted(d, zns_aor_dec_active(d), 0, -1)
<1>1. /\ d.nr_open \in Int /\ d.nr_open + 1 \in Int /\ d.nr_open + (-1) \in Int
      /\ d.nr_open - 1 = d.nr_open + (-1) /\ d.nr_open + 0 = d.nr_open
      /\ d.nr_active \in Int /\ d.nr_active + 1 \in Int
      /\ d.nr_active + (-1) \in Int
      /\ d.nr_active - 1 = d.nr_active + (-1) /\ d.nr_active + 0 = d.nr_active
  BY Fields, SMTT(20)
<1>2. Counted(d, zns_aor_inc_open(d), 1, 0)
  BY <1>1, SetOpen, SMTT(20) DEF zns_aor_inc_open, Counted, SameZones
<1>3. Counted(d, zns_aor_dec_open(d), -1, 0)
  BY <1>1, SetOpen, SMTT(20) DEF zns_aor_dec_open, Counted, SameZones
<1>4. Counted(d, zns_aor_inc_active(d), 0, 1)
  BY <1>1, SetActive, SMTT(20) DEF zns_aor_inc_active, Counted, SameZones
<1>5. Counted(d, zns_aor_dec_active(d), 0, -1)
  BY <1>1, SetActive, SMTT(20) DEF zns_aor_dec_active, Counted, SameZones
<1> QED BY <1>2, <1>3, <1>4, <1>5

\* Counting twice.
LEMMA CountedTwice ==
  ASSUME NEW d \in PreDevice, NEW e, NEW f, NEW o \in Int, NEW a \in Int,
         NEW p \in Int, NEW b \in Int, Counted(d, e, o, a), Counted(e, f, p, b)
  PROVE  Counted(d, f, o + p, a + b)
<1>1. /\ d.nr_open \in Int /\ d.nr_active \in Int
      /\ e.nr_open \in Int /\ e.nr_active \in Int
  BY Fields DEF Counted
<1>2. SameZones(d, f)
  BY DEF Counted, SameZones
<1>3. f.nr_open = d.nr_open + (IF MaxOpen = 0 THEN 0 ELSE o + p)
  BY <1>1, SMTT(20) DEF Counted
<1>4. f.nr_active = d.nr_active + (IF MaxActive = 0 THEN 0 ELSE a + b)
  BY <1>1, SMTT(20) DEF Counted
<1> QED BY <1>2, <1>3, <1>4 DEF Counted

\* A device counts as itself.
LEMMA CountedSame ==
  ASSUME NEW d \in PreDevice
  PROVE  Counted(d, d, 0, 0)
BY Fields, SMTT(20) DEF Counted, SameZones

InOpen(s) == IF s \in OpenStates THEN 1 ELSE 0
InActive(s) == IF s \in ActiveStates THEN 1 ELSE 0

\* Sums of the changes a zone makes to a counter.
LEMMA SmallSums == 0 - 0 = 0 /\ 0 - 1 = -1 /\ 0 + 1 = 1 /\ 1 + 0 = 1 /\ 0 + (-1) = -1
BY SMTT(20)

\* A zone that leaves the active states gives back what it holds.
LEMMA Released ==
  ASSUME NEW d \in PreDevice, NEW z \in Zones
  PROVE  Counted(d, ReleaseResources(d, z), 0 - InOpen(d.zs[z]),
                 0 - InActive(d.zs[z]))
<1> DEFINE e == IF d.zs[z] \in OpenStates THEN zns_aor_dec_open(d) ELSE d
<1>1. Counted(d, e, 0 - InOpen(d.zs[z]), 0)
  BY AorSteps, CountedSame, SmallSums DEF InOpen
<1>2. e \in PreDevice
  BY <1>1 DEF Counted
<1> HIDE DEF e
<1>3. Counted(e, zns_aor_dec_active(e), 0, -1)
  BY <1>2, AorSteps
<1>4. ReleaseResources(d, z) = IF d.zs[z] \in ActiveStates
                               THEN zns_aor_dec_active(e) ELSE e
  BY DEF ReleaseResources, e
<1>5. 0 - InOpen(d.zs[z]) \in Int /\ 0 - InOpen(d.zs[z]) + 0 = 0 - InOpen(d.zs[z])
  BY SMTT(20) DEF InOpen
<1>6. Counted(d, zns_aor_dec_active(e), 0 - InOpen(d.zs[z]), -1)
  <2>1. Counted(d, zns_aor_dec_active(e), 0 - InOpen(d.zs[z]) + 0, 0 + (-1))
    BY <1>1, <1>3, <1>5, CountedTwice, SMTT(20)
  <2> QED BY <2>1, <1>5, SmallSums
<1> QED BY <1>1, <1>4, <1>6, SmallSums DEF InActive

-----------------------------------------------------------------------------
(* The lists.                                                              *)

\* The lists depend on nothing but the states and the lists.
LEMMA SameLists ==
  ASSUME NEW d, NEW e, SameZones(d, e)
  PROVE  /\ ListsOK(d) => ListsOK(e)
         /\ \A z \in Zones : ListsBut(d, z) => ListsBut(e, z)
BY SMTT(20) DEF SameZones, ListsOK, ListsBut, In

\* The lengths are natural numbers.
LEMMA Lengths ==
  ASSUME NEW d \in PreDevice
  PROVE  \A s \in ListStates : Len(d.list[s]) \in Nat
BY Fields, LenProperties

\* Zone z is on no list of e, and otherwise e is d.
Off(d, e, z) ==
  /\ e \in PreDevice /\ ListsBut(e, z)
  /\ e.zs = d.zs /\ e.za = d.za /\ e.wp = d.wp /\ e.w_ptr = d.w_ptr
  /\ e.nr_open = d.nr_open /\ e.nr_active = d.nr_active
  /\ \A s \in ListStates :
       Len(e.list[s]) = IF s = d.zs[z] THEN Len(d.list[s]) - 1
                                       ELSE Len(d.list[s])

\* Replacing the list of z's state by one that lacks z.
LEMMA TakenOff ==
  ASSUME NEW d \in PreDevice, ListsOK(d), NEW z \in Zones,
         d.zs[z] \in ListStates, NEW r, Lists(r, In(d, d.zs[z]) \ {z}),
         Len(r) = Len(d.list[d.zs[z]]) - 1
  PROVE  Off(d, [d EXCEPT !.list[d.zs[z]] = r], z)
<1> DEFINE e == [d EXCEPT !.list[d.zs[z]] = r]
           l == [d.list EXCEPT ![d.zs[z]] = r]
<1>1. d.list \in [ListStates -> Seq(Zones)]
  BY Fields
<1>2. r \in Seq(Zones)
  BY SeqMonotonic DEF Lists, In
<1>3. l \in [ListStates -> Seq(Zones)]
  BY <1>1, <1>2
<1>4. \A s \in ListStates : l[s] = IF s = d.zs[z] THEN r ELSE d.list[s]
  BY <1>1
<1>5. e = [d EXCEPT !.list = l]
  OBVIOUS
<1> HIDE DEF l, e
<1>6. /\ e \in PreDevice /\ e.list = l
      /\ e.zs = d.zs /\ e.za = d.za /\ e.wp = d.wp /\ e.w_ptr = d.w_ptr
      /\ e.nr_open = d.nr_open /\ e.nr_active = d.nr_active
  BY <1>3, <1>5, SetList
<1>7. \A s \in ListStates : In(e, s) = In(d, s)
  BY <1>6 DEF In
<1>8. \A s \in ListStates : s # d.zs[z] => In(d, s) \ {z} = In(d, s)
  BY DEF In
<1>9. ListsBut(e, z)
  BY <1>4, <1>6, <1>7, <1>8 DEF ListsBut, ListsOK
<1>10. \A s \in ListStates :
         Len(e.list[s]) = IF s = d.zs[z] THEN Len(d.list[s]) - 1
                                         ELSE Len(d.list[s])
  BY <1>4, <1>6
<1> QED BY <1>6, <1>9, <1>10 DEF Off, e

\* Unlinking a zone takes it off the list of its state and off no other.
LEMMA Unlinked ==
  ASSUME NEW d \in PreDevice, ListsOK(d), NEW z \in Zones
  PROVE  Off(d, Unlink(d, z), z)
<1> DEFINE r == QTAILQ_REMOVE(d.list[d.zs[z]], z)
<1>1. CASE d.zs[z] \notin ListStates
  <2>1. Unlink(d, z) = d
    BY <1>1 DEF Unlink
  <2>2. \A s \in ListStates : In(d, s) \ {z} = In(d, s) /\ s # d.zs[z]
    BY <1>1 DEF In
  <2>3. ListsBut(d, z)
    BY <2>2 DEF ListsBut, ListsOK
  <2> QED BY <2>1, <2>2, <2>3 DEF Off
<1>2. CASE d.zs[z] \in ListStates
  <2>1. Lists(d.list[d.zs[z]], In(d, d.zs[z])) /\ z \in In(d, d.zs[z])
    BY <1>2 DEF ListsOK, In
  <2>2. Lists(r, In(d, d.zs[z]) \ {z}) /\ Len(r) = Len(d.list[d.zs[z]]) - 1
    BY <2>1, RemoveLists
  <2>3. Unlink(d, z) = [d EXCEPT !.list[d.zs[z]] = r]
    BY <1>2 DEF Unlink
  <2> HIDE DEF r
  <2> QED BY <2>2, <2>3, <1>2, TakenOff, SMTT(20)
<1> QED BY <1>1, <1>2

\* Zone z, which was on no list of d, is linked by its new state s in e.
On(d, e, z, s) ==
  /\ e \in PreDevice /\ ListsOK(e)
  /\ e.zs = [d.zs EXCEPT ![z] = s] /\ e.wp = d.wp /\ e.w_ptr = d.w_ptr
  /\ e.nr_open = d.nr_open /\ e.nr_active = d.nr_active
  /\ \A t \in ListStates :
       Len(e.list[t]) = IF t = s THEN Len(d.list[t]) + 1 ELSE Len(d.list[t])

\* Replacing the state of z, and the list of that state by one that has z.
LEMMA PutOn ==
  ASSUME NEW d \in PreDevice, NEW z \in Zones, ListsBut(d, z),
         NEW s \in ZoneState, NEW e \in PreDevice, NEW l,
         e.zs = [d.zs EXCEPT ![z] = s], e.wp = d.wp, e.w_ptr = d.w_ptr,
         e.nr_open = d.nr_open, e.nr_active = d.nr_active,
         \A t \in ListStates : t # s => e.list[t] = d.list[t],
         s \in ListStates =>
           /\ e.list[s] = l
           /\ Lists(l, (In(d, s) \ {z}) \cup {z})
           /\ Len(l) = Len(d.list[s]) + 1
  PROVE  On(d, e, z, s)
<1>1. d.zs \in [Zones -> ZoneState]
  BY Fields
<1>2. \A t \in ListStates : t # s => In(e, t) = In(d, t) \ {z}
  BY <1>1 DEF In
<1>3. In(e, s) = (In(d, s) \ {z}) \cup {z}
  BY <1>1 DEF In
<1>4. ListsOK(e)
  BY <1>2, <1>3 DEF ListsOK, ListsBut
<1> QED BY <1>4 DEF On

\* Linking a zone that is on no list makes the lists match again.
LEMMA Linked ==
  ASSUME NEW d \in PreDevice, NEW z \in Zones, ListsBut(d, z),
         NEW s \in ZoneState
  PROVE  On(d, LinkAs(d, z, s), z, s)
<1> DEFINE f == [d.zs EXCEPT ![z] = s]
           c == [d EXCEPT !.zs = f]
           e == LinkAs(d, z, s)
           l == Append(d.list[s], z)
<1>1. f \in [Zones -> ZoneState] /\ d.za \in [Zones -> BOOLEAN]
      /\ d.list \in [ListStates -> Seq(Zones)]
  BY Fields
<1> HIDE DEF f
<1>2. /\ c \in PreDevice /\ c.zs = f /\ c.za = d.za /\ c.wp = d.wp
      /\ c.w_ptr = d.w_ptr /\ c.list = d.list
      /\ c.nr_open = d.nr_open /\ c.nr_active = d.nr_active
  BY <1>1, SetZs
<1>3. CASE s \in ListStates
  <2> DEFINE k == [d.list EXCEPT ![s] = l]
  <2>1. Lists(l, (In(d, s) \ {z}) \cup {z}) /\ Len(l) = Len(d.list[s]) + 1
    <3>1. Lists(d.list[s], In(d, s) \ {z}) /\ z \notin In(d, s) \ {z}
      BY <1>3 DEF ListsBut
    <3> QED BY <3>1, AppendLists
  <2>2. l \in Seq(Zones)
    BY <1>1, <1>3, AppendProperties
  <2> HIDE DEF l
  <2>3. k \in [ListStates -> Seq(Zones)]
    BY <2>2, <1>1
  <2>4. \A t \in ListStates : k[t] = IF t = s THEN l ELSE d.list[t]
    BY <1>1
  <2>5. e = [c EXCEPT !.list = k]
    <3>1. e = [c EXCEPT !.list[s] = Append(@, z)]
      BY <1>3 DEF LinkAs, f
    <3> HIDE DEF c
    <3>2. e = [c EXCEPT !.list = [c.list EXCEPT ![s] = Append(c.list[s], z)]]
      BY <3>1
    <3> QED BY <3>2, <1>2 DEF l
  <2> HIDE DEF e, c, k
  <2>6. /\ e \in PreDevice /\ e.list = k /\ e.zs = f
        /\ e.wp = d.wp /\ e.w_ptr = d.w_ptr
        /\ e.nr_open = d.nr_open /\ e.nr_active = d.nr_active
    BY <2>3, <2>5, <1>2, SetList
  <2>7. On(d, e, z, s)
    BY <2>1, <2>4, <2>6, PutOn DEF f
  <2> QED BY <2>7 DEF e
<1>4. CASE s \notin ListStates
  <2>1. e = c \/ \E g \in [Zones -> BOOLEAN] : e = [c EXCEPT !.za = g]
    <3>1. e = IF s = "READ_ONLY" THEN c ELSE [c EXCEPT !.za[z] = FALSE]
      BY <1>4 DEF LinkAs, f
    <3> HIDE DEF c
    <3>2. [c EXCEPT !.za[z] = FALSE] = [c EXCEPT !.za = [c.za EXCEPT ![z] = FALSE]]
      OBVIOUS
    <3>3. [c.za EXCEPT ![z] = FALSE] \in [Zones -> BOOLEAN]
      BY <1>1, <1>2
    <3> QED BY <3>1, <3>2, <3>3
  <2> HIDE DEF e, c
  <2>2. /\ e \in PreDevice /\ e.list = d.list /\ e.zs = f
        /\ e.wp = d.wp /\ e.w_ptr = d.w_ptr
        /\ e.nr_open = d.nr_open /\ e.nr_active = d.nr_active
    <3>1. CASE e = c
      BY <3>1, <1>2
    <3>2. ASSUME NEW g \in [Zones -> BOOLEAN], e = [c EXCEPT !.za = g]
          PROVE  /\ e \in PreDevice /\ e.list = c.list /\ e.zs = c.zs
                 /\ e.wp = c.wp /\ e.w_ptr = c.w_ptr
                 /\ e.nr_open = c.nr_open /\ e.nr_active = c.nr_active
      BY <3>2, <1>2, SetZa
    <3> QED BY <2>1, <1>2, <3>1, <3>2
  <2>3. On(d, e, z, s)
    BY <2>2, <1>4, PutOn DEF f
  <2> QED BY <2>3 DEF e
<1> QED BY <1>3, <1>4

\* The lists of e are as long as they are when zone z of d moves to state s.
Shifted(d, e, z, s) ==
  \A t \in ListStates :
    Len(e.list[t]) = Len(d.list[t]) - (IF t = d.zs[z] THEN 1 ELSE 0)
                                    + (IF t = s THEN 1 ELSE 0)

\* Zone z, in state s in e, was in another state in d; the counters are d's.
Moved(d, e, z, s) ==
  /\ e \in PreDevice /\ ListsOK(e) /\ Shifted(d, e, z, s)
  /\ e.zs = [d.zs EXCEPT ![z] = s] /\ e.wp = d.wp /\ e.w_ptr = d.w_ptr
  /\ e.nr_open = d.nr_open /\ e.nr_active = d.nr_active

\* zns_assign_zone_state keeps the lists matching the states.
LEMMA Assigned ==
  ASSUME NEW d \in PreDevice, ListsOK(d), NEW z \in Zones, NEW s \in ZoneState
  PROVE  Moved(d, zns_assign_zone_state(d, z, s), z, s)
<1> DEFINE u == Unlink(d, z)
           e == LinkAs(u, z, s)
<1>1. Off(d, u, z)
  BY Unlinked
<1>2. u \in PreDevice /\ ListsBut(u, z)
  BY <1>1 DEF Off
<1> HIDE DEF u
<1>3. On(u, e, z, s)
  BY <1>2, Linked
<1>4. zns_assign_zone_state(d, z, s) = e
  BY DEF zns_assign_zone_state, u
<1> HIDE DEF e
<1>5. \A t \in ListStates : Len(d.list[t]) \in Nat
  BY Lengths
<1>6. Shifted(d, e, z, s)
  <2> SUFFICES ASSUME NEW t \in ListStates
               PROVE  Len(e.list[t]) = Len(d.list[t])
                                         - (IF t = d.zs[z] THEN 1 ELSE 0)
                                         + (IF t = s THEN 1 ELSE 0)
    BY DEF Shifted
  <2>1. Len(u.list[t]) = Len(d.list[t]) - (IF t = d.zs[z] THEN 1 ELSE 0)
    <3>1. Len(u.list[t]) = IF t = d.zs[z] THEN Len(d.list[t]) - 1
                                          ELSE Len(d.list[t])
      BY <1>1 DEF Off
    <3>2. Len(d.list[t]) \in Nat
      BY <1>5
    <3> QED BY <3>1, <3>2, SMTT(20)
  <2>2. Len(e.list[t]) = Len(u.list[t]) + (IF t = s THEN 1 ELSE 0)
    <3>1. Len(u.list[t]) \in Nat
      BY <1>2, Lengths
    <3>2. Len(e.list[t]) = IF t = s THEN Len(u.list[t]) + 1
                                    ELSE Len(u.list[t])
      BY <1>3 DEF On
    <3>3. CASE t = s
      BY <3>1, <3>2, <3>3
    <3>4. CASE t # s
      BY <3>1, <3>2, <3>4, SMTT(20)
    <3> QED BY <3>3, <3>4
  <2> QED BY <2>1, <2>2
<1> QED BY <1>1, <1>3, <1>4, <1>6 DEF On, Off, Moved


(* The handlers.                                                           *)

\* The counters of e are those of d after zone z moved to state s, and
\* respect the limits.
Charged(d, e, z, s) ==
  /\ e.nr_open = d.nr_open + (IF MaxOpen = 0 THEN 0
                              ELSE InOpen(s) - InOpen(d.zs[z]))
  /\ e.nr_active = d.nr_active + (IF MaxActive = 0 THEN 0
                                  ELSE InActive(s) - InActive(d.zs[z]))
  /\ e.nr_open <= MaxOpen
  /\ e.nr_active <= MaxActive

\* If the lists and the counters follow one zone's move they still agree.
LEMMA Balanced ==
  ASSUME NEW d, Good(d), NEW z \in Zones, NEW s \in ZoneState,
         NEW e \in PreDevice, ListsOK(e), Shifted(d, e, z, s),
         Charged(d, e, z, s)
  PROVE  Good(e)
<1> DEFINE i(x) == Len(x.list["IMPLICITLY_OPEN"])
           x(y) == Len(y.list["EXPLICITLY_OPEN"])
           c(y) == Len(y.list["CLOSED"])
<1>1. d \in PreDevice /\ CountersOK(d)
  BY DEF Good
<1>2. i(d) \in Nat /\ x(d) \in Nat /\ c(d) \in Nat
  BY <1>1, Lengths DEF ListStates, ActiveStates, OpenStates
<1>3. d.zs[z] \in ZoneState
  BY <1>1, Fields
<1> DEFINE o == d.zs[z]
           one(t, u) == IF t = u THEN 1 ELSE 0
<1>4. /\ i(e) = i(d) - one("IMPLICITLY_OPEN", o) + one("IMPLICITLY_OPEN", s)
      /\ x(e) = x(d) - one("EXPLICITLY_OPEN", o) + one("EXPLICITLY_OPEN", s)
      /\ c(e) = c(d) - one("CLOSED", o) + one("CLOSED", s)
  BY DEF Shifted, ListStates, ActiveStates, OpenStates
<1>5. \A t \in ZoneState :
        /\ InOpen(t) = one("IMPLICITLY_OPEN", t) + one("EXPLICITLY_OPEN", t)
        /\ InActive(t) = one("CLOSED", t) + one("IMPLICITLY_OPEN", t)
                           + one("EXPLICITLY_OPEN", t)
  BY SMTT(20) DEF InOpen, InActive, OpenStates, ActiveStates, ZoneState
<1>6. /\ i(e) + x(e) = i(d) + x(d) + (InOpen(s) - InOpen(o))
      /\ c(e) + i(e) + x(e) = c(d) + i(d) + x(d) + (InActive(s) - InActive(o))
  <2>1. \A t, u : one(t, u) \in Int
    BY SMTT(20)
  <2> HIDE DEF i, x, c, o, one
  <2>2. /\ InOpen(s) = one("IMPLICITLY_OPEN", s) + one("EXPLICITLY_OPEN", s)
        /\ InActive(s) = one("CLOSED", s) + one("IMPLICITLY_OPEN", s)
                           + one("EXPLICITLY_OPEN", s)
        /\ InOpen(o) = one("IMPLICITLY_OPEN", o) + one("EXPLICITLY_OPEN", o)
        /\ InActive(o) = one("CLOSED", o) + one("IMPLICITLY_OPEN", o)
                           + one("EXPLICITLY_OPEN", o)
    BY <1>3, <1>5 DEF o
  <2> QED BY <1>2, <1>4, <2>1, <2>2, SMTT(20)
<1>7. InOpen(s) - InOpen(o) \in Int /\ InActive(s) - InActive(o) \in Int
  BY SMTT(20) DEF InOpen, InActive
<1>8. /\ d.nr_open = IF MaxOpen = 0 THEN 0 ELSE i(d) + x(d)
      /\ d.nr_active = IF MaxActive = 0 THEN 0 ELSE c(d) + i(d) + x(d)
  BY <1>1 DEF CountersOK
<1>9. /\ e.nr_open = d.nr_open + (IF MaxOpen = 0 THEN 0
                                  ELSE InOpen(s) - InOpen(o))
      /\ e.nr_active = d.nr_active + (IF MaxActive = 0 THEN 0
                                      ELSE InActive(s) - InActive(o))
  BY DEF Charged
<1> HIDE DEF i, x, c, o
<1>10. e.nr_open = IF MaxOpen = 0 THEN 0 ELSE i(e) + x(e)
  BY <1>2, <1>6, <1>7, <1>8, <1>9, SMTT(20)
<1>11. e.nr_active = IF MaxActive = 0 THEN 0 ELSE c(e) + i(e) + x(e)
  BY <1>2, <1>6, <1>7, <1>8, <1>9, SMTT(20)
<1> QED BY <1>10, <1>11 DEF Good, CountersOK, Charged, i, x, c

\* zns_assign_zone_state on a device whose counters have been moved already.
LEMMA Transition ==
  ASSUME NEW d, Good(d), NEW z \in Zones, NEW s \in ZoneState,
         NEW c \in PreDevice, c.zs = d.zs, c.list = d.list, Charged(d, c, z, s)
  PROVE  LET e == zns_assign_zone_state(c, z, s)
         IN /\ Good(e) /\ e.wp = c.wp /\ e.w_ptr = c.w_ptr
            /\ e.zs = [d.zs EXCEPT ![z] = s]
<1> DEFINE e == zns_assign_zone_state(c, z, s)
<1>1. ListsOK(c)
  BY DEF Good, ListsOK, In
<1>2. Moved(c, e, z, s)
  BY <1>1, Assigned
<1> HIDE DEF e
<1>3. Shifted(d, e, z, s) /\ Charged(d, e, z, s)
  BY <1>2 DEF Moved, Shifted, Charged
<1>4. Good(e)
  BY <1>2, <1>3, Balanced DEF Moved
<1> QED BY <1>2, <1>4 DEF Moved, e

\* What is known of the counters of a good device.
LEMMA Limits ==
  ASSUME NEW d, Good(d)
  PROVE  /\ d \in PreDevice /\ d.nr_open \in Int /\ d.nr_active \in Int
         /\ d.nr_open <= MaxOpen /\ d.nr_active <= MaxActive
         /\ MaxOpen \in Nat /\ MaxActive \in Nat
<1>1. d \in PreDevice
  BY DEF Good
<1>2. MaxOpen \in Nat /\ MaxActive \in Nat
  BY GeometryAssumption, SMTT(20)
<1> QED BY <1>1, <1>2, Fields DEF Good, CountersOK

\* zns_aor_check succeeds only within the limits.
LEMMA Checked ==
  ASSUME NEW d \in PreDevice, NEW act \in Nat, NEW opn \in Nat,
         zns_aor_check(d, act, opn) = "SUCCESS"
  PROVE  /\ MaxActive # 0 => d.nr_active + act <= MaxActive
         /\ MaxOpen # 0 => d.nr_open + opn <= MaxOpen
<1>1. d.nr_active + act \in Int /\ d.nr_open + opn \in Int
  BY Fields, SMTT(20)
<1>2. ~(MaxActive # 0 /\ d.nr_active + act > MaxActive)
  BY DEF zns_aor_check
<1>3. ~(MaxOpen # 0 /\ d.nr_open + opn > MaxOpen)
  BY <1>2 DEF zns_aor_check
<1> QED BY <1>1, <1>2, <1>3, GeometryAssumption, SMTT(20)

\* Counting what a move to state s costs keeps within limits that were
\* checked, or that the move cannot reach.
LEMMA ChargedBy ==
  ASSUME NEW d, Good(d), NEW z \in Zones, NEW s \in ZoneState, NEW c,
         NEW o \in Int, NEW a \in Int,
         c.nr_open = d.nr_open + (IF MaxOpen = 0 THEN 0 ELSE o),
         c.nr_active = d.nr_active + (IF MaxActive = 0 THEN 0 ELSE a),
         o = InOpen(s) - InOpen(d.zs[z]), a = InActive(s) - InActive(d.zs[z]),
         o <= 0 \/ (MaxOpen # 0 => d.nr_open + o <= MaxOpen),
         a <= 0 \/ (MaxActive # 0 => d.nr_active + a <= MaxActive)
  PROVE  Charged(d, c, z, s)
<1>1. /\ d.nr_open \in Int /\ d.nr_active \in Int
      /\ d.nr_open <= MaxOpen /\ d.nr_active <= MaxActive
      /\ MaxOpen \in Nat /\ MaxActive \in Nat
  BY Limits
<1>2. c.nr_open <= MaxOpen
  BY <1>1, SMTT(20)
<1>3. c.nr_active <= MaxActive
  BY <1>1, SMTT(20)
<1> QED BY <1>2, <1>3 DEF Charged

\* The same for a device that differs in its counters only.
LEMMA CountedCharged ==
  ASSUME NEW d, Good(d), NEW z \in Zones, NEW s \in ZoneState, NEW c,
         NEW o \in Int, NEW a \in Int, Counted(d, c, o, a),
         o = InOpen(s) - InOpen(d.zs[z]), a = InActive(s) - InActive(d.zs[z]),
         o <= 0 \/ (MaxOpen # 0 => d.nr_open + o <= MaxOpen),
         a <= 0 \/ (MaxActive # 0 => d.nr_active + a <= MaxActive)
  PROVE  Charged(d, c, z, s) /\ c \in PreDevice /\ SameZones(d, c)
<1>1. /\ c.nr_open = d.nr_open + (IF MaxOpen = 0 THEN 0 ELSE o)
      /\ c.nr_active = d.nr_active + (IF MaxActive = 0 THEN 0 ELSE a)
  BY DEF Counted
<1>2. Charged(d, c, z, s)
  BY <1>1, ChargedBy
<1> QED BY <1>2 DEF Counted

\* Zone z moves to state s and nothing else changes.
Transits(d, e, z, s) ==
  /\ Good(e) /\ e.zs = [d.zs EXCEPT ![z] = s]
  /\ e.wp = d.wp /\ e.w_ptr = d.w_ptr

\* A handler that counts and then assigns the state.
LEMMA CountAndAssign ==
  ASSUME NEW d, Good(d), NEW z \in Zones, NEW s \in ZoneState, NEW c,
         NEW o \in Int, NEW a \in Int, Counted(d, c, o, a),
         o = InOpen(s) - InOpen(d.zs[z]), a = InActive(s) - InActive(d.zs[z]),
         o <= 0 \/ (MaxOpen # 0 => d.nr_open + o <= MaxOpen),
         a <= 0 \/ (MaxActive # 0 => d.nr_active + a <= MaxActive)
  PROVE  Transits(d, zns_assign_zone_state(c, z, s), z, s)
<1>1. Charged(d, c, z, s) /\ c \in PreDevice /\ SameZones(d, c)
  BY CountedCharged
<1>2. c.zs = d.zs /\ c.list = d.list /\ c.wp = d.wp /\ c.w_ptr = d.w_ptr
  BY <1>1 DEF SameZones
<1> QED BY <1>1, <1>2, Transition, SMTT(20) DEF Transits

\* What the states hold.
LEMMA Holds ==
  /\ InOpen("EMPTY") = 0 /\ InActive("EMPTY") = 0
  /\ InOpen("CLOSED") = 0 /\ InActive("CLOSED") = 1
  /\ InOpen("IMPLICITLY_OPEN") = 1 /\ InActive("IMPLICITLY_OPEN") = 1
  /\ InOpen("EXPLICITLY_OPEN") = 1 /\ InActive("EXPLICITLY_OPEN") = 1
  /\ InOpen("FULL") = 0 /\ InActive("FULL") = 0
  /\ {"EMPTY", "CLOSED", "IMPLICITLY_OPEN", "EXPLICITLY_OPEN", "FULL",
      "OFFLINE"} \subseteq ZoneState
BY DEF InOpen, InActive, OpenStates, ActiveStates, ZoneState

\* zns_open_zone takes the resources it has checked.
LEMMA Opens ==
  ASSUME NEW d, Good(d), NEW z \in Zones
  PROVE  LET e == zns_open_zone(d, z)
         IN \/ e = d
            \/ /\ Transits(d, e, z, "EXPLICITLY_OPEN")
               /\ d.zs[z] \in {"EMPTY", "CLOSED", "IMPLICITLY_OPEN"}
<1> DEFINE e == zns_open_zone(d, z)
           g == zns_aor_inc_active(d)
<1>1. d \in PreDevice /\ "EXPLICITLY_OPEN" \in ZoneState
  BY Limits, Holds
<1>2. SUFFICES ASSUME zns_open_zone_status(d, z) = "SUCCESS",
                      d.zs[z] # "EXPLICITLY_OPEN"
               PROVE  /\ Transits(d, e, z, "EXPLICITLY_OPEN")
                      /\ d.zs[z] \in {"EMPTY", "CLOSED", "IMPLICITLY_OPEN"}
  BY DEF zns_open_zone
<1>3. d.zs[z] \in {"EMPTY", "CLOSED", "IMPLICITLY_OPEN"}
  BY <1>2 DEF zns_open_zone_status, OpenStates
<1>4. CASE d.zs[z] = "EMPTY"
  <2>1. /\ zns_aor_check(d, 1, 0) = "SUCCESS"
        /\ zns_aor_check(g, 0, 1) = "SUCCESS"
    BY <1>2, <1>4 DEF zns_open_zone_status, OpenStates
  <2>2. e = zns_assign_zone_state(zns_aor_inc_open(g), z, "EXPLICITLY_OPEN")
    BY <1>2, <1>4 DEF zns_open_zone
  <2>3. Counted(d, g, 0, 1)
    BY <1>1, AorSteps
  <2> HIDE DEF g, e
  <2>4. g \in PreDevice /\ g.nr_open = d.nr_open
    BY <2>3, Limits, SMTT(20) DEF Counted
  <2>5. Counted(g, zns_aor_inc_open(g), 1, 0)
    BY <2>4, AorSteps
  <2>6. Counted(d, zns_aor_inc_open(g), 1, 1)
    <3>1. Counted(d, zns_aor_inc_open(g), 0 + 1, 1 + 0)
      BY <1>1, <2>3, <2>5, CountedTwice, SMTT(20)
    <3> QED BY <3>1, SmallSums
  <2>7. /\ MaxActive # 0 => d.nr_active + 1 <= MaxActive
        /\ MaxOpen # 0 => d.nr_open + 1 <= MaxOpen
    BY <1>1, <2>1, <2>4, Checked
  <2>8. 1 = 1 - 0 /\ 1 = 1 - 0
    BY SMTT(20)
  <2> QED BY <1>1, <1>3, <1>4, <2>2, <2>6, <2>7, <2>8, Holds, CountAndAssign, SMTT(20)
<1>5. CASE d.zs[z] = "CLOSED"
  <2>1. zns_aor_check(d, 0, 1) = "SUCCESS"
    BY <1>2, <1>5 DEF zns_open_zone_status, OpenStates
  <2>2. e = zns_assign_zone_state(zns_aor_inc_open(d), z, "EXPLICITLY_OPEN")
    BY <1>2, <1>5 DEF zns_open_zone
  <2>3. Counted(d, zns_aor_inc_open(d), 1, 0)
    BY <1>1, AorSteps
  <2>4. MaxOpen # 0 => d.nr_open + 1 <= MaxOpen
    BY <1>1, <2>1, Checked
  <2> HIDE DEF e
  <2>5. 1 = 1 - 0 /\ 0 = 1 - 1 /\ 0 <= 0
    BY SMTT(20)
  <2> QED BY <1>1, <1>3, <1>5, <2>2, <2>3, <2>4, <2>5, Holds, CountAndAssign, SMTT(20)
<1>6. CASE d.zs[z] = "IMPLICITLY_OPEN"
  <2>1. e = zns_assign_zone_state(d, z, "EXPLICITLY_OPEN")
    BY <1>2, <1>6 DEF zns_open_zone
  <2>2. Counted(d, d, 0, 0) /\ 0 = 1 - 1 /\ 0 <= 0
    BY <1>1, CountedSame, SMTT(20)
  <2> HIDE DEF e
  <2> QED BY <1>1, <1>3, <1>6, <2>1, <2>2, Holds, CountAndAssign, SMTT(20)
<1> QED BY <1>3, <1>4, <1>5, <1>6

\* zns_close_zone gives the open resource back and keeps the active one.
LEMMA Closes ==
  ASSUME NEW d, Good(d), NEW z \in Zones
  PROVE  LET e == zns_close_zone(d, z)
         IN \/ e = d
            \/ Transits(d, e, z, "CLOSED") /\ d.zs[z] \in OpenStates
<1> SUFFICES ASSUME d.zs[z] \in OpenStates
             PROVE  Transits(d, zns_assign_zone_state(zns_aor_dec_open(d), z,
                                                      "CLOSED"), z, "CLOSED")
  BY DEF zns_close_zone
<1>1. Counted(d, zns_aor_dec_open(d), -1, 0)
  BY Limits, AorSteps
<1>2. InOpen(d.zs[z]) = 1 /\ InActive(d.zs[z]) = 1
  BY Holds DEF OpenStates
<1>3. -1 = 0 - 1 /\ 0 = 1 - 1 /\ -1 <= 0 /\ 0 <= 0 /\ -1 \in Int
  BY SMTT(20)
<1> QED BY <1>1, <1>2, <1>3, Holds, CountAndAssign, SMTT(20)

Point(d, z, v, w) == [d EXCEPT !.w_ptr[z] = v, !.wp[z] = w]

\* Assignments to both pointers touch nothing else.
LEMMA SetPointers ==
  ASSUME NEW d \in PreDevice, NEW z \in Zones, NEW v \in Nat, NEW w \in Nat
  PROVE  LET e == Point(d, z, v, w)
         IN /\ e \in PreDevice
            /\ e.w_ptr = [d.w_ptr EXCEPT ![z] = v]
            /\ e.wp = [d.wp EXCEPT ![z] = w]
            /\ e.zs = d.zs /\ e.za = d.za /\ e.list = d.list
            /\ e.nr_open = d.nr_open /\ e.nr_active = d.nr_active
<1> DEFINE a == [d.w_ptr EXCEPT ![z] = v]
           b == [d.wp EXCEPT ![z] = w]
           c == [d EXCEPT !.w_ptr = a]
<1>1. a \in [Zones -> Nat] /\ b \in [Zones -> Nat]
  BY Fields
<1>2. Point(d, z, v, w) = [c EXCEPT !.wp = b]
  BY DEF PreDevice, Point
<1> HIDE DEF a, b
<1>3. /\ c \in PreDevice /\ c.w_ptr = a
      /\ c.zs = d.zs /\ c.za = d.za /\ c.wp = d.wp /\ c.list = d.list
      /\ c.nr_open = d.nr_open /\ c.nr_active = d.nr_active
  BY <1>1, SetWptr
<1> HIDE DEF c
<1>4. LET e == [c EXCEPT !.wp = b]
      IN /\ e \in PreDevice /\ e.wp = b /\ e.w_ptr = c.w_ptr
         /\ e.zs = c.zs /\ e.za = c.za /\ e.list = c.list
         /\ e.nr_open = c.nr_open /\ e.nr_active = c.nr_active
  BY <1>1, <1>3, SetWp, SMTT(20)
<1> QED BY <1>2, <1>3, <1>4 DEF a, b

\* Zone z moves to state s with both its pointers at p.
Ends(d, e, z, s, p) ==
  /\ Good(e) /\ e.zs = [d.zs EXCEPT ![z] = s]
  /\ e.wp = [d.wp EXCEPT ![z] = p] /\ e.w_ptr = [d.w_ptr EXCEPT ![z] = p]

\* A handler that releases the zone's resources, moves its pointers and then
\* assigns a state that holds no resources.
LEMMA ReleaseAndAssign ==
  ASSUME NEW d, Good(d), NEW z \in Zones, NEW s \in {"EMPTY", "FULL"},
         NEW p \in Nat
  PROVE  LET c == Point(ReleaseResources(d, z), z, p, p)
         IN Ends(d, zns_assign_zone_state(c, z, s), z, s, p)
<1> DEFINE r == ReleaseResources(d, z)
           c == Point(r, z, p, p)
           o == 0 - InOpen(d.zs[z])
           a == 0 - InActive(d.zs[z])
<1>1. Counted(d, r, o, a)
  BY Limits, Released
<1> HIDE DEF r
<1>2. /\ s \in ZoneState /\ o \in Int /\ a \in Int /\ o <= 0 /\ a <= 0
      /\ InOpen(s) = 0 /\ InActive(s) = 0
  BY Holds, SMTT(20) DEF InOpen, InActive
<1>3. o = InOpen(s) - InOpen(d.zs[z]) /\ a = InActive(s) - InActive(d.zs[z])
  BY <1>2
<1> HIDE DEF o, a
<1>4. Charged(d, r, z, s) /\ r \in PreDevice /\ SameZones(d, r)
  BY <1>1, <1>2, <1>3, CountedCharged
<1>5. /\ c \in PreDevice
      /\ c.w_ptr = [r.w_ptr EXCEPT ![z] = p] /\ c.wp = [r.wp EXCEPT ![z] = p]
      /\ c.zs = r.zs /\ c.list = r.list
      /\ c.nr_open = r.nr_open /\ c.nr_active = r.nr_active
  BY <1>4, SetPointers, SMTT(20)
<1> HIDE DEF c
<1>6. Charged(d, c, z, s) /\ c.zs = d.zs /\ c.list = d.list
      /\ c.w_ptr = [d.w_ptr EXCEPT ![z] = p] /\ c.wp = [d.wp EXCEPT ![z] = p]
  BY <1>4, <1>5 DEF Charged, SameZones
<1>7. Ends(d, zns_assign_zone_state(c, z, s), z, s, p)
  BY <1>2, <1>5, <1>6, Transition, SMTT(20) DEF Ends
<1> QED BY <1>7 DEF c, r

\* zns_finish_zone and zns_reset_zone give everything back.
LEMMA Finishes ==
  ASSUME NEW d, Good(d), NEW z \in Zones
  PROVE  LET e == zns_finish_zone(d, z)
         IN \/ e = d
            \/ /\ Ends(d, e, z, "FULL", ZoneCap)
               /\ d.zs[z] \in ActiveStates \cup {"EMPTY"}
<1> DEFINE e == zns_assign_zone_state(Point(ReleaseResources(d, z), z, ZoneCap,
                                         ZoneCap), z, "FULL")
<1>1. ZoneCap \in Nat
  BY GeometryAssumption, SMTT(20)
<1>2. Ends(d, e, z, "FULL", ZoneCap)
  BY <1>1, ReleaseAndAssign
<1>3. zns_finish_zone(d, z) = IF d.zs[z] \in ActiveStates \cup {"EMPTY"}
                              THEN e ELSE d
  BY DEF zns_finish_zone, Point
<1> QED BY <1>2, <1>3

\* The same for a reset.
LEMMA Resets ==
  ASSUME NEW d, Good(d), NEW z \in Zones
  PROVE  LET e == zns_reset_zone(d, z)
         IN e = d \/ (Ends(d, e, z, "EMPTY", 0) /\ d.zs[z] \in ListStates)
<1> DEFINE e == zns_assign_zone_state(Point(ReleaseResources(d, z), z, 0, 0),
                                   z, "EMPTY")
<1>1. Ends(d, e, z, "EMPTY", 0)
  BY ReleaseAndAssign
<1>2. zns_reset_zone(d, z) = IF d.zs[z] \in ListStates THEN e ELSE d
  BY DEF zns_reset_zone, Point
<1> QED BY <1>1, <1>2

\* zns_offline_zone moves a zone that holds nothing.
LEMMA Offlines ==
  ASSUME NEW d, Good(d), NEW z \in Zones
  PROVE  LET e == zns_offline_zone(d, z)
         IN \/ e = d
            \/ Transits(d, e, z, "OFFLINE") /\ d.zs[z] = "READ_ONLY"
<1> SUFFICES ASSUME d.zs[z] = "READ_ONLY"
             PROVE  Transits(d, zns_assign_zone_state(d, z, "OFFLINE"), z,
                             "OFFLINE")
  BY DEF zns_offline_zone
<1>1. /\ InOpen("OFFLINE") = 0 /\ InActive("OFFLINE") = 0
      /\ InOpen("READ_ONLY") = 0 /\ InActive("READ_ONLY") = 0
  BY DEF InOpen, InActive, OpenStates, ActiveStates
<1>2. Counted(d, d, 0, 0) /\ 0 = 0 - 0 /\ 0 <= 0
  BY Limits, CountedSame, SMTT(20)
<1> QED BY <1>1, <1>2, Holds, CountAndAssign, SMTT(20)

\* zns_set_zd_ext takes the active resource it has checked.
LEMMA SetsZdExt ==
  ASSUME NEW d, Good(d), NEW z \in Zones
  PROVE  LET e == zns_set_zd_ext(d, z)
         IN \/ e = d
            \/ Transits(d, e, z, "CLOSED") /\ d.zs[z] = "EMPTY"
<1> DEFINE r == zns_aor_inc_active(d)
           c == [r EXCEPT !.za[z] = TRUE]
<1> SUFFICES ASSUME zns_set_zd_ext_status(d, z) = "SUCCESS"
             PROVE  /\ Transits(d, zns_assign_zone_state(c, z, "CLOSED"), z,
                                "CLOSED")
                    /\ d.zs[z] = "EMPTY"
  BY DEF zns_set_zd_ext
<1>1. d.zs[z] = "EMPTY" /\ zns_aor_check(d, 1, 0) = "SUCCESS"
  BY DEF zns_set_zd_ext_status
<1>2. Counted(d, r, 0, 1)
  BY Limits, AorSteps
<1>3. MaxActive # 0 => d.nr_active + 1 <= MaxActive
  BY <1>1, Limits, Checked
<1> HIDE DEF r
<1>4. 0 = 0 - 0 /\ 1 = 1 - 0 /\ 0 <= 0
  BY SMTT(20)
<1>5. Charged(d, r, z, "CLOSED") /\ r \in PreDevice /\ SameZones(d, r)
  BY <1>1, <1>2, <1>3, <1>4, Holds, CountedCharged, SMTT(20)
<1>6. [r.za EXCEPT ![z] = TRUE] \in [Zones -> BOOLEAN]
  BY <1>5, Fields
<1>7. c = [r EXCEPT !.za = [r.za EXCEPT ![z] = TRUE]]
  OBVIOUS
<1> HIDE DEF c
<1>8. /\ c \in PreDevice /\ c.zs = r.zs /\ c.wp = r.wp /\ c.w_ptr = r.w_ptr
      /\ c.list = r.list /\ c.nr_open = r.nr_open /\ c.nr_active = r.nr_active
  BY <1>5, <1>6, <1>7, SetZa
<1>9. Charged(d, c, z, "CLOSED") /\ c.zs = d.zs /\ c.list = d.list
      /\ c.wp = d.wp /\ c.w_ptr = d.w_ptr
  BY <1>5, <1>8 DEF Charged, SameZones
<1> QED BY <1>1, <1>8, <1>9, Holds, Transition, SMTT(20) DEF Transits

\* A zone unlinked, counted and linked again by hand.
LEMMA Relinked ==
  ASSUME NEW d, Good(d), NEW z \in Zones, NEW s \in ZoneState,
         NEW v \in PreDevice, v.zs = d.zs,
         \A t \in ListStates :
           Len(v.list[t]) = IF t = d.zs[z] THEN Len(d.list[t]) - 1
                                           ELSE Len(d.list[t]),
         Charged(d, v, z, s), NEW e, On(v, e, z, s)
  PROVE  /\ Good(e) /\ e.zs = [d.zs EXCEPT ![z] = s] /\ Shifted(d, e, z, s)
         /\ e.wp = v.wp /\ e.w_ptr = v.w_ptr
<1>1. Charged(d, e, z, s)
  BY DEF On, Charged
<1>2. Shifted(d, e, z, s)
  <2> SUFFICES ASSUME NEW t \in ListStates
               PROVE  Len(e.list[t]) = Len(d.list[t])
                                         - (IF t = d.zs[z] THEN 1 ELSE 0)
                                         + (IF t = s THEN 1 ELSE 0)
    BY DEF Shifted
  <2> DEFINE n == Len(d.list[t])
             m == Len(v.list[t])
  <2>1. n \in Nat /\ m \in Nat
    BY Limits, Lengths
  <2>2. Len(e.list[t]) = IF t = s THEN m + 1 ELSE m
    BY DEF On
  <2>3. m = IF t = d.zs[z] THEN n - 1 ELSE n
    OBVIOUS
  <2> HIDE DEF n, m
  <2>4. CASE t = s
    BY <2>1, <2>2, <2>3, <2>4, SMTT(20) DEF n
  <2>5. CASE t # s
    BY <2>1, <2>2, <2>3, <2>5, SMTT(20) DEF n
  <2> QED BY <2>4, <2>5
<1>3. Good(e)
  BY <1>1, <1>2, Balanced DEF On
<1> QED BY <1>2, <1>3 DEF On

\* zns_auto_transition_zone closes the zone implicitly opened first.
LEMMA AutoTransitions ==
  ASSUME NEW d, Good(d)
  PROVE  LET e == zns_auto_transition_zone(d)
         IN \/ e = d
            \/ \E z \in Zones : /\ d.zs[z] = "IMPLICITLY_OPEN"
                                /\ z = Head(d.list["IMPLICITLY_OPEN"])
                                /\ Transits(d, e, z, "CLOSED")
<1> DEFINE imp == d.list["IMPLICITLY_OPEN"]
           z == Head(imp)
           r == Tail(imp)
           u == [d EXCEPT !.list["IMPLICITLY_OPEN"] = r]
           v == zns_aor_dec_open(u)
           e == LinkAs(v, z, "CLOSED")
<1> SUFFICES ASSUME imp # <<>>
             PROVE  /\ z \in Zones /\ d.zs[z] = "IMPLICITLY_OPEN"
                    /\ Transits(d, e, z, "CLOSED")
  BY DEF zns_auto_transition_zone
<1>1. d \in PreDevice /\ ListsOK(d)
  BY DEF Good
<1>2. Lists(imp, In(d, "IMPLICITLY_OPEN"))
  BY <1>1 DEF ListsOK, ListStates, ActiveStates, OpenStates
<1>3. /\ z \in In(d, "IMPLICITLY_OPEN")
      /\ Lists(r, In(d, "IMPLICITLY_OPEN") \ {z}) /\ Len(r) = Len(imp) - 1
  BY <1>2, TailLists
<1> HIDE DEF z, r
<1>4. z \in Zones /\ d.zs[z] = "IMPLICITLY_OPEN"
  BY <1>3 DEF In
<1>5. Off(d, u, z)
  BY <1>1, <1>3, <1>4, TakenOff DEF ListStates, ActiveStates, OpenStates
<1> HIDE DEF u
<1>6. Counted(u, v, -1, 0)
  BY <1>5, AorSteps DEF Off
<1> HIDE DEF v
<1>7. /\ v \in PreDevice /\ SameZones(u, v)
      /\ v.nr_open = u.nr_open + (IF MaxOpen = 0 THEN 0 ELSE -1)
      /\ v.nr_active = u.nr_active + (IF MaxActive = 0 THEN 0 ELSE 0)
  BY <1>6 DEF Counted
<1>8. ListsBut(v, z)
  BY <1>4, <1>5, <1>7, SameLists DEF Off
<1>9. On(v, e, z, "CLOSED")
  BY <1>4, <1>7, <1>8, Linked, Holds
<1>10. -1 = 0 - 1 /\ 0 = 1 - 1 /\ -1 <= 0 /\ 0 <= 0 /\ -1 \in Int
  BY SMTT(20)
<1>11. u.nr_open = d.nr_open /\ u.nr_active = d.nr_active
  BY <1>5 DEF Off
<1>12. Charged(d, v, z, "CLOSED")
  BY <1>4, <1>7, <1>10, <1>11, Holds, ChargedBy, SMTT(20)
<1>13. /\ v.zs = d.zs /\ v.wp = d.wp /\ v.w_ptr = d.w_ptr
       /\ \A t \in ListStates :
            Len(v.list[t]) = IF t = d.zs[z] THEN Len(d.list[t]) - 1
                                            ELSE Len(d.list[t])
  BY <1>5, <1>7 DEF Off, SameZones
<1> HIDE DEF e
<1>14. Transits(d, e, z, "CLOSED")
  BY <1>4, <1>7, <1>9, <1>12, <1>13, Relinked, Holds, SMTT(20) DEF Transits
<1> QED BY <1>4, <1>14

\* Whether a device is good does not depend on pointers and attributes.
LEMMA GoodSame ==
  ASSUME NEW d, Good(d), NEW e \in PreDevice, e.zs = d.zs, e.list = d.list,
         e.nr_open = d.nr_open, e.nr_active = d.nr_active
  PROVE  Good(e)
BY DEF Good, ListsOK, CountersOK, In

\* e is d with nlb blocks of zone z reserved.
Reserved(d, e, z, nlb) ==
  /\ Good(e) /\ e.wp = d.wp
  /\ e.w_ptr = [d.w_ptr EXCEPT ![z] = d.w_ptr[z] + nlb]
  /\ e.zs = IF d.w_ptr[z] + nlb < ZoneCap /\ d.zs[z] \in {"EMPTY", "CLOSED"}
            THEN [d.zs EXCEPT ![z] = "IMPLICITLY_OPEN"] ELSE d.zs

\* zns_advance_zone_wp opens the zone with the resources that were checked,
\* unless the write fills it.
LEMMA Advances ==
  ASSUME NEW d, Good(d), NEW z \in Zones, NEW nlb \in Nat,
         d.zs[z] = "EMPTY" => zns_aor_check(d, 1, 1) = "SUCCESS",
         d.zs[z] = "CLOSED" => zns_aor_check(d, 0, 1) = "SUCCESS"
  PROVE  Reserved(d, zns_advance_zone_wp(d, z, nlb), z, nlb)
<1> DEFINE w == [d.w_ptr EXCEPT ![z] = d.w_ptr[z] + nlb]
           e == [d EXCEPT !.w_ptr = w]
           f == IF d.zs[z] = "EMPTY" THEN zns_aor_inc_active(e) ELSE e
           g == zns_aor_inc_open(f)
           h == zns_assign_zone_state(g, z, "IMPLICITLY_OPEN")
<1>1. w \in [Zones -> Nat] /\ w[z] = d.w_ptr[z] + nlb /\ d \in PreDevice
  BY Limits, Fields, SMTT(20)
<1>2. e = [d EXCEPT !.w_ptr[z] = @ + nlb]
  OBVIOUS
<1> HIDE DEF w
<1>3. /\ e \in PreDevice /\ e.w_ptr = w /\ e.wp = d.wp /\ e.zs = d.zs
      /\ e.list = d.list /\ e.nr_open = d.nr_open /\ e.nr_active = d.nr_active
  BY <1>1, SetWptr
<1>4. zns_advance_zone_wp(d, z, nlb) =
        IF d.w_ptr[z] + nlb < ZoneCap /\ d.zs[z] \in {"EMPTY", "CLOSED"}
        THEN h ELSE e
  <2>1. zns_advance_zone_wp(d, z, nlb) =
          IF e.w_ptr[z] < ZoneCap /\ d.zs[z] \in {"EMPTY", "CLOSED"}
          THEN h ELSE e
    BY <1>2 DEF zns_advance_zone_wp
  <2> QED BY <1>1, <1>3, <2>1
<1> HIDE DEF e
<1>5. Good(e)
  BY <1>3, GoodSame
<1>6. ASSUME d.zs[z] \in {"EMPTY", "CLOSED"}
      PROVE  Transits(e, h, z, "IMPLICITLY_OPEN")
  <2>1. CASE d.zs[z] = "EMPTY"
    <3>1. Counted(e, f, 0, 1)
      BY <1>3, <2>1, AorSteps
    <3> HIDE DEF f
    <3>2. Counted(f, g, 1, 0)
      BY <3>1, AorSteps DEF Counted
    <3> HIDE DEF g
    <3>3. Counted(e, g, 1, 1)
      <4>1. Counted(e, g, 0 + 1, 1 + 0)
        BY <1>3, <3>1, <3>2, CountedTwice, SMTT(20)
      <4> QED BY <4>1, SmallSums
    <3>4. /\ MaxActive # 0 => e.nr_active + 1 <= MaxActive
          /\ MaxOpen # 0 => e.nr_open + 1 <= MaxOpen
      BY <1>1, <1>3, <2>1, Checked
    <3>5. 1 = 1 - 0 /\ e.zs[z] = "EMPTY"
      BY <1>3, <2>1, SMTT(20)
    <3> QED BY <1>5, <3>3, <3>4, <3>5, Holds, CountAndAssign, SMTT(20)
  <2>2. CASE d.zs[z] = "CLOSED"
    <3>1. f = e
      BY <2>2
    <3>2. Counted(e, g, 1, 0)
      BY <1>3, <3>1, AorSteps
    <3> HIDE DEF f, g
    <3>3. MaxOpen # 0 => e.nr_open + 1 <= MaxOpen
      BY <1>1, <1>3, <2>2, Checked
    <3>4. 1 = 1 - 0 /\ 0 = 1 - 1 /\ 0 <= 0 /\ e.zs[z] = "CLOSED"
      BY <1>3, <2>2, SMTT(20)
    <3> QED BY <1>5, <3>2, <3>3, <3>4, Holds, CountAndAssign, SMTT(20)
  <2> QED BY <1>6, <2>1, <2>2
<1> HIDE DEF h
<1>7. CASE d.w_ptr[z] + nlb < ZoneCap /\ d.zs[z] \in {"EMPTY", "CLOSED"}
  BY <1>3, <1>4, <1>6, <1>7 DEF Reserved, Transits, w
<1>8. CASE ~(d.w_ptr[z] + nlb < ZoneCap /\ d.zs[z] \in {"EMPTY", "CLOSED"})
  BY <1>3, <1>4, <1>5, <1>8 DEF Reserved, w
<1> QED BY <1>7, <1>8

\* e is d with nlb blocks of zone z written.
Finalized(d, e, z, nlb) ==
  /\ Good(e) /\ e.w_ptr = d.w_ptr
  /\ e.wp = [d.wp EXCEPT ![z] = d.wp[z] + nlb]
  /\ e.zs = IF d.wp[z] + nlb = ZoneCap /\ d.zs[z] # "FULL"
            THEN [d.zs EXCEPT ![z] = "FULL"] ELSE d.zs

\* zns_finalize_zoned_write makes the zone FULL when the write reaches the
\* writable boundary, and gives its resources back.
LEMMA Finalizes ==
  ASSUME NEW d, Good(d), NEW z \in Zones, NEW nlb \in Nat
  PROVE  Finalized(d, zns_finalize_zoned_write(d, z, nlb), z, nlb)
<1> DEFINE w == [d.wp EXCEPT ![z] = d.wp[z] + nlb]
           e == [d EXCEPT !.wp = w]
           r == ReleaseResources(e, z)
           h == zns_assign_zone_state(r, z, "FULL")
           o == 0 - InOpen(e.zs[z])
           a == 0 - InActive(e.zs[z])
<1>1. w \in [Zones -> Nat] /\ w[z] = d.wp[z] + nlb /\ d \in PreDevice
  BY Limits, Fields, SMTT(20)
<1>2. e = [d EXCEPT !.wp[z] = @ + nlb]
  OBVIOUS
<1> HIDE DEF w
<1>3. /\ e \in PreDevice /\ e.wp = w /\ e.w_ptr = d.w_ptr /\ e.zs = d.zs
      /\ e.list = d.list /\ e.nr_open = d.nr_open /\ e.nr_active = d.nr_active
  BY <1>1, SetWp
<1>4. zns_finalize_zoned_write(d, z, nlb) =
        IF d.wp[z] + nlb = ZoneCap /\ d.zs[z] # "FULL" THEN h ELSE e
  <2>1. zns_finalize_zoned_write(d, z, nlb) =
          IF e.wp[z] = ZoneCap /\ d.zs[z] # "FULL" THEN h ELSE e
    BY <1>2 DEF zns_finalize_zoned_write
  <2> QED BY <1>1, <1>3, <2>1
<1> HIDE DEF e
<1>5. Good(e)
  BY <1>3, GoodSame
<1>6. Counted(e, r, o, a)
  BY <1>3, Released
<1>7. /\ o \in Int /\ a \in Int /\ o <= 0 /\ a <= 0
      /\ InOpen("FULL") = 0 /\ InActive("FULL") = 0
  BY Holds, SMTT(20) DEF InOpen, InActive
<1>8. o = InOpen("FULL") - InOpen(e.zs[z])
      /\ a = InActive("FULL") - InActive(e.zs[z])
  BY <1>7
<1> HIDE DEF o, a, r
<1>9. Transits(e, h, z, "FULL")
  BY <1>5, <1>6, <1>7, <1>8, Holds, CountAndAssign
<1> HIDE DEF h
<1>10. CASE d.wp[z] + nlb = ZoneCap /\ d.zs[z] # "FULL"
  BY <1>3, <1>4, <1>9, <1>10 DEF Finalized, Transits, w
<1>11. CASE ~(d.wp[z] + nlb = ZoneCap /\ d.zs[z] # "FULL")
  BY <1>3, <1>4, <1>5, <1>11 DEF Finalized, w
<1> QED BY <1>10, <1>11

-----------------------------------------------------------------------------
(* The commands on all zones.                                              *)

\* Moving the zones of Y, the ones order lists, to state s.
MovedAll(d, e, Y, s) ==
  /\ e \in PreDevice /\ ListsOK(e)
  /\ e.zs = [z \in Zones |-> IF z \in Y THEN s ELSE d.zs[z]]
  /\ e.wp = d.wp /\ e.w_ptr = d.w_ptr
  /\ e.nr_open = d.nr_open /\ e.nr_active = d.nr_active

\* ... and the lists of d with the zones of order moved.
Relisted(d, e, order, from, rest, s) ==
  /\ Len(e.list[s]) = Len(d.list[s]) + Len(order)
  /\ \A t \in from : Len(e.list[t]) = Len(rest)
  /\ \A t \in ListStates \ (from \cup {s}) : e.list[t] = d.list[t]

\* MoveZones keeps the lists matching the states.
LEMMA MovesZones ==
  ASSUME NEW d \in PreDevice, ListsOK(d), NEW Y, NEW order, Lists(order, Y),
         NEW from \in SUBSET ListStates, NEW rest, NEW s \in ListStates \ from,
         \A z \in Y : z \in Zones /\ d.zs[z] \in from,
         \A t \in from : Lists(rest, In(d, t) \ Y)
  PROVE  LET e == MoveZones(d, order, from, rest, s)
         IN MovedAll(d, e, Y, s) /\ Relisted(d, e, order, from, rest, s)
<1> DEFINE v == [z \in Zones |-> IF z \in Y THEN s ELSE d.zs[z]]
           l == [t \in ListStates |-> CASE t = s -> d.list[t] \o order
                                        [] t \in from /\ t # s -> rest
                                        [] OTHER -> d.list[t]]
           c == [d EXCEPT !.zs = v]
           e == [c EXCEPT !.list = l]
<1>1. d.zs \in [Zones -> ZoneState] /\ d.list \in [ListStates -> Seq(Zones)]
  BY Fields
<1>2. s \in ZoneState /\ s \in ListStates
  BY DEF ListStates, ActiveStates, OpenStates, ZoneState
<1>3. v \in [Zones -> ZoneState]
  BY <1>1, <1>2
<1>4. MoveZones(d, order, from, rest, s) = e
  BY DEF MoveZones, Lists
<1>5. /\ l[s] = d.list[s] \o order
      /\ \A t \in from : l[t] = rest
      /\ \A t \in ListStates \ (from \cup {s}) : l[t] = d.list[t]
  BY <1>2
<1>6. /\ In(d, s) \cap Y = {}
      /\ Lists(d.list[s], In(d, s))
  BY <1>2 DEF In, ListsOK
<1>7. /\ Lists(l[s], In(d, s) \cup Y)
      /\ Len(l[s]) = Len(d.list[s]) + Len(order)
  BY <1>5, <1>6, ConcatLists, SMTT(20)
<1>8. \A t \in from : Lists(l[t], In(d, t) \ Y)
  BY <1>5
<1>9. \A t \in ListStates \ (from \cup {s}) : Lists(l[t], In(d, t))
  BY <1>5 DEF ListsOK
<1>10. \A t \in ListStates : l[t] \in Seq(Zones)
  <2>1. \A t \in ListStates, Z \in SUBSET Zones :
          Lists(l[t], Z) => l[t] \in Seq(Zones)
    BY SeqMonotonic DEF Lists
  <2>2. In(d, s) \cup Y \in SUBSET Zones
        /\ \A t \in ListStates : In(d, t) \in SUBSET Zones
                                 /\ In(d, t) \ Y \in SUBSET Zones
    BY DEF In
  <2> HIDE DEF l
  <2> QED BY <1>7, <1>8, <1>9, <2>1, <2>2
<1>11. l \in [ListStates -> Seq(Zones)]
  BY <1>10
<1> HIDE DEF v, l
<1>12. /\ c \in PreDevice /\ c.zs = v /\ c.wp = d.wp /\ c.w_ptr = d.w_ptr
       /\ c.nr_open = d.nr_open /\ c.nr_active = d.nr_active
  BY <1>3, SetZs
<1> HIDE DEF c
<1>13. /\ e \in PreDevice /\ e.list = l /\ e.zs = c.zs /\ e.wp = c.wp
       /\ e.w_ptr = c.w_ptr /\ e.nr_open = c.nr_open
       /\ e.nr_active = c.nr_active
  BY <1>11, <1>12, SetList
<1> HIDE DEF e
<1>14. /\ In(e, s) = In(d, s) \cup Y
       /\ \A t \in ListStates \ {s} : In(e, t) = In(d, t) \ Y
       /\ \A t \in ListStates \ (from \cup {s}) : In(d, t) \ Y = In(d, t)
  BY <1>12, <1>13 DEF In, v
<1>15. ListsOK(e)
  <2> SUFFICES ASSUME NEW t \in ListStates
               PROVE  Lists(l[t], In(e, t))
    BY <1>13 DEF ListsOK
  <2>1. CASE t = s
    BY <1>7, <1>14, <2>1
  <2>2. CASE t \in from
    BY <1>8, <1>14, <2>2
  <2>3. CASE t \in ListStates \ (from \cup {s})
    <3>1. Lists(l[t], In(d, t))
      BY <1>9, <2>3
    <3>2. In(e, t) = In(d, t)
      BY <1>14, <2>3
    <3> QED BY <3>1, <3>2
  <2> QED BY <2>1, <2>2, <2>3
<1>16. MovedAll(d, e, Y, s)
  BY <1>12, <1>13, <1>15 DEF MovedAll, v
<1>17. Relisted(d, e, order, from, rest, s)
  BY <1>5, <1>7, <1>13 DEF Relisted
<1> QED BY <1>4, <1>16, <1>17

\* GiveBack counts down.
LEMMA GivesBack ==
  ASSUME NEW d \in PreDevice, NEW n \in Int, NEW m \in Int
  PROVE  Counted(d, GiveBack(d, n, m), 0 - n, 0 - m)
<1> DEFINE o == IF MaxOpen = 0 THEN d.nr_open ELSE d.nr_open - n
           a == IF MaxActive = 0 THEN d.nr_active ELSE d.nr_active - m
           c == [d EXCEPT !.nr_open = o]
           e == [c EXCEPT !.nr_active = a]
<1>1. GiveBack(d, n, m) = e
  BY DEF GiveBack, PreDevice
<1>2. /\ o \in Int /\ o = d.nr_open + (IF MaxOpen = 0 THEN 0 ELSE 0 - n)
      /\ a \in Int /\ a = d.nr_active + (IF MaxActive = 0 THEN 0 ELSE 0 - m)
  BY Fields, SMTT(20)
<1> HIDE DEF o, a
<1>3. /\ c \in PreDevice /\ SameZones(d, c)
      /\ c.nr_open = o /\ c.nr_active = d.nr_active
  BY <1>2, SetOpen DEF SameZones
<1> HIDE DEF c
<1>4. /\ e \in PreDevice /\ SameZones(c, e)
      /\ e.nr_open = c.nr_open /\ e.nr_active = a
  BY <1>2, <1>3, SetActive DEF SameZones
<1> QED BY <1>1, <1>2, <1>3, <1>4 DEF Counted, SameZones

\* The lists of a good device, one by one.
LEMMA FourLists ==
  ASSUME NEW d, Good(d)
  PROVE  /\ Lists(d.list["IMPLICITLY_OPEN"], In(d, "IMPLICITLY_OPEN"))
         /\ Lists(d.list["EXPLICITLY_OPEN"], In(d, "EXPLICITLY_OPEN"))
         /\ Lists(d.list["CLOSED"], In(d, "CLOSED"))
         /\ Lists(d.list["FULL"], In(d, "FULL"))
         /\ Len(d.list["IMPLICITLY_OPEN"]) \in Nat
         /\ Len(d.list["EXPLICITLY_OPEN"]) \in Nat
         /\ Len(d.list["CLOSED"]) \in Nat
<1>1. d \in PreDevice /\ ListsOK(d)
  BY DEF Good
<1> QED BY <1>1, Lengths DEF ListsOK, ListStates, ActiveStates, OpenStates

\* The walks of zns_do_zone_op over the open and over the active zones.
LEMMA Walks ==
  ASSUME NEW d, Good(d)
  PROVE  /\ Lists(Opened(d), {z \in Zones : d.zs[z] \in OpenStates})
         /\ Len(Opened(d)) = Len(d.list["IMPLICITLY_OPEN"])
                               + Len(d.list["EXPLICITLY_OPEN"])
         /\ Lists(Active(d), {z \in Zones : d.zs[z] \in ActiveStates})
         /\ Len(Active(d)) = Len(d.list["CLOSED"])
                               + Len(d.list["IMPLICITLY_OPEN"])
                               + Len(d.list["EXPLICITLY_OPEN"])
<1> DEFINE O == In(d, "IMPLICITLY_OPEN") \cup In(d, "EXPLICITLY_OPEN")
<1>1. In(d, "IMPLICITLY_OPEN") \cap In(d, "EXPLICITLY_OPEN") = {}
      /\ In(d, "CLOSED") \cap O = {}
  BY DEF In
<1>2. /\ Lists(Opened(d), O)
      /\ Len(Opened(d)) = Len(d.list["IMPLICITLY_OPEN"])
                            + Len(d.list["EXPLICITLY_OPEN"])
  BY <1>1, FourLists, ConcatLists, SMTT(20) DEF Opened
<1>3. /\ Lists(Active(d), In(d, "CLOSED") \cup O)
      /\ Len(Active(d)) = Len(d.list["CLOSED"]) + Len(Opened(d))
  <2> HIDE DEF O
  <2>1. Lists(d.list["CLOSED"], In(d, "CLOSED")) /\ Lists(Opened(d), O)
        /\ In(d, "CLOSED") \cap O = {}
    BY <1>1, <1>2, FourLists
  <2> QED BY <2>1, ConcatLists, SMTT(20) DEF Active
<1>4. O = {z \in Zones : d.zs[z] \in OpenStates}
      /\ In(d, "CLOSED") \cup O = {z \in Zones : d.zs[z] \in ActiveStates}
  BY DEF In, OpenStates, ActiveStates
<1>5. Len(Active(d)) = Len(d.list["CLOSED"]) + Len(d.list["IMPLICITLY_OPEN"])
                         + Len(d.list["EXPLICITLY_OPEN"])
  <2>1. \A a, b, c \in Nat : a + (b + c) = a + b + c
    BY SMTT(20)
  <2>2. /\ Len(d.list["IMPLICITLY_OPEN"]) \in Nat
        /\ Len(d.list["EXPLICITLY_OPEN"]) \in Nat
        /\ Len(d.list["CLOSED"]) \in Nat
    BY FourLists
  <2>3. Len(Active(d)) = Len(d.list["CLOSED"])
          + (Len(d.list["IMPLICITLY_OPEN"]) + Len(d.list["EXPLICITLY_OPEN"]))
    BY <1>2, <1>3
  <2> QED BY <2>1, <2>2, <2>3
<1> QED BY <1>2, <1>3, <1>4, <1>5

NImp(d) == Len(d.list["IMPLICITLY_OPEN"])
NExp(d) == Len(d.list["EXPLICITLY_OPEN"])
NClosed(d) == Len(d.list["CLOSED"])

\* Lengths and counters of a good device.
LEMMA Numbers ==
  ASSUME NEW d, Good(d)
  PROVE  /\ NImp(d) \in Nat /\ NExp(d) \in Nat /\ NClosed(d) \in Nat
         /\ Len(Opened(d)) = NImp(d) + NExp(d)
         /\ Len(Active(d)) = NClosed(d) + NImp(d) + NExp(d)
         /\ d.nr_open = IF MaxOpen = 0 THEN 0 ELSE NImp(d) + NExp(d)
         /\ d.nr_active = IF MaxActive = 0 THEN 0
                          ELSE NClosed(d) + NImp(d) + NExp(d)
<1>1. /\ NImp(d) \in Nat /\ NExp(d) \in Nat /\ NClosed(d) \in Nat
  BY FourLists DEF NImp, NExp, NClosed
<1>2. /\ Len(Opened(d)) = NImp(d) + NExp(d)
      /\ Len(Active(d)) = NClosed(d) + NImp(d) + NExp(d)
  BY Walks DEF NImp, NExp, NClosed
<1>3. /\ d.nr_open = IF MaxOpen = 0 THEN 0 ELSE NImp(d) + NExp(d)
      /\ d.nr_active = IF MaxActive = 0 THEN 0
                       ELSE NClosed(d) + NImp(d) + NExp(d)
  BY DEF Good, CountersOK, NImp, NExp, NClosed
<1> QED BY <1>1, <1>2, <1>3

\* Giving back what the walk released makes the counters agree again.
LEMMA Recounted ==
  ASSUME NEW d, Good(d), NEW e \in PreDevice, ListsOK(e),
         e.nr_open = d.nr_open, e.nr_active = d.nr_active,
         NEW n \in Int, NEW m \in Int,
         NImp(e) + NExp(e) = NImp(d) + NExp(d) - n,
         NClosed(e) + NImp(e) + NExp(e) = NClosed(d) + NImp(d) + NExp(d) - m,
         n >= 0 \/ (MaxOpen # 0 => d.nr_open - n <= MaxOpen), m >= 0
  PROVE  LET f == GiveBack(e, n, m)
         IN /\ Good(f) /\ f.zs = e.zs /\ f.wp = e.wp /\ f.w_ptr = e.w_ptr
<1> DEFINE f == GiveBack(e, n, m)
           o == NImp(d) + NExp(d)
           a == NClosed(d) + NImp(d) + NExp(d)
<1>1. Counted(e, f, 0 - n, 0 - m)
  BY GivesBack
<1> HIDE DEF f
<1>2. ListsOK(f) /\ f \in PreDevice /\ SameZones(e, f)
  BY <1>1, SameLists DEF Counted
<1>3. o \in Nat /\ a \in Nat
  BY Numbers, SMTT(20)
<1>4. /\ d.nr_open \in Int /\ d.nr_active \in Int
      /\ d.nr_open <= MaxOpen /\ d.nr_active <= MaxActive
      /\ MaxOpen \in Nat /\ MaxActive \in Nat
  BY Limits
<1>5. /\ d.nr_open = IF MaxOpen = 0 THEN 0 ELSE o
      /\ d.nr_active = IF MaxActive = 0 THEN 0 ELSE a
  BY Numbers
<1>6. /\ f.nr_open = d.nr_open + (IF MaxOpen = 0 THEN 0 ELSE 0 - n)
      /\ f.nr_active = d.nr_active + (IF MaxActive = 0 THEN 0 ELSE 0 - m)
  BY <1>1 DEF Counted
<1> HIDE DEF o, a
<1>7. f.nr_open = (IF MaxOpen = 0 THEN 0 ELSE o - n) /\ f.nr_open <= MaxOpen
  BY <1>3, <1>4, <1>5, <1>6, SMTT(20)
<1>8. f.nr_active = (IF MaxActive = 0 THEN 0 ELSE a - m)
      /\ f.nr_active <= MaxActive
  BY <1>3, <1>4, <1>5, <1>6, SMTT(20)
<1>9. NImp(f) = NImp(e) /\ NExp(f) = NExp(e) /\ NClosed(f) = NClosed(e)
  BY <1>2 DEF SameZones, NImp, NExp, NClosed
<1>10. /\ f.nr_open = IF MaxOpen = 0 THEN 0 ELSE NImp(f) + NExp(f)
       /\ f.nr_active = IF MaxActive = 0 THEN 0
                        ELSE NClosed(f) + NImp(f) + NExp(f)
  <2>1. NImp(e) + NExp(e) = o - n /\ NClosed(e) + NImp(e) + NExp(e) = a - m
    BY Numbers, SMTT(20) DEF o, a
  <2> QED BY <1>7, <1>8, <1>9, <2>1
<1>11. CountersOK(f)
  BY <1>7, <1>8, <1>10 DEF CountersOK, NImp, NExp, NClosed
<1> QED BY <1>2, <1>11 DEF Good, SameZones, f

\* e has the zones of Y in state s and the others as d; pointers unchanged.
TransitsAll(d, e, Y, s) ==
  /\ Good(e) /\ e.zs = [z \in Zones |-> IF z \in Y THEN s ELSE d.zs[z]]
  /\ e.wp = d.wp /\ e.w_ptr = d.w_ptr

\* Open on all zones opens as many closed zones as the limit allows.
LEMMA OpensAll ==
  ASSUME NEW d, Good(d)
  PROVE  \E Y \in SUBSET {z \in Zones : d.zs[z] = "CLOSED"} :
           TransitsAll(d, OpenAll(d), Y, "EXPLICITLY_OPEN")
<1> DEFINE l == d.list["CLOSED"]
           k == OpenAllCount(d)
           Y == Range(FirstOf(l, k))
           e == MoveZones(d, FirstOf(l, k), {"CLOSED"}, RestOf(l, k),
                          "EXPLICITLY_OPEN")
<1>1. /\ Lists(l, In(d, "CLOSED")) /\ Len(l) \in Nat
      /\ d \in PreDevice /\ ListsOK(d)
  BY FourLists DEF Good
<1>2. k \in 0..Len(l) /\ (MaxOpen # 0 => k <= MaxOpen - d.nr_open)
  BY <1>1, Limits, SMTT(20) DEF OpenAllCount
<1> HIDE DEF k
<1>3. /\ Lists(FirstOf(l, k), Y) /\ Len(FirstOf(l, k)) = k
      /\ Lists(RestOf(l, k), Range(RestOf(l, k)))
      /\ Len(RestOf(l, k)) = Len(l) - k
      /\ Y \cup Range(RestOf(l, k)) = In(d, "CLOSED")
      /\ Y \cap Range(RestOf(l, k)) = {}
  BY <1>1, <1>2, SplitLists, SMTT(20)
<1> HIDE DEF Y
<1>4. Range(RestOf(l, k)) = In(d, "CLOSED") \ Y
  BY <1>3
<1>5. Lists(RestOf(l, k), In(d, "CLOSED") \ Y)
  BY <1>3, <1>4
<1>6. \A z \in Y : z \in Zones /\ d.zs[z] \in {"CLOSED"}
  BY <1>3 DEF In
<1>7. /\ {"CLOSED"} \in SUBSET ListStates
      /\ "EXPLICITLY_OPEN" \in ListStates \ {"CLOSED"}
      /\ "IMPLICITLY_OPEN" \in ListStates \ ({"CLOSED"} \cup {"EXPLICITLY_OPEN"})
  BY DEF ListStates, ActiveStates, OpenStates
<1>8. /\ MovedAll(d, e, Y, "EXPLICITLY_OPEN")
      /\ NExp(e) = NExp(d) + k /\ NClosed(e) = NClosed(d) - k
      /\ NImp(e) = NImp(d)
  <2>1. \A t \in {"CLOSED"} : Lists(RestOf(l, k), In(d, t) \ Y)
    BY <1>5
  <2>2. /\ MovedAll(d, e, Y, "EXPLICITLY_OPEN")
        /\ Relisted(d, e, FirstOf(l, k), {"CLOSED"}, RestOf(l, k),
                    "EXPLICITLY_OPEN")
    BY <1>1, <1>3, <1>6, <1>7, <2>1, MovesZones
  <2> HIDE DEF e
  <2> QED BY <1>3, <1>7, <2>2 DEF Relisted, NImp, NExp, NClosed
<1> HIDE DEF e
<1>9. /\ NImp(d) \in Nat /\ NExp(d) \in Nat /\ NClosed(d) \in Nat
  BY Numbers
<1>10. k \in Int /\ -k \in Int /\ d.nr_open \in Int /\ MaxOpen \in Nat
  BY <1>1, <1>2, Limits, SMTT(20)
<1>11. /\ NImp(e) + NExp(e) = NImp(d) + NExp(d) - (-k)
       /\ NClosed(e) + NImp(e) + NExp(e)
            = NClosed(d) + NImp(d) + NExp(d) - 0
  BY <1>8, <1>9, <1>10, SMTT(20)
<1>12. MaxOpen # 0 => d.nr_open - (-k) <= MaxOpen
  BY <1>2, <1>10, SMTT(20)
<1>13. e \in PreDevice /\ ListsOK(e) /\ e.nr_open = d.nr_open
       /\ e.nr_active = d.nr_active /\ 0 >= 0 /\ 0 \in Int
  BY <1>8, SMTT(20) DEF MovedAll
<1>14. LET f == GiveBack(e, -k, 0)
       IN /\ Good(f) /\ f.zs = e.zs /\ f.wp = e.wp /\ f.w_ptr = e.w_ptr
  BY <1>10, <1>11, <1>12, <1>13, Recounted, SMTT(20)
<1>15. OpenAll(d) = GiveBack(e, -k, 0)
  BY DEF OpenAll, e, FirstOf, RestOf, k
<1>16. Y \in SUBSET {z \in Zones : d.zs[z] = "CLOSED"}
  BY <1>6
<1>17. TransitsAll(d, OpenAll(d), Y, "EXPLICITLY_OPEN")
  BY <1>8, <1>14, <1>15 DEF TransitsAll, MovedAll
<1> QED BY <1>16, <1>17

\* Close on all zones closes the open ones.
LEMMA ClosesAll ==
  ASSUME NEW d, Good(d)
  PROVE  TransitsAll(d, CloseAll(d), {z \in Zones : d.zs[z] \in OpenStates},
                     "CLOSED")
<1> DEFINE Y == {z \in Zones : d.zs[z] \in OpenStates}
           n == Len(Opened(d))
           e == MoveZones(d, Opened(d), OpenStates, <<>>, "CLOSED")
<1>1. d \in PreDevice /\ ListsOK(d)
  BY DEF Good
<1>2. Lists(Opened(d), Y) /\ n = NImp(d) + NExp(d)
  BY Walks, Numbers
<1>3. \A t \in OpenStates : In(d, t) \ Y = {}
  BY DEF In
<1>4. \A t \in OpenStates : Lists(<<>>, In(d, t) \ Y)
  BY <1>3, EmptyLists
<1>5. /\ OpenStates \in SUBSET ListStates
      /\ "CLOSED" \in ListStates \ OpenStates
      /\ {"IMPLICITLY_OPEN", "EXPLICITLY_OPEN"} \subseteq OpenStates
  BY DEF ListStates, ActiveStates, OpenStates
<1>6. \A z \in Y : z \in Zones /\ d.zs[z] \in OpenStates
  OBVIOUS
<1> HIDE DEF Y
<1>7. /\ MovedAll(d, e, Y, "CLOSED")
      /\ NClosed(e) = NClosed(d) + n
      /\ NImp(e) = Len(<<>>) /\ NExp(e) = Len(<<>>)
  <2>1. /\ MovedAll(d, e, Y, "CLOSED")
        /\ Relisted(d, e, Opened(d), OpenStates, <<>>, "CLOSED")
    BY <1>1, <1>2, <1>4, <1>5, <1>6, MovesZones
  <2> HIDE DEF e
  <2> QED BY <1>5, <2>1 DEF Relisted, NImp, NExp, NClosed
<1> HIDE DEF e, n
<1>8. NImp(d) \in Nat /\ NExp(d) \in Nat /\ NClosed(d) \in Nat
  BY Numbers
<1>9. NImp(e) = 0 /\ NExp(e) = 0
  BY <1>7, EmptySeq
<1>10. /\ NImp(e) + NExp(e) = NImp(d) + NExp(d) - n
       /\ NClosed(e) + NImp(e) + NExp(e)
            = NClosed(d) + NImp(d) + NExp(d) - 0
       /\ n \in Int /\ n >= 0 /\ 0 \in Int /\ 0 >= 0
  BY <1>2, <1>7, <1>8, <1>9, SMTT(20)
<1>11. e \in PreDevice /\ ListsOK(e) /\ e.nr_open = d.nr_open
       /\ e.nr_active = d.nr_active
  BY <1>7 DEF MovedAll
<1>12. LET f == GiveBack(e, n, 0)
       IN /\ Good(f) /\ f.zs = e.zs /\ f.wp = e.wp /\ f.w_ptr = e.w_ptr
  BY <1>10, <1>11, Recounted, SMTT(20)
<1>13. CloseAll(d) = GiveBack(e, n, 0)
  BY DEF CloseAll, e, n
<1>14. TransitsAll(d, CloseAll(d), Y, "CLOSED")
  BY <1>7, <1>12, <1>13 DEF TransitsAll, MovedAll
<1> QED BY <1>14 DEF Y

\* Finish on all zones fills the active ones and gives everything back.
LEMMA FinishesAll ==
  ASSUME NEW d, Good(d)
  PROVE  LET e == FinishAll(d)
             on(z) == d.zs[z] \in ActiveStates
         IN /\ Good(e)
            /\ e.zs = [z \in Zones |-> IF on(z) THEN "FULL" ELSE d.zs[z]]
            /\ e.wp = [z \in Zones |-> IF on(z) THEN ZoneCap ELSE d.wp[z]]
            /\ e.w_ptr = [z \in Zones |-> IF on(z) THEN ZoneCap
                                                   ELSE d.w_ptr[z]]
<1> DEFINE Y == {z \in Zones : d.zs[z] \in ActiveStates}
           n == Len(Opened(d))
           m == Len(Active(d))
           u == MoveZones(d, Active(d), ActiveStates, <<>>, "FULL")
           a == [z \in Zones |-> IF d.zs[z] \in ActiveStates THEN ZoneCap
                                                             ELSE d.wp[z]]
           b == [z \in Zones |-> IF d.zs[z] \in ActiveStates THEN ZoneCap
                                                             ELSE d.w_ptr[z]]
           v == [u EXCEPT !.wp = a]
           e == [v EXCEPT !.w_ptr = b]
<1>1. d \in PreDevice /\ ListsOK(d)
  BY DEF Good
<1>2. /\ Lists(Active(d), Y) /\ n = NImp(d) + NExp(d)
      /\ m = NClosed(d) + NImp(d) + NExp(d)
  BY Walks, Numbers
<1>3. \A t \in ActiveStates : In(d, t) \ Y = {}
  BY DEF In
<1>4. \A t \in ActiveStates : Lists(<<>>, In(d, t) \ Y)
  BY <1>3, EmptyLists
<1>5. /\ ActiveStates \in SUBSET ListStates
      /\ "FULL" \in ListStates \ ActiveStates
      /\ {"IMPLICITLY_OPEN", "EXPLICITLY_OPEN", "CLOSED"} \subseteq ActiveStates
  BY DEF ListStates, ActiveStates, OpenStates
<1>6. \A z \in Y : z \in Zones /\ d.zs[z] \in ActiveStates
  OBVIOUS
<1>7. a \in [Zones -> Nat] /\ b \in [Zones -> Nat]
  BY <1>1, Fields, GeometryAssumption, SMTT(20)
<1>8. FinishAll(d) = GiveBack(e, n, m)
  BY DEF FinishAll
<1> HIDE DEF Y, a, b
<1>9. MovedAll(d, u, Y, "FULL")
      /\ Relisted(d, u, Active(d), ActiveStates, <<>>, "FULL")
  BY <1>1, <1>2, <1>4, <1>5, <1>6, MovesZones
<1> HIDE DEF u, n, m
<1>10. NImp(u) = 0 /\ NExp(u) = 0 /\ NClosed(u) = 0
  BY <1>5, <1>9, EmptySeq DEF Relisted, NImp, NExp, NClosed
<1>11. /\ v \in PreDevice /\ v.zs = u.zs /\ v.list = u.list /\ v.wp = a
       /\ v.nr_open = u.nr_open /\ v.nr_active = u.nr_active
  BY <1>7, <1>9, SetWp, SMTT(20) DEF MovedAll
<1> HIDE DEF v
<1>12. /\ e \in PreDevice /\ e.zs = u.zs /\ e.list = u.list /\ e.wp = a
       /\ e.w_ptr = b /\ e.nr_open = u.nr_open /\ e.nr_active = u.nr_active
  BY <1>7, <1>11, SetWptr
<1> HIDE DEF e
<1>13. ListsOK(e) /\ e.nr_open = d.nr_open /\ e.nr_active = d.nr_active
  BY <1>9, <1>12 DEF MovedAll, ListsOK, In
<1>14. NImp(e) = 0 /\ NExp(e) = 0 /\ NClosed(e) = 0
  BY <1>10, <1>12 DEF NImp, NExp, NClosed
<1>15. /\ NImp(d) \in Nat /\ NExp(d) \in Nat /\ NClosed(d) \in Nat
  BY Numbers
<1>16. /\ NImp(e) + NExp(e) = NImp(d) + NExp(d) - n
       /\ NClosed(e) + NImp(e) + NExp(e)
            = NClosed(d) + NImp(d) + NExp(d) - m
       /\ n \in Int /\ n >= 0 /\ m \in Int /\ m >= 0
  BY <1>2, <1>14, <1>15, SMTT(20)
<1>17. LET f == GiveBack(e, n, m)
       IN /\ Good(f) /\ f.zs = e.zs /\ f.wp = e.wp /\ f.w_ptr = e.w_ptr
  BY <1>12, <1>13, <1>16, Recounted, SMTT(20)
<1> QED BY <1>8, <1>9, <1>12, <1>17 DEF MovedAll, Y, a, b

\* Reset on all zones empties every zone that is on a list.
LEMMA ResetsAll ==
  ASSUME NEW d, Good(d)
  PROVE  LET e == ResetAll(d)
             on(z) == d.zs[z] \in ListStates
         IN /\ Good(e)
            /\ e.zs = [z \in Zones |-> IF on(z) THEN "EMPTY" ELSE d.zs[z]]
            /\ e.wp = [z \in Zones |-> IF on(z) THEN 0 ELSE d.wp[z]]
            /\ e.w_ptr = [z \in Zones |-> IF on(z) THEN 0 ELSE d.w_ptr[z]]
<1> DEFINE on(z) == d.zs[z] \in ListStates
           n == Len(Opened(d))
           m == Len(Active(d))
           s == [z \in Zones |-> IF on(z) THEN "EMPTY" ELSE d.zs[z]]
           a == [z \in Zones |-> ~on(z) /\ d.za[z]]
           p == [z \in Zones |-> IF on(z) THEN 0 ELSE d.wp[z]]
           q == [z \in Zones |-> IF on(z) THEN 0 ELSE d.w_ptr[z]]
           l == [t \in ListStates |-> <<>>]
           e1 == [d EXCEPT !.zs = s]
           e2 == [e1 EXCEPT !.za = a]
           e3 == [e2 EXCEPT !.wp = p]
           e4 == [e3 EXCEPT !.w_ptr = q]
           e == [e4 EXCEPT !.list = l]
<1>1. d \in PreDevice
  BY DEF Good
<1>2. /\ s \in [Zones -> ZoneState] /\ p \in [Zones -> Nat]
      /\ q \in [Zones -> Nat]
  BY <1>1, Fields, Holds
<1>3. a \in [Zones -> BOOLEAN]
  BY <1>1, Fields
<1>4. l \in [ListStates -> Seq(Zones)]
  BY EmptySeq
<1>5. ResetAll(d) = GiveBack(e, n, m)
  BY DEF ResetAll
<1> HIDE DEF s, a, p, q, l
<1>6. /\ e1 \in PreDevice /\ e1.zs = s
      /\ e1.nr_open = d.nr_open /\ e1.nr_active = d.nr_active
  BY <1>1, <1>2, SetZs
<1> HIDE DEF e1
<1>7. /\ e2 \in PreDevice /\ e2.zs = s
      /\ e2.nr_open = d.nr_open /\ e2.nr_active = d.nr_active
  BY <1>3, <1>6, SetZa
<1> HIDE DEF e2
<1>8. /\ e3 \in PreDevice /\ e3.zs = s /\ e3.wp = p
      /\ e3.nr_open = d.nr_open /\ e3.nr_active = d.nr_active
  BY <1>2, <1>7, SetWp
<1> HIDE DEF e3
<1>9. /\ e4 \in PreDevice /\ e4.zs = s /\ e4.wp = p /\ e4.w_ptr = q
      /\ e4.nr_open = d.nr_open /\ e4.nr_active = d.nr_active
  BY <1>2, <1>8, SetWptr, SMTT(20)
<1> HIDE DEF e4
<1>10. /\ e \in PreDevice /\ e.zs = s /\ e.wp = p /\ e.w_ptr = q /\ e.list = l
       /\ e.nr_open = d.nr_open /\ e.nr_active = d.nr_active
  BY <1>4, <1>9, SetList
<1> HIDE DEF e
<1>11. \A t \in ListStates : In(e, t) = {}
  BY <1>10 DEF In, s, ListStates, ActiveStates, OpenStates
<1>12. ListsOK(e)
  BY <1>10, <1>11, EmptyLists DEF ListsOK, l
<1>13. NImp(e) = 0 /\ NExp(e) = 0 /\ NClosed(e) = 0
  <2>1. \A t \in ListStates : Len(l[t]) = 0
    BY EmptySeq DEF l
  <2> QED BY <1>10, <2>1 DEF NImp, NExp, NClosed, ListStates, ActiveStates,
                             OpenStates
<1>14. /\ NImp(d) \in Nat /\ NExp(d) \in Nat /\ NClosed(d) \in Nat
       /\ n = NImp(d) + NExp(d) /\ m = NClosed(d) + NImp(d) + NExp(d)
  BY Numbers
<1> HIDE DEF n, m
<1>15. /\ NImp(e) + NExp(e) = NImp(d) + NExp(d) - n
       /\ NClosed(e) + NImp(e) + NExp(e)
            = NClosed(d) + NImp(d) + NExp(d) - m
       /\ n \in Int /\ n >= 0 /\ m \in Int /\ m >= 0
  BY <1>13, <1>14, SMTT(20)
<1>16. LET f == GiveBack(e, n, m)
       IN /\ Good(f) /\ f.zs = e.zs /\ f.wp = e.wp /\ f.w_ptr = e.w_ptr
  BY <1>10, <1>12, <1>15, Recounted, SMTT(20)
<1> QED BY <1>5, <1>10, <1>16 DEF s, p, q

\* Offline on all zones touches no list and no counter.
LEMMA OfflinesAll ==
  ASSUME NEW d, Good(d)
  PROVE  LET e == OfflineAll(d)
         IN /\ Good(e) /\ e.wp = d.wp /\ e.w_ptr = d.w_ptr
            /\ e.zs = [z \in Zones |-> IF d.zs[z] = "READ_ONLY"
                                       THEN "OFFLINE" ELSE d.zs[z]]
<1> DEFINE s == [z \in Zones |-> IF d.zs[z] = "READ_ONLY"
                                 THEN "OFFLINE" ELSE d.zs[z]]
           a == [z \in Zones |-> ~(d.zs[z] = "READ_ONLY") /\ d.za[z]]
           c == [d EXCEPT !.zs = s]
           e == [c EXCEPT !.za = a]
<1>1. d \in PreDevice
  BY DEF Good
<1>2. s \in [Zones -> ZoneState] /\ a \in [Zones -> BOOLEAN]
  BY <1>1, Fields, Holds
<1>3. OfflineAll(d) = e
  BY DEF OfflineAll
<1> HIDE DEF s, a
<1>4. /\ c \in PreDevice /\ c.zs = s /\ c.wp = d.wp /\ c.w_ptr = d.w_ptr
      /\ c.list = d.list /\ c.nr_open = d.nr_open
      /\ c.nr_active = d.nr_active
  BY <1>1, <1>2, SetZs
<1> HIDE DEF c
<1>5. /\ e \in PreDevice /\ e.zs = s /\ e.wp = d.wp /\ e.w_ptr = d.w_ptr
      /\ e.list = d.list /\ e.nr_open = d.nr_open
      /\ e.nr_active = d.nr_active
  BY <1>2, <1>4, SetZa
<1> HIDE DEF e
<1>6. \A t \in ListStates : In(e, t) = In(d, t)
  BY <1>5 DEF In, s, ListStates, ActiveStates, OpenStates
<1>7. Good(e)
  BY <1>5, <1>6 DEF Good, ListsOK, CountersOK
<1> QED BY <1>3, <1>5, <1>7 DEF s

-----------------------------------------------------------------------------
(* Shutdown.                                                               *)

ClearZone(d, z) == zns_clear_zone(ReleaseResources(Unlink(d, z), z), z)

\* Zone z ends closed, or empty if nothing is written in it.
Cleared(d, e, z) ==
  /\ Good(e) /\ e.wp = d.wp /\ e.w_ptr = [d.w_ptr EXCEPT ![z] = d.wp[z]]
  /\ \E s \in {"CLOSED", "EMPTY"} :
       /\ e.zs = [d.zs EXCEPT ![z] = s] /\ Shifted(d, e, z, s)
       /\ s = "EMPTY" => d.wp[z] = 0

\* One iteration of a shutdown loop: the zone gives its resources back and,
\* if anything is written in it, is put back at the head of closed_zones.
LEMMA ClearsZone ==
  ASSUME NEW d, Good(d), NEW z \in Zones, d.zs[z] \in ActiveStates
  PROVE  Cleared(d, ClearZone(d, z), z)
<1> DEFINE u == Unlink(d, z)
           r == ReleaseResources(u, z)
           w == [r.w_ptr EXCEPT ![z] = r.wp[z]]
           p == [r EXCEPT !.w_ptr = w]
           o == 0 - InOpen(d.zs[z])
<1>1. d \in PreDevice /\ ListsOK(d)
  BY DEF Good
<1>2. Off(d, u, z)
  BY <1>1, Unlinked
<1> HIDE DEF u
<1>3. /\ u \in PreDevice /\ ListsBut(u, z) /\ u.zs = d.zs /\ u.wp = d.wp
      /\ u.w_ptr = d.w_ptr
      /\ u.nr_open = d.nr_open /\ u.nr_active = d.nr_active
  BY <1>2 DEF Off
<1>4. InActive(d.zs[z]) = 1 /\ o \in Int /\ o <= 0
  BY SMTT(20) DEF InActive, InOpen
<1>5. Counted(u, r, o, -1)
  <2>1. Counted(u, r, 0 - InOpen(u.zs[z]), 0 - InActive(u.zs[z]))
    BY <1>3, Released
  <2> QED BY <1>3, <1>4, <2>1, SmallSums
<1> HIDE DEF r
<1>6. r \in PreDevice /\ SameZones(u, r)
  BY <1>5 DEF Counted
<1>7. w \in [Zones -> Nat]
  BY <1>6, Fields
<1>8. p = [r EXCEPT !.w_ptr[z] = r.wp[z]]
  OBVIOUS
<1>9. w = [d.w_ptr EXCEPT ![z] = d.wp[z]]
  BY <1>3, <1>6 DEF SameZones
<1> HIDE DEF w
<1>10. /\ p \in PreDevice /\ p.w_ptr = w /\ p.wp = r.wp /\ p.zs = r.zs
       /\ p.list = r.list /\ p.za = r.za
       /\ p.nr_open = r.nr_open /\ p.nr_active = r.nr_active
  BY <1>6, <1>7, SetWptr
<1>11. ClearZone(d, z) =
         IF r.wp[z] # 0 \/ r.za[z]
         THEN [zns_aor_inc_active(p) EXCEPT
                 !.zs[z] = "CLOSED", !.list["CLOSED"] = <<z>> \o @]
         ELSE [p EXCEPT !.zs[z] = "EMPTY"]
  BY <1>8 DEF ClearZone, zns_clear_zone, u, r
<1> HIDE DEF p
<1>12. /\ p.wp = d.wp /\ p.zs = d.zs /\ ListsBut(p, z)
       /\ \A t \in ListStates :
            Len(p.list[t]) = IF t = d.zs[z] THEN Len(d.list[t]) - 1
                                            ELSE Len(d.list[t])
       /\ p.nr_open = d.nr_open + (IF MaxOpen = 0 THEN 0 ELSE o)
       /\ p.nr_active = d.nr_active + (IF MaxActive = 0 THEN 0 ELSE -1)
  <2>1. p.wp = d.wp /\ p.zs = d.zs /\ p.list = u.list /\ u.zs = p.zs
    BY <1>3, <1>6, <1>10 DEF SameZones
  <2>2. ListsBut(p, z)
    BY <1>3, <2>1 DEF ListsBut, In
  <2>3. /\ p.nr_open = d.nr_open + (IF MaxOpen = 0 THEN 0 ELSE o)
        /\ p.nr_active = d.nr_active + (IF MaxActive = 0 THEN 0 ELSE -1)
    BY <1>3, <1>5, <1>10 DEF Counted
  <2>4. \A t \in ListStates :
            Len(p.list[t]) = IF t = d.zs[z] THEN Len(d.list[t]) - 1
                                            ELSE Len(d.list[t])
    BY <1>2, <2>1 DEF Off
  <2> QED BY <2>1, <2>2, <2>3, <2>4
<1>13. CASE r.wp[z] # 0 \/ r.za[z]
  <2> DEFINE g == zns_aor_inc_active(p)
             f == [g.zs EXCEPT ![z] = "CLOSED"]
             l == <<z>> \o g.list["CLOSED"]
             k == [g.list EXCEPT !["CLOSED"] = l]
             h == [g EXCEPT !.zs = f]
             e == [h EXCEPT !.list = k]
  <2>1. Counted(p, g, 0, 1)
    BY <1>10, AorSteps
  <2> HIDE DEF g
  <2>2. /\ g \in PreDevice /\ g.zs = p.zs /\ g.wp = p.wp
        /\ g.w_ptr = p.w_ptr /\ g.list = p.list
        /\ g.nr_open = p.nr_open + (IF MaxOpen = 0 THEN 0 ELSE 0)
        /\ g.nr_active = p.nr_active + (IF MaxActive = 0 THEN 0 ELSE 1)
    BY <2>1 DEF Counted, SameZones
  <2>3. ListsBut(g, z)
    BY <1>12, <2>2 DEF ListsBut, In
  <2>4. "CLOSED" \in ListStates /\ "CLOSED" \in ZoneState
    BY DEF ListStates, ActiveStates, OpenStates, ZoneState
  <2>5. Lists(l, (In(g, "CLOSED") \ {z}) \cup {z})
        /\ Len(l) = Len(g.list["CLOSED"]) + 1
    <3>1. Lists(g.list["CLOSED"], In(g, "CLOSED") \ {z})
          /\ z \notin In(g, "CLOSED") \ {z}
      BY <2>3, <2>4 DEF ListsBut
    <3> QED BY <3>1, ConsLists
  <2>6. l \in Seq(Zones)
    <3>1. (In(g, "CLOSED") \ {z}) \cup {z} \subseteq Zones
      BY DEF In
    <3> QED BY <2>5, <3>1, SeqMonotonic DEF Lists
  <2>7. ClearZone(d, z) = [g EXCEPT !.zs[z] = "CLOSED",
                                    !.list["CLOSED"] = <<z>> \o @]
    BY <1>11, <1>13 DEF g
  <2>8. ClearZone(d, z) = e
    <3>1. h.list = g.list
      BY <2>2 DEF PreDevice
    <3> QED BY <2>7, <3>1
  <2> HIDE DEF l
  <2>9. f \in [Zones -> ZoneState] /\ k \in [ListStates -> Seq(Zones)]
    BY <2>2, <2>4, <2>6, Fields
  <2>10. \A t \in ListStates : k[t] = IF t = "CLOSED" THEN l ELSE g.list[t]
    BY <2>2, Fields
  <2> HIDE DEF f, k
  <2>11. /\ h \in PreDevice /\ h.zs = f /\ h.wp = g.wp /\ h.w_ptr = g.w_ptr
         /\ h.nr_open = g.nr_open /\ h.nr_active = g.nr_active
    BY <2>2, <2>9, SetZs
  <2> HIDE DEF h
  <2>12. /\ e \in PreDevice /\ e.zs = f /\ e.wp = g.wp /\ e.w_ptr = g.w_ptr
         /\ e.list = k
         /\ e.nr_open = g.nr_open /\ e.nr_active = g.nr_active
    BY <2>9, <2>11, SetList
  <2> HIDE DEF e
  <2>13. On(g, e, z, "CLOSED")
    BY <2>2, <2>3, <2>4, <2>5, <2>10, <2>12, PutOn DEF f
  <2>14. /\ g.nr_open = d.nr_open + (IF MaxOpen = 0 THEN 0 ELSE o)
         /\ g.nr_active = d.nr_active + (IF MaxActive = 0 THEN 0 ELSE 0)
    <3>1. d.nr_open \in Int /\ d.nr_active \in Int
      BY Limits
    <3> QED BY <1>4, <1>12, <2>2, <3>1, SMTT(20)
  <2>15. o = InOpen("CLOSED") - InOpen(d.zs[z])
         /\ 0 = InActive("CLOSED") - InActive(d.zs[z]) /\ 0 <= 0
    BY <1>4, Holds, SMTT(20)
  <2> HIDE DEF o
  <2>16. Charged(d, g, z, "CLOSED")
    BY <1>4, <2>4, <2>14, <2>15, ChargedBy, SMTT(20)
  <2>17. g.zs = d.zs /\ \A t \in ListStates :
            Len(g.list[t]) = IF t = d.zs[z] THEN Len(d.list[t]) - 1
                                            ELSE Len(d.list[t])
    BY <1>12, <2>2
  <2>18. /\ Good(e) /\ e.zs = [d.zs EXCEPT ![z] = "CLOSED"]
         /\ Shifted(d, e, z, "CLOSED") /\ e.wp = g.wp /\ e.w_ptr = g.w_ptr
    BY <2>2, <2>4, <2>13, <2>16, <2>17, Relinked, SMTT(20)
  <2> QED BY <1>9, <1>10, <1>12, <2>2, <2>8, <2>18 DEF Cleared
<1>14. CASE ~(r.wp[z] # 0 \/ r.za[z])
  <2> DEFINE f == [p.zs EXCEPT ![z] = "EMPTY"]
             e == [p EXCEPT !.zs = f]
  <2>1. ClearZone(d, z) = e
    BY <1>11, <1>14
  <2>2. "EMPTY" \notin ListStates /\ "EMPTY" \in ZoneState
    BY DEF ListStates, ActiveStates, OpenStates, ZoneState
  <2>3. f \in [Zones -> ZoneState]
    BY <1>10, <2>2, Fields
  <2> HIDE DEF f
  <2>4. /\ e \in PreDevice /\ e.zs = f /\ e.wp = p.wp /\ e.w_ptr = p.w_ptr
        /\ e.list = p.list
        /\ e.nr_open = p.nr_open /\ e.nr_active = p.nr_active
    BY <1>10, <2>3, SetZs
  <2> HIDE DEF e
  <2>5. On(p, e, z, "EMPTY")
    BY <1>10, <1>12, <2>2, <2>4, PutOn DEF f
  <2>6. o = InOpen("EMPTY") - InOpen(d.zs[z])
         /\ -1 = InActive("EMPTY") - InActive(d.zs[z])
         /\ -1 <= 0 /\ -1 \in Int
    BY <1>4, Holds, SMTT(20)
  <2> HIDE DEF o
  <2>7. Charged(d, p, z, "EMPTY")
    BY <1>4, <1>12, <2>2, <2>6, ChargedBy
  <2>8. /\ Good(e) /\ e.zs = [d.zs EXCEPT ![z] = "EMPTY"]
         /\ Shifted(d, e, z, "EMPTY") /\ e.wp = p.wp /\ e.w_ptr = p.w_ptr
    BY <1>10, <1>12, <2>2, <2>5, <2>7, Relinked, SMTT(20)
  <2>9. d.wp[z] = 0
    BY <1>10, <1>12, <1>14
  <2> QED BY <1>9, <1>10, <1>12, <2>1, <2>8, <2>9 DEF Cleared
<1> QED BY <1>13, <1>14
=============================================================================
