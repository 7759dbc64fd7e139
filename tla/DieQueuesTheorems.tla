------------------------- MODULE DieQueuesTheorems --------------------------
(***************************************************************************)
(* What the request path of fairness.c keeps for any number of requests,   *)
(* zones and dies, when hosts are disciplined and write only zones they    *)
(* opened: the mapping underneath is the one of DynamicMapping, requests   *)
(* are counted right, and no write overtakes the erase of its block.       *)
(***************************************************************************)
EXTENDS DieQueuesSteps

\* Leaves are for Zenon, the ones with arithmetic or records name SMT.
USE ZenonT(20)

(***************************************************************************)
(* The steps of zns_req_distribute.                                        *)
(***************************************************************************)
LEMMA HeldIsMapped ==
  ASSUME MappingInv, NEW z \in Zones
  PROVE  /\ map \in Mappings /\ PlaceOK(map.phy[z]) /\ map.phy[z].n \in Nat
         /\ z \in held => map.phy[z].n # 0
<1>1. map \in Mappings /\ PlaceOK(map.phy[z]) /\ (z \in held => map.phy[z].n # 0)
  BY DEF MappingInv, Sound
<1>2. map.phy[z] \in Places
  BY <1>1 DEF Mappings
<1>3. map.phy[z].n \in Nat
  BY <1>2 DEF Places
<1> QED BY <1>1, <1>3

\* Opening or closing a zone, as the mapping sees it.
LEMMA ManageStep ==
  ASSUME WorkInv, ClockInv, NEW r \in Reqs, NEW z \in Zones, Manage(r, z)
  PROVE  [MappingNext]_mvars /\ WorkInv' /\ ClockInv'
<1>1. WorkInv'
  BY DirectCounts DEF Manage, Accepts
<1>2. ClockInv'
  BY DEF Manage, ClockInv
<1>3. [MappingNext]_mvars
  BY DEF Manage, Accepts, MappingNext
<1> QED BY <1>1, <1>2, <1>3

\* A reset, as the mapping sees it.
LEMMA ResetZoneStep ==
  ASSUME Disciplined, MappingInv, WorkInv, ClockInv, NEW r \in Reqs, NEW z \in Zones,
         ResetZone(r, z)
  PROVE  [MappingNext]_mvars /\ WorkInv' /\ ClockInv'
<1>1. ClockInv'
  BY DEF ResetZone, ClockInv
<1>2. [MappingNext]_mvars
  BY DEF ResetZone, Accepts, MappingNext
<1>3. z \in held /\ req[r].state = "free"
  BY DEF ResetZone, Reset, Disciplined, Accepts
<1>4. CASE Erases(map, z)
  <2> DEFINE ts == EraseTransactions(map, r, z)
  <2>1. Submit(r, ts)
    BY <1>4 DEF ResetZone
  <2>2. Serves(ts, map, r, "erase", z) /\ Len(ts) > 0
    BY <1>3, HeldIsMapped, EraseServes
  <2> HIDE DEF ts
  <2>3. ts \in Seq(Transactions) /\ \A k \in 1..Len(ts) : ts[k].r = r
    BY <2>2 DEF Serves
  <2>4. WorkInv'
    BY <1>3, <2>1, <2>2, <2>3, SubmitCounts
  <2> QED BY <1>1, <1>2, <2>4
<1>5. CASE ~Erases(map, z)
  <2>1. Direct(r)
    BY <1>5 DEF ResetZone
  <2> QED BY <1>1, <1>2, <1>3, <2>1, DirectCounts
<1> QED BY <1>4, <1>5

\* A read or a write leaves the mapping alone.
LEMMA ReadWriteStep ==
  ASSUME MappingInv, WorkInv, ClockInv, NEW r \in Reqs, NEW op \in IoOps, NEW z \in Zones,
         NEW w \in Lbas, NEW n \in 1..MaxNlb, ReadWrite(r, op, z, w, n)
  PROVE  /\ UNCHANGED mvars \/ (MayWriteUnopened /\ UNCHANGED <<map, held>>)
         /\ WorkInv' /\ ClockInv'
<1>1. req[r].state = "free"
  BY DEF ReadWrite, Accepts
<1>2. ClockInv'
  <2>1. seen + 1 \in Nat /\ StartUpReqs + 1 \in Nat /\ seen \in Nat
    BY Device, SMTT(20) DEF ClockInv
  <2>2. seen' = Min({seen + 1, StartUpReqs + 1})
    BY DEF ReadWrite
  <2>3. seen' \in {seen + 1, StartUpReqs + 1} /\ seen' <= StartUpReqs + 1
    BY <2>1, <2>2, MinOfTwo
  <2>4. seen' \in 0..(StartUpReqs + 1)
    BY <2>1, <2>3, SMTT(20)
  <2>5. UNCHANGED <<busy, cur, cell>>
    BY DEF ReadWrite
  <2> QED BY <2>4, <2>5 DEF ClockInv
<1>3. CASE Direct(r) /\ UNCHANGED mvars
  BY <1>1, <1>2, <1>3, DirectCounts
<1>4. CASE map.phy[z].n > 0 /\ Submit(r, zone_rw(map, r, op, z, w, n)) /\ UNCHANGED mvars
  <2> DEFINE ts == zone_rw(map, r, op, z, w, n)
  <2>1. map.phy[z].n # 0 /\ map \in Mappings /\ PlaceOK(map.phy[z])
    <3>1. map \in Mappings /\ PlaceOK(map.phy[z]) /\ map.phy[z].n \in Nat
      BY HeldIsMapped
    <3> QED BY <1>4, <3>1, SMTT(20)
  <2>2. Serves(ts, map, r, op, z) /\ (BlocksLeft(w, n) > 0 => Len(ts) > 0)
    BY <2>1, RwServes
  <2>3. MayStayInPage \/ Len(ts) > 0
    BY <2>2 DEF ReadWrite
  <2>4. Submit(r, ts)
    BY <1>4
  <2> HIDE DEF ts
  <2>5. ts \in Seq(Transactions) /\ \A k \in 1..Len(ts) : ts[k].r = r
    BY <2>2 DEF Serves
  <2>6. WorkInv'
    BY <1>1, <2>3, <2>4, <2>5, SubmitCounts
  <2> QED BY <1>2, <1>4, <2>6
<1>5. CASE ~(map.phy[z].n > 0) /\ op = "write" /\ UNCHANGED <<map, held, req, queue>>
  <2>1. z \notin held
    <3>1. map.phy[z].n \in Nat /\ (z \in held => map.phy[z].n # 0)
      BY HeldIsMapped
    <3> QED BY <1>5, <3>1, SMTT(20)
  <2>2. MayWriteUnopened
    BY <1>5, <2>1 DEF ReadWrite
  <2>3. WorkInv'
    BY <1>5 DEF WorkInv
  <2> QED BY <1>2, <1>5, <2>2, <2>3
<1>6. (Direct(r) /\ UNCHANGED mvars) \/ Transfer(r, op, z, w, n)
  BY DEF ReadWrite
<1>7. CASE Transfer(r, op, z, w, n)
  BY <1>3, <1>4, <1>5, <1>7 DEF Transfer, IoOps
<1> QED BY <1>3, <1>6, <1>7

QueueInv == MappingInv /\ WorkInv /\ ClockInv

\* Every step keeps the invariant and is a step of the mapping, or none, but
\* for the failed assertion of a write to an unopened zone.
LEMMA QueueSteps ==
  ASSUME Disciplined, QueueInv, [Next]_vars
  PROVE  /\ [MappingNext]_mvars \/ (MayWriteUnopened /\ UNCHANGED <<map, held>>)
         /\ QueueInv'
<1>1. MappingInv /\ WorkInv /\ ClockInv
  BY DEF QueueInv
<1>2. /\ [MappingNext]_mvars \/ (MayWriteUnopened /\ UNCHANGED <<map, held>>)
      /\ WorkInv' /\ ClockInv'
  <2>1. CASE \E r \in Reqs, z \in Zones : Manage(r, z)
    BY <1>1, <2>1, ManageStep
  <2>2. CASE \E r \in Reqs, z \in Zones : ResetZone(r, z)
    BY <1>1, <2>2, ResetZoneStep
  <2>3. CASE \E r \in Reqs, z \in Zones, op \in IoOps, w \in Lbas, n \in 1..MaxNlb :
               ReadWrite(r, op, z, w, n)
    BY <1>1, <2>3, ReadWriteStep
  <2>4. CASE PollDie
    <3>1. UNCHANGED mvars
      BY <2>4 DEF PollDie, mvars
    <3> QED BY <1>1, <2>4, <3>1, PollCounts
  <2>5. CASE Tick
    <3>1. UNCHANGED mvars
      BY <2>5 DEF Tick, mvars
    <3> QED BY <1>1, <2>5, <3>1, TickCounts
  <2>6. CASE \E r \in Reqs : Complete(r)
    <3>1. PICK r \in Reqs : Complete(r)
      BY <2>6
    <3>2. UNCHANGED mvars /\ ClockInv'
      BY <1>1, <3>1 DEF Complete, mvars, ClockInv
    <3> QED BY <1>1, <3>1, <3>2, CompleteCounts
  <2>7. CASE UNCHANGED vars
    <3>1. UNCHANGED mvars /\ UNCHANGED <<queue, busy, req, cur, seen, cell>>
      BY <2>7 DEF vars, mvars
    <3>2. WorkInv' /\ ClockInv'
      BY <1>1, <3>1 DEF WorkInv, ClockInv
    <3> QED BY <3>1, <3>2
  <2> QED BY <2>1, <2>2, <2>3, <2>4, <2>5, <2>6, <2>7 DEF Next, Distribute
<1>3. MappingInv'
  <2>1. CASE [MappingNext]_mvars
    BY <1>1, <2>1, MappingStep
  <2>2. CASE UNCHANGED <<map, held>>
    BY <1>1, <2>2 DEF MappingInv
  <2> QED BY <1>2, <2>1, <2>2
<1> QED BY <1>2, <1>3 DEF QueueInv

\* The invariant holds at the start.
LEMMA QueueInit ==
  ASSUME Init
  PROVE  QueueInv
<1>1. MappingInv
  BY InitSound DEF Init
<1>2. ClockInv
  BY DieCount, Device, SMTT(20) DEF Init, ClockInv
<1>3. queue \in Queues /\ \A d \in Dies : queue[d] = <<>> /\ Len(queue[d]) = 0
  BY EmptySeq DEF Init, Queues
<1>4. OnOwnDie(queue)
  BY <1>3, SMTT(20) DEF OnOwnDie
<1>5. Idle \in Requests /\ Idle.state = "free" /\ Idle.ts_num = 0
  BY DEF Idle, Requests
<1>6. req = [r \in Reqs |-> Idle]
  BY DEF Init
<1>7. ASSUME NEW r \in Reqs PROVE Counted(req[r], queue, r)
  <2>1. ASSUME NEW p \in Queued(queue, r) PROVE FALSE
    <3>1. PICK d \in Dies, i \in Nat : i \in 1..Len(queue[d])
      BY <1>3, QueuedPlaces
    <3> QED BY <1>3, <3>1, SMTT(20)
  <2>2. Queued(queue, r) = {}
    BY <2>1
  <2>3. IsFiniteSet(Queued(queue, r)) /\ Cardinality(Queued(queue, r)) = 0
    BY <2>2, FS_EmptySet
  <2>4. req[r] = Idle
    BY <1>6
  <2> QED BY <1>5, <2>3, <2>4 DEF Counted
<1>8. req \in [Reqs -> Requests]
  BY <1>5, <1>6
<1> QED BY <1>1, <1>2, <1>3, <1>4, <1>7, <1>8 DEF QueueInv, WorkInv

(***************************************************************************)
(* The theorems on requests, and the mapping below them.                   *)
(***************************************************************************)

\* The inductive invariant of the request path: a transaction waits in the
\* queue of its die and a request counts its transactions, in any geometry.
THEOREM QueueInvariant ==
  ASSUME Disciplined
  PROVE  Spec => []QueueInv
<1>1. Init => QueueInv
  BY QueueInit
<1>2. QueueInv /\ [Next]_vars => QueueInv'
  BY QueueSteps
<1> QED BY <1>1, <1>2, PTL DEF Spec

\* zns_req_distribute and zns_process_die_queue keep requests, transactions and
\* times well formed: zone_rw and zone_reset name dies and blocks the device
\* has, whatever the zone's mapping, and release_ts never takes ts_num below 0.
THEOREM RequestsWellFormed ==
  ASSUME Disciplined
  PROVE  Spec => []FtlTypeOK
<1>1. QueueInv => FtlTypeOK
  BY DEF QueueInv, WorkInv, ClockInv, Queues, Transactions, Requests, FtlTypeOK
<1> QED BY <1>1, QueueInvariant, PTL

\* When every request ends past the page it starts in, ts_num is the number of
\* transactions the request has in the die queues, and a request is pending
\* exactly while it has one: release_ts submits every request once.
THEOREM NoRequestLost ==
  ASSUME Disciplined, ~MayStayInPage
  PROVE  Spec => []PendingHasWork
<1>1. ASSUME QueueInv PROVE PendingHasWork
  <2> SUFFICES ASSUME NEW r \in Reqs
               PROVE  /\ req[r].ts_num = Cardinality(QueuedOf(r))
                      /\ req[r].state = "pending" <=> req[r].ts_num > 0
    BY DEF PendingHasWork
  <2>1. Counted(req[r], queue, r) /\ req[r] \in Requests
    BY <1>1 DEF QueueInv, WorkInv
  <2>2. QueuedOf(r) = Queued(queue, r)
    BY DEF QueuedOf, Queued
  <2>3. req[r].ts_num \in Nat
    BY <2>1 DEF Requests
  <2> QED BY <2>1, <2>2, <2>3, SMTT(20) DEF Counted
<1> QED BY <1>1, QueueInvariant, PTL

\* Hosts that write only zones they opened see the request path as the mapping
\* alone: every step of fairness.c opens, closes or resets a zone as the
\* mapping says, or leaves it as it is.  The mapping's theorems hold of it.
THEOREM QueuesImplementMapping ==
  ASSUME Disciplined, ~MayWriteUnopened
  PROVE  Spec => MappingSpec
<1>1. Init => MappingInit
  BY DEF Init
<1>2. QueueInv /\ [Next]_vars => [MappingNext]_mvars
  BY QueueSteps
<1> QED BY <1>1, <1>2, QueueInvariant, PTL DEF Spec, MappingSpec

\* No step of the mapping fails the assertion of zone_rw.
LEMMA MappingFaults ==
  ASSUME fault # "write_unmapped", [MappingNext]_mvars
  PROVE  fault' # "write_unmapped"
<1>1. \A m : OpenFault(m) # "write_unmapped"
  BY DEF OpenFault, AllocFault
<1>2. \A m, z : zone_close_fault(m, z) # "write_unmapped" /\ zone_reset_fault(m, z) # "write_unmapped"
  BY DEF zone_close_fault, zone_reset_fault
<1>3. CASE MappingNext
  <2>1. PICK z \in Zones : Open(z) \/ Close(z) \/ Reset(z)
    BY <1>3 DEF MappingNext
  <2> QED BY <1>1, <1>2, <2>1 DEF Open, Close, Reset, zone_open_fault
<1>4. CASE UNCHANGED mvars
  BY <1>4 DEF mvars
<1> QED BY <1>3, <1>4

\* The assertion of zone_rw that a zone written past the start-up is mapped
\* never fails for such hosts.
THEOREM WritesAreMapped ==
  ASSUME Disciplined, ~MayWriteUnopened
  PROVE  Spec => []WritesFindMapping
<1>1. MappingInit => WritesFindMapping
  BY DEF MappingInit, WritesFindMapping
<1>2. WritesFindMapping /\ [MappingNext]_mvars => WritesFindMapping'
  BY MappingFaults DEF WritesFindMapping
<1> QED BY <1>1, <1>2, QueuesImplementMapping, PTL DEF MappingSpec

(***************************************************************************)
(* No write overtakes the erase of its block.  On a die with cells c and   *)
(* queue s, zone a marks block f at place i when its data is there now     *)
(* (i = 0) or a write of it is the i-th transaction.  Between the marks of *)
(* two zones there is an erase (Clean), and the zone that marks a block    *)
(* holds data in it or an erase is still to come (Covered).                *)
(***************************************************************************)
Mark(c, s, i, f, a) ==
  IF i = 0 THEN c[f] = a ELSE s[i].op = "write" /\ s[i].blk = f /\ s[i].zone = a

ErasedAt(s, k, f) == s[k].op = "erase" /\ s[k].blk = f

Clean(c, s) ==
  \A f \in Fbgs, a, b \in Zones, i, j \in 0..Len(s) :
    i < j /\ a # b /\ Mark(c, s, i, f, a) /\ Mark(c, s, j, f, b) =>
      \E k \in 1..Len(s) : i < k /\ k < j /\ ErasedAt(s, k, f)

Owns(m, h, d, a, f) ==
  a \in h /\ d \div DiesPerGroup \in GroupsOf(m, a) /\ m.phy[a].ofst = f

Covered(c, s, m, h, d) ==
  \A f \in Fbgs, a \in Zones, i \in 0..Len(s) :
    Mark(c, s, i, f, a) =>
      Owns(m, h, d, a, f) \/ \E k \in 1..Len(s) : i < k /\ ErasedAt(s, k, f)

EraseInv ==
  \A d \in Dies : /\ Clean(cell[d], queue[d])
                  /\ Covered(cell[d], queue[d], map, held, d)

\* In the full mapping a block of a die has one owner.
LEMMA OneOwner ==
  ASSUME NEW m, NEW h, Sound(m, h), Exact(m, h), Parts = 1, NEW d,
         NEW a, NEW b, NEW f, Owns(m, h, d, a, f), Owns(m, h, d, b, f)
  PROVE  a = b
<1>1. a \in h /\ b \in h
  BY DEF Owns
<1>2. GroupsOf(m, a) = {m.phy[a].first} /\ GroupsOf(m, b) = {m.phy[b].first}
  BY <1>1, OneGroup
<1> QED BY <1>1, <1>2 DEF Owns, Exact

\* Writes of an owner may join the queue; so may reads and erases.
LEMMA JoinKeeps ==
  ASSUME NEW m, NEW h, Sound(m, h), Exact(m, h), Parts = 1, NEW d,
         NEW c, NEW s \in Seq(Transactions), NEW u \in Seq(Transactions), Len(s) <= Len(u),
         \A i \in 1..Len(s) : u[i] = s[i],
         \A i \in 1..Len(u) : i \notin 1..Len(s) /\ u[i].op = "write" =>
           Owns(m, h, d, u[i].zone, u[i].blk),
         Clean(c, s), Covered(c, s, m, h, d)
  PROVE  Clean(c, u) /\ Covered(c, u, m, h, d)
<1>1. Len(s) \in Nat /\ Len(u) \in Nat
  BY LenProperties
<1>2. ASSUME NEW f \in Fbgs, NEW a \in Zones, NEW i \in 0..Len(u), Mark(c, u, i, f, a)
      PROVE  (i \in 0..Len(s) /\ Mark(c, s, i, f, a)) \/ (i > Len(s) /\ Owns(m, h, d, a, f))
  <2>1. CASE i = 0
    BY <1>1, <1>2, <2>1, SMTT(20) DEF Mark
  <2>2. CASE i \in 1..Len(s)
    BY <1>1, <1>2, <2>2, SMTT(20) DEF Mark
  <2>3. CASE i > Len(s)
    <3>1. i \in 1..Len(u) /\ i \notin 1..Len(s) /\ i # 0
      BY <1>1, <2>3, SMTT(20)
    <3> QED BY <1>2, <2>3, <3>1 DEF Mark
  <2> QED BY <1>1, <2>1, <2>2, <2>3, SMTT(20)
<1>3. ASSUME NEW f \in Fbgs, NEW k \in 1..Len(s), ErasedAt(s, k, f)
      PROVE  k \in 1..Len(u) /\ ErasedAt(u, k, f)
  BY <1>1, <1>3, SMTT(20) DEF ErasedAt
<1>4. Covered(c, u, m, h, d)
  <2> SUFFICES ASSUME NEW f \in Fbgs, NEW a \in Zones, NEW i \in 0..Len(u), Mark(c, u, i, f, a)
               PROVE  Owns(m, h, d, a, f) \/ \E k \in 1..Len(u) : i < k /\ ErasedAt(u, k, f)
    BY DEF Covered
  <2>1. CASE Owns(m, h, d, a, f)
    BY <2>1
  <2>2. CASE i \in 0..Len(s) /\ Mark(c, s, i, f, a)
    <3>1. Owns(m, h, d, a, f) \/ \E k \in 1..Len(s) : i < k /\ ErasedAt(s, k, f)
      BY <2>2 DEF Covered
    <3> QED BY <1>3, <3>1
  <2> QED BY <1>2, <2>1, <2>2
<1>5. Clean(c, u)
  <2> SUFFICES ASSUME NEW f \in Fbgs, NEW a \in Zones, NEW b \in Zones,
                      NEW i \in 0..Len(u), NEW j \in 0..Len(u),
                      i < j, a # b, Mark(c, u, i, f, a), Mark(c, u, j, f, b)
               PROVE  \E k \in 1..Len(u) : i < k /\ k < j /\ ErasedAt(u, k, f)
    BY DEF Clean
  <2>1. CASE j \in 0..Len(s) /\ Mark(c, s, j, f, b)
    <3>1. i \in 0..Len(s) /\ Mark(c, s, i, f, a)
      BY <1>1, <1>2, <2>1, SMTT(20)
    <3>2. \E k \in 1..Len(s) : i < k /\ k < j /\ ErasedAt(s, k, f)
      BY <2>1, <3>1 DEF Clean
    <3> QED BY <1>3, <3>2
  <2>2. CASE j > Len(s) /\ Owns(m, h, d, b, f)
    <3>1. ~Owns(m, h, d, a, f)
      BY <2>2, OneOwner
    <3>2. i \in 0..Len(s) /\ Mark(c, s, i, f, a)
      BY <1>2, <3>1
    <3>3. PICK k \in 1..Len(s) : i < k /\ ErasedAt(s, k, f)
      BY <3>1, <3>2 DEF Covered
    <3>4. k < j
      BY <1>1, <2>2, SMTT(20)
    <3> QED BY <1>3, <3>3, <3>4
  <2> QED BY <1>2, <2>1, <2>2
<1> QED BY <1>4, <1>5

\* Executing the first transaction moves the marks up by one.
LEMMA TakeKeeps ==
  ASSUME NEW m, NEW h, NEW d,
         NEW c \in [Fbgs -> Zones \cup {NoZone}], NEW s \in Seq(Transactions), s # <<>>,
         NEW v, s[1].op = "write" => v = s[1].zone, s[1].op = "erase" => v = NoZone,
         s[1].op = "read" => v = c[s[1].blk],
         Clean(c, s), Covered(c, s, m, h, d)
  PROVE  LET e == [c EXCEPT ![s[1].blk] = v]
         IN  Clean(e, Tail(s)) /\ Covered(e, Tail(s), m, h, d)
<1> DEFINE e == [c EXCEPT ![s[1].blk] = v]
           u == Tail(s)
           t == s[1]
<1>1. /\ Len(s) \in Nat \ {0} /\ Len(u) = Len(s) - 1
      /\ \A i \in 1..Len(u) : u[i] = s[i + 1]
  BY EmptySeq, LenProperties, HeadTailProperties
<1>2. t \in Transactions
  BY <1>1, ElementOfSeq, SMTT(20)
<1>3. t.blk \in Fbgs /\ t.op \in {"read", "write", "erase"}
  BY <1>2 DEF Transactions, IoOps
<1>4. /\ e[t.blk] = v
      /\ \A f \in Fbgs : f # t.blk => e[f] = c[f]
  BY <1>3
<1> HIDE DEF e, u
<1>5. ASSUME NEW f \in Fbgs, NEW a \in Zones, NEW i \in 0..Len(u), Mark(e, u, i, f, a)
      PROVE  /\ i + 1 \in 0..Len(s)
             /\ \/ Mark(c, s, i + 1, f, a)
                \/ i = 0 /\ Mark(c, s, 0, f, a) /\ ~ErasedAt(s, 1, f)
  <2>1. i + 1 \in 0..Len(s) /\ i + 1 # 0 /\ i \in Nat
    BY <1>1, SMTT(20)
  <2>2. CASE i # 0
    <3>1. i \in 1..Len(u)
      BY <1>1, <2>2, SMTT(20)
    <3>2. u[i].op = "write" /\ u[i].blk = f /\ u[i].zone = a /\ u[i] = s[i + 1]
      BY <1>1, <1>5, <2>2, <3>1 DEF Mark
    <3> QED BY <2>1, <3>2 DEF Mark
  <2>3. CASE i = 0 /\ f # t.blk
    BY <1>4, <1>5, <2>1, <2>3 DEF Mark, ErasedAt
  <2>4. CASE i = 0 /\ f = t.blk
    <3>1. v = a
      BY <1>4, <1>5, <2>4 DEF Mark
    <3>2. t.op # "erase"
      BY <3>1, Device
    <3>3. CASE t.op = "write"
      <4>1. i + 1 = 1
        BY <2>4, SMTT(20)
      <4>2. s[1].op = "write" /\ s[1].blk = f /\ s[1].zone = a
        BY <2>4, <3>1, <3>3
      <4> QED BY <2>1, <4>1, <4>2 DEF Mark
    <3>4. CASE t.op = "read"
      <4>1. c[f] = a
        BY <2>4, <3>1, <3>4
      <4> QED BY <2>1, <2>4, <3>2, <4>1 DEF Mark, ErasedAt
    <3> QED BY <1>3, <3>2, <3>3, <3>4
  <2> QED BY <2>2, <2>3, <2>4
<1>6. ASSUME NEW f \in Fbgs, NEW k \in 1..Len(s), k # 1, ErasedAt(s, k, f)
      PROVE  k - 1 \in 1..Len(u) /\ ErasedAt(u, k - 1, f)
  <2>1. k - 1 \in 1..Len(u) /\ (k - 1) + 1 = k
    BY <1>1, <1>6, SMTT(20)
  <2>2. u[k - 1] = s[k]
    BY <1>1, <2>1
  <2> QED BY <1>6, <2>1, <2>2 DEF ErasedAt
<1>a. \A i, j \in Nat, k \in 1..Len(s) :
        /\ i + 1 < k => k # 1 /\ i < k - 1
        /\ k # 1 => 0 < k - 1
        /\ k < j + 1 => k - 1 < j
  BY <1>1, SMTT(20)
<1>b. \A i \in 0..Len(u) : i \in Nat /\ i + 1 \in 0..Len(s)
  BY <1>1, SMTT(20)
<1>c. 0 \in 0..Len(s) /\ 0 + 1 = 1
  BY <1>1, SMTT(20)
<1>7. Covered(e, u, m, h, d)
  <2> SUFFICES ASSUME NEW f \in Fbgs, NEW a \in Zones, NEW i \in 0..Len(u),
                      Mark(e, u, i, f, a), ~Owns(m, h, d, a, f)
               PROVE  \E k \in 1..Len(u) : i < k /\ ErasedAt(u, k, f)
    BY DEF Covered
  <2>1. i \in Nat
    BY <1>b
  <2>2. CASE Mark(c, s, i + 1, f, a)
    <3>1. PICK k \in 1..Len(s) : i + 1 < k /\ ErasedAt(s, k, f)
      BY <1>b, <2>2 DEF Covered
    <3>2. k # 1 /\ i < k - 1
      BY <1>a, <2>1, <3>1
    <3> QED BY <1>6, <3>1, <3>2
  <2>3. CASE i = 0 /\ Mark(c, s, 0, f, a) /\ ~ErasedAt(s, 1, f)
    <3>1. PICK k \in 1..Len(s) : 0 < k /\ ErasedAt(s, k, f)
      BY <1>c, <2>3 DEF Covered
    <3>2. k # 1
      BY <2>3, <3>1
    <3>3. i < k - 1
      BY <1>a, <1>c, <2>1, <2>3, <3>2
    <3> QED BY <1>6, <3>1, <3>2, <3>3
  <2> QED BY <1>5, <2>2, <2>3
<1>8. Clean(e, u)
  <2> SUFFICES ASSUME NEW f \in Fbgs, NEW a \in Zones, NEW b \in Zones,
                      NEW i \in 0..Len(u), NEW j \in 0..Len(u),
                      i < j, a # b, Mark(e, u, i, f, a), Mark(e, u, j, f, b)
               PROVE  \E k \in 1..Len(u) : i < k /\ k < j /\ ErasedAt(u, k, f)
    BY DEF Clean
  <2>1. i \in Nat /\ j \in Nat /\ j # 0
    BY <1>b, SMTT(20)
  <2>2. Mark(c, s, j + 1, f, b)
    BY <1>5, <2>1
  <2>3. i + 1 < j + 1 /\ 0 < j + 1
    BY <2>1, SMTT(20)
  <2>4. CASE Mark(c, s, i + 1, f, a)
    <3>1. PICK k \in 1..Len(s) : i + 1 < k /\ k < j + 1 /\ ErasedAt(s, k, f)
      BY <1>b, <2>2, <2>3, <2>4 DEF Clean
    <3>2. k # 1 /\ i < k - 1 /\ k - 1 < j
      BY <1>a, <2>1, <3>1
    <3> QED BY <1>6, <3>1, <3>2
  <2>5. CASE i = 0 /\ Mark(c, s, 0, f, a) /\ ~ErasedAt(s, 1, f)
    <3>1. PICK k \in 1..Len(s) : 0 < k /\ k < j + 1 /\ ErasedAt(s, k, f)
      BY <1>b, <1>c, <2>2, <2>3, <2>5 DEF Clean
    <3>2. k # 1
      BY <2>5, <3>1
    <3>3. i < k - 1 /\ k - 1 < j
      BY <1>a, <2>1, <2>5, <3>1, <3>2
    <3> QED BY <1>6, <3>1, <3>2, <3>3
  <2> QED BY <1>5, <2>4, <2>5
<1> QED BY <1>7, <1>8 DEF e, u

\* Queueing writes of a zone on blocks it owns keeps every block clean ahead
\* of its writes.
LEMMA SubmitJoins ==
  ASSUME MappingInv, FullInv, WorkInv, EraseInv, Parts = 1,
         NEW ts \in Seq(Transactions),
         \A k \in 1..Len(ts) : ts[k].op = "write" =>
           Owns(map, held, ts[k].die, ts[k].zone, ts[k].blk),
         NEW d \in Dies
  PROVE  LET u == InsertInTail(queue, ts)
         IN  Clean(cell[d], u[d]) /\ Covered(cell[d], u[d], map, held, d)
<1> DEFINE u == InsertInTail(queue, ts)[d]
           s == queue[d]
<1>1. queue \in Queues
  BY DEF WorkInv
<1>2. s \in Seq(Transactions) /\ u \in Seq(Transactions)
  BY <1>1, Inserted DEF Queues
<1>3. /\ Len(s) <= Len(u)
      /\ \A i \in 1..Len(s) : u[i] = s[i]
      /\ \A i \in 1..Len(u) : i \notin 1..Len(s) =>
           \E k \in 1..Len(ts) : u[i] = ts[k] /\ ts[k].die = d
  <2>1. FollowedBy(s, u, ts, d)
    BY <1>1, InsertedPlaces
  <2> QED BY <2>1 DEF FollowedBy
<1>4. Clean(cell[d], s) /\ Covered(cell[d], s, map, held, d)
  BY DEF EraseInv
<1>5. Sound(map, held) /\ Exact(map, held)
  BY DEF MappingInv, FullInv
<1> HIDE DEF u, s
<1>6. \A i \in 1..Len(u) : i \notin 1..Len(s) /\ u[i].op = "write" =>
        Owns(map, held, d, u[i].zone, u[i].blk)
  BY <1>3
<1>7. Clean(cell[d], u) /\ Covered(cell[d], u, map, held, d)
  BY <1>2, <1>3, <1>4, <1>5, <1>6, JoinKeeps
<1> QED BY <1>7 DEF u

\* Opening and closing zones takes no block from its owner.
LEMMA OwnersStay ==
  ASSUME Disciplined, MappingInv, NEW z \in Zones, Open(z) \/ Close(z) \/ UNCHANGED mvars,
         NEW d, NEW a, NEW f, Owns(map, held, d, a, f)
  PROVE  Owns(map', held', d, a, f)
<1>1. map \in Mappings /\ SharesOK(map) /\ held \in SUBSET Zones
  BY DEF MappingInv, Sound
<1>2. a \in held
  BY DEF Owns
<1>3. a \in held' /\ map'.phy[a] = map.phy[a]
  <2>1. CASE Open(z) /\ zone_open_fault(map, z) = "none"
    <3> DEFINE b == Append1(map, z)
               c == zone_open(map, z)
    <3>1. PICK g \in Groups, n \in {1, Parts} : \E q \in Fbgs, k \in 0..(n - 1) :
            Placed(b, c, z, g, n, q, k)
      BY <1>1, <2>1, OpenMaps
    <3>2. b.phy = map.phy
      BY <1>1, Appended
    <3> HIDE DEF b, c
    <3>3. PICK p : c.phy = [b.phy EXCEPT ![z] = p]
      BY <3>1 DEF Placed
    <3>4. map' = c /\ held' = held \cup {z} /\ z \notin held
      BY <2>1 DEF Open, Disciplined, c
    <3>5. a # z /\ map.phy \in [Zones -> Places]
      BY <1>1, <1>2, <3>4 DEF Mappings
    <3>6. c.phy[a] = map.phy[a]
      BY <1>1, <1>2, <3>2, <3>3, <3>5
    <3> QED BY <1>2, <3>4, <3>6
  <2>2. CASE Open(z) /\ zone_open_fault(map, z) # "none"
    <3>1. zone_open(map, z) = map
      BY <2>2 DEF zone_open
    <3> QED BY <1>2, <2>2, <3>1 DEF Open
  <2>3. CASE Close(z)
    <3>1. held' = held /\ map' = zone_close(map, z)
      BY <2>3 DEF Close
    <3>2. zone_close(map, z).phy = map.phy
      BY <1>1 DEF zone_close, Mappings
    <3> QED BY <1>2, <3>1, <3>2
  <2>4. CASE UNCHANGED mvars
    BY <1>2, <2>4 DEF mvars
  <2> QED BY <2>1, <2>2, <2>3, <2>4
<1> QED BY <1>3 DEF Owns, GroupsOf

\* Opening and closing zones keep EraseInv: a new zone's block has been
\* erased or its erase is queued.
LEMMA ManageErased ==
  ASSUME Disciplined, MappingInv, EraseInv, NEW r \in Reqs, NEW z \in Zones, Manage(r, z)
  PROVE  EraseInv'
<1>1. queue' = queue /\ cell' = cell /\ (Open(z) \/ Close(z) \/ UNCHANGED mvars)
  BY DEF Manage, Direct
<1>2. \A d, a, f : Owns(map, held, d, a, f) => Owns(map', held', d, a, f)
  BY <1>1, OwnersStay
<1>3. \A d \in Dies : Clean(cell[d], queue[d]) /\ Covered(cell[d], queue[d], map, held, d)
  BY DEF EraseInv
<1>4. \A d \in Dies : Covered(cell[d], queue[d], map', held', d)
  BY <1>2, <1>3 DEF Covered
<1> QED BY <1>1, <1>3, <1>4 DEF EraseInv

\* In the full mapping a zone that holds data is the only user of its FBG, so
\* its reset erases it.
LEMMA OnlyUser ==
  ASSUME NEW m, NEW h, Sound(m, h), Exact(m, h), Parts = 1, NEW z \in h
  PROVE  UsesOf(m, z) = 1
<1> DEFINE g == m.phy[z].first
           q == m.phy[z].ofst
<1>1. g \in Groups /\ q \in Fbgs /\ GroupsOf(m, z) = {g}
  BY OneGroup
<1>2. z \in At(m, h, g, q)
  BY <1>1 DEF At
<1>3. \A y \in At(m, h, g, q) : y = z
  <2>1. \A y \in h : g \in GroupsOf(m, y) => m.phy[y].first = g
    BY OneGroup, SMTT(20)
  <2> QED BY <2>1 DEF At, Exact
<1>4. At(m, h, g, q) = {z}
  BY <1>2, <1>3
<1>5. Cardinality({z}) = 1
  BY FS_Singleton
<1> QED BY <1>1, <1>4, <1>5 DEF Sound, UsesOf

\* A reset keeps EraseInv: the block that becomes free has its erase queued.
LEMMA ResetZoneErased ==
  ASSUME Disciplined, MappingInv, FullInv, WorkInv, EraseInv, Parts = 1,
         NEW r \in Reqs, NEW z \in Zones, ResetZone(r, z)
  PROVE  EraseInv'
<1> DEFINE ts == EraseTransactions(map, r, z)
           u == InsertInTail(queue, ts)
<1>1. z \in held /\ Reset(z) /\ cell' = cell
  BY DEF ResetZone, Reset, Disciplined
<1>2. map \in Mappings /\ PlaceOK(map.phy[z]) /\ map.phy[z].n # 0
  BY <1>1, HeldIsMapped
<1>3. UsesOf(map, z) = 1
  BY <1>1, OnlyUser DEF MappingInv, FullInv
<1>4. queue' = u
  BY <1>3 DEF ResetZone, Erases, Submit
<1>5. held' = held \ {z} /\ map'.phy = map.phy
  <2>1. held' = held \ {z} /\ map' = zone_reset(map, z)
    BY <1>1, <1>3, SMTT(20) DEF Reset, zone_reset_fault
  <2>2. zone_reset(map, z).phy = map.phy
    BY <1>2, <1>3 DEF zone_reset, Mappings
  <2> QED BY <2>1, <2>2
<1>6. Serves(ts, map, r, "erase", z)
  BY <1>2, EraseServes
<1>7. \A d \in Dies : d \div DiesPerGroup \in GroupsOf(map, z) => \E k \in 1..Len(ts) : ts[k].die = d
  BY <1>2, EraseServes
<1> HIDE DEF ts
<1>8. /\ ts \in Seq(Transactions)
      /\ \A k \in 1..Len(ts) : ts[k].op = "erase" /\ ts[k].blk = map.phy[z].ofst
  BY <1>6 DEF Serves
<1>9. queue \in Queues
  BY DEF WorkInv
<1>10. ASSUME NEW d \in Dies PROVE Clean(cell[d], u[d]) /\ Covered(cell[d], u[d], map', held', d)
  <2>1. Clean(cell[d], u[d]) /\ Covered(cell[d], u[d], map, held, d)
    BY <1>8, SubmitJoins
  <2> DEFINE s == queue[d]
             v == u[d]
             c == cell[d]
  <2>2. /\ Len(s) \in Nat /\ Len(v) \in Nat
        /\ \A i \in 1..Len(v) : i \notin 1..Len(s) =>
             \E k \in 1..Len(ts) : v[i] = ts[k] /\ ts[k].die = d
        /\ \A k \in 1..Len(ts) : ts[k].die = d =>
             \E i \in 1..Len(v) : i \notin 1..Len(s) /\ v[i] = ts[k]
    <3>1. FollowedBy(s, v, ts, d)
      BY <1>8, <1>9, InsertedPlaces
    <3> QED BY <3>1 DEF FollowedBy
  <2> HIDE DEF u, s, v, c
  <2>3. ASSUME NEW f \in Fbgs, NEW a \in Zones, NEW i \in 0..Len(v), Mark(c, v, i, f, a),
               Owns(map, held, d, a, f)
        PROVE  Owns(map', held', d, a, f) \/ \E k \in 1..Len(v) : i < k /\ ErasedAt(v, k, f)
    <3>1. CASE a # z
      BY <1>5, <2>3, <3>1 DEF Owns, GroupsOf
    <3>2. CASE a = z
      <4>1. d \div DiesPerGroup \in GroupsOf(map, z) /\ map.phy[z].ofst = f
        BY <2>3, <3>2 DEF Owns
      <4>2. PICK k \in 1..Len(ts) : ts[k].die = d
        BY <1>7, <4>1
      <4>3. PICK j \in 1..Len(v) : j \notin 1..Len(s) /\ v[j] = ts[k]
        BY <2>2, <4>2
      <4>4. ErasedAt(v, j, f)
        BY <1>8, <4>1, <4>3 DEF ErasedAt
      <4>5. i = 0 \/ i \in 1..Len(s)
        <5>1. CASE i # 0 /\ i \notin 1..Len(s)
          <6>1. i \in 1..Len(v) /\ v[i].op = "write"
            BY <2>2, <2>3, <5>1, SMTT(20) DEF Mark
          <6> QED BY <1>8, <2>2, <5>1, <6>1
        <5> QED BY <5>1
      <4>6. i < j
        BY <2>2, <4>3, <4>5, SMTT(20)
      <4> QED BY <4>4, <4>6
    <3> QED BY <3>1, <3>2
  <2>4. Covered(c, v, map', held', d)
    BY <2>1, <2>3 DEF Covered, v, c
  <2> QED BY <2>1, <2>4 DEF v, c
<1> QED BY <1>1, <1>4, <1>10 DEF EraseInv

\* Reads and writes of zones that are held keep EraseInv.
LEMMA ReadWriteErased ==
  ASSUME MappingInv, FullInv, WorkInv, EraseInv, Parts = 1, ~MayWriteUnopened,
         NEW r \in Reqs, NEW op \in IoOps, NEW z \in Zones, NEW w \in Lbas, NEW n \in 1..MaxNlb,
         ReadWrite(r, op, z, w, n), UNCHANGED mvars
  PROVE  EraseInv'
<1>1. cell' = cell /\ map' = map /\ held' = held
  BY DEF ReadWrite, mvars
<1>2. CASE queue' = queue
  BY <1>1, <1>2 DEF EraseInv
<1>3. CASE map.phy[z].n > 0 /\ Submit(r, zone_rw(map, r, op, z, w, n))
  <2> DEFINE ts == zone_rw(map, r, op, z, w, n)
  <2>1. map.phy[z].n # 0 /\ map \in Mappings /\ PlaceOK(map.phy[z])
    <3>1. map \in Mappings /\ PlaceOK(map.phy[z]) /\ map.phy[z].n \in Nat
      BY HeldIsMapped
    <3> QED BY <1>3, <3>1, SMTT(20)
  <2>2. Serves(ts, map, r, op, z)
    BY <2>1, RwServes
  <2>3. queue' = InsertInTail(queue, ts)
    BY <1>3 DEF Submit
  <2>4. op = "write" => z \in held
    BY DEF ReadWrite
  <2> HIDE DEF ts
  <2>5. /\ ts \in Seq(Transactions)
        /\ \A k \in 1..Len(ts) : ts[k].op = "write" =>
             Owns(map, held, ts[k].die, ts[k].zone, ts[k].blk)
    BY <2>2, <2>4 DEF Serves, Owns
  <2>6. \A d \in Dies : /\ Clean(cell[d], InsertInTail(queue, ts)[d])
                        /\ Covered(cell[d], InsertInTail(queue, ts)[d], map, held, d)
    BY <2>5, SubmitJoins
  <2> QED BY <1>1, <2>3, <2>6 DEF EraseInv
<1>4. queue' = queue \/ Transfer(r, op, z, w, n)
  BY DEF ReadWrite, Direct
<1>5. Transfer(r, op, z, w, n) =>
        queue' = queue \/ (map.phy[z].n > 0 /\ Submit(r, zone_rw(map, r, op, z, w, n)))
  BY DEF Transfer, Direct
<1> QED BY <1>2, <1>3, <1>4, <1>5

\* Executing the head of a queue keeps EraseInv.
LEMMA PollErased ==
  ASSUME WorkInv, ClockInv, EraseInv, PollDie
  PROVE  EraseInv'
<1>1. map' = map /\ held' = held
  BY DEF PollDie
<1>2. CASE busy[cur] = 0 /\ queue[cur] # <<>>
  <2> DEFINE s == queue[cur]
             c == cell[cur]
             v == Stored(Head(s))
             e == [c EXCEPT ![s[1].blk] = v]
  <2>1. queue \in Queues /\ cur \in Dies /\ OnOwnDie(queue)
    BY DEF WorkInv, ClockInv
  <2>2. s \in Seq(Transactions) /\ s # <<>> /\ c \in [Fbgs -> Zones \cup {NoZone}]
    BY <1>2, <2>1 DEF Queues, ClockInv
  <2>3. Len(s) \in Nat \ {0} /\ Head(s) = s[1] /\ s[1] \in Transactions
    BY <1>2, <2>1, Taken
  <2>4. s[1].die = cur /\ s[1].op \in {"read", "write", "erase"} /\ s[1].blk \in Fbgs
    BY <2>1, <2>3, SMTT(20) DEF OnOwnDie, Transactions, IoOps
  <2>5. /\ s[1].op = "write" => v = s[1].zone
        /\ s[1].op = "erase" => v = NoZone
        /\ s[1].op = "read" => v = c[s[1].blk]
    BY <2>3, <2>4 DEF Stored
  <2>6. queue' = [queue EXCEPT ![cur] = Tail(s)] /\ cell' = [cell EXCEPT ![cur] = e]
    <3>1. Execute(Head(s))
      BY <1>2 DEF PollDie
    <3>2. cell \in [Dies -> [Fbgs -> Zones \cup {NoZone}]]
      BY DEF ClockInv
    <3> QED BY <2>1, <2>3, <3>1, <3>2 DEF Execute
  <2> HIDE DEF v
  <2>7. Clean(c, s) /\ Covered(c, s, map, held, cur)
    BY <2>1 DEF EraseInv
  <2>8. Clean(e, Tail(s)) /\ Covered(e, Tail(s), map, held, cur)
    BY <2>2, <2>5, <2>7, TakeKeeps
  <2>9. /\ queue'[cur] = Tail(s) /\ cell'[cur] = e
        /\ \A d \in Dies : d # cur => queue'[d] = queue[d] /\ cell'[d] = cell[d]
    BY <2>1, <2>6 DEF Queues, ClockInv
  <2> HIDE DEF s, c, e
  <2> QED BY <1>1, <2>8, <2>9 DEF EraseInv
<1>3. CASE ~(busy[cur] = 0 /\ queue[cur] # <<>>)
  <2>1. queue' = queue /\ cell' = cell
    BY <1>3 DEF PollDie
  <2> QED BY <1>1, <2>1 DEF EraseInv
<1> QED BY <1>2, <1>3

FullQueueInv == QueueInv /\ FullInv /\ EraseInv

\* Every step keeps the whole invariant in the full mapping.
LEMMA FullQueueSteps ==
  ASSUME Disciplined, ~MayWriteUnopened, Parts = 1, FullQueueInv, [Next]_vars
  PROVE  FullQueueInv'
<1>1. QueueInv /\ FullInv /\ EraseInv /\ MappingInv /\ WorkInv /\ ClockInv
  BY DEF FullQueueInv, QueueInv
<1>2. QueueInv' /\ [MappingNext]_mvars
  BY <1>1, QueueSteps
<1>3. FullInv'
  BY <1>1, <1>2, MappingStep
<1>4. EraseInv'
  <2>1. CASE \E r \in Reqs, z \in Zones : Manage(r, z)
    BY <1>1, <2>1, ManageErased
  <2>2. CASE \E r \in Reqs, z \in Zones : ResetZone(r, z)
    BY <1>1, <2>2, ResetZoneErased
  <2>3. CASE \E r \in Reqs, z \in Zones, op \in IoOps, w \in Lbas, n \in 1..MaxNlb :
               ReadWrite(r, op, z, w, n)
    <3>1. PICK r \in Reqs, z \in Zones, op \in IoOps, w \in Lbas, n \in 1..MaxNlb :
            ReadWrite(r, op, z, w, n)
      BY <2>3
    <3>2. UNCHANGED mvars
      BY <1>1, <3>1, ReadWriteStep
    <3> QED BY <1>1, <3>1, <3>2, ReadWriteErased
  <2>4. CASE PollDie
    BY <1>1, <2>4, PollErased
  <2>5. CASE Tick \/ (\E r \in Reqs : Complete(r)) \/ UNCHANGED vars
    <3>1. UNCHANGED <<map, held, queue, cell>>
      BY <2>5 DEF Tick, Complete, vars
    <3> QED BY <1>1, <3>1 DEF EraseInv
  <2> QED BY <2>1, <2>2, <2>3, <2>4, <2>5 DEF Next, Distribute
<1> QED BY <1>2, <1>3, <1>4 DEF FullQueueInv

\* It holds at the start.
LEMMA FullQueueInit ==
  ASSUME Init
  PROVE  FullQueueInv
<1>1. QueueInv /\ FullInv
  BY QueueInit, InitSound DEF Init
<1>2. ASSUME NEW d \in Dies
      PROVE  Clean(cell[d], queue[d]) /\ Covered(cell[d], queue[d], map, held, d)
  <2>1. queue[d] = <<>> /\ cell[d] = [f \in Fbgs |-> NoZone]
    BY <1>2 DEF Init
  <2>2. Len(queue[d]) = 0
    BY <2>1, SMTT(20)
  <2>3. \A f \in Fbgs, a \in Zones : ~Mark(cell[d], queue[d], 0, f, a)
    BY <2>1, Device DEF Mark
  <2>4. \A i \in 0..Len(queue[d]) : i = 0
    BY <2>2, SMTT(20)
  <2>5. Clean(cell[d], queue[d])
    BY <2>3, <2>4 DEF Clean
  <2>6. Covered(cell[d], queue[d], map, held, d)
    BY <2>3, <2>4 DEF Covered
  <2> QED BY <2>5, <2>6
<1> QED BY <1>1, <1>2 DEF FullQueueInv, EraseInv

\* A write at the head of its queue finds its block erased or its own.
LEMMA WriteIsFirst ==
  ASSUME FullQueueInv, NEW d \in Dies, queue[d] # <<>>, Head(queue[d]).op = "write"
  PROVE  cell[d][Head(queue[d]).blk] \in {NoZone, Head(queue[d]).zone}
<1> DEFINE s == queue[d]
           c == cell[d]
           t == s[1]
<1>1. queue \in Queues /\ c \in [Fbgs -> Zones \cup {NoZone}] /\ Clean(c, s)
  BY DEF FullQueueInv, QueueInv, WorkInv, ClockInv, EraseInv
<1>2. Len(s) \in Nat \ {0} /\ Head(s) = t /\ t \in Transactions
  BY <1>1, Taken
<1>3. t.blk \in Fbgs /\ t.zone \in Zones
  BY <1>2 DEF Transactions
<1> HIDE DEF s, c
<1>4. ASSUME c[t.blk] \in Zones, c[t.blk] # t.zone PROVE FALSE
  <2> DEFINE a == c[t.blk]
  <2>1. Mark(c, s, 0, t.blk, a) /\ Mark(c, s, 1, t.blk, t.zone)
    BY <1>2, SMTT(20) DEF Mark, s
  <2>2. 0 \in 0..Len(s) /\ 1 \in 0..Len(s) /\ 0 < 1
    BY <1>2, SMTT(20)
  <2> HIDE DEF a
  <2>3. a \in Zones /\ a # t.zone
    BY <1>4 DEF a
  <2>4. PICK k \in 1..Len(s) : 0 < k /\ k < 1
    BY <1>1, <1>3, <2>1, <2>2, <2>3 DEF Clean
  <2> QED BY <1>2, <2>4, SMTT(20)
<1> QED BY <1>1, <1>2, <1>3, <1>4 DEF s, c

\* In the full mapping no write reaches a block that holds another zone's data,
\* although zone_reset counts an FBG free before its erase is done: in every
\* die queue the erase is ahead of the writes of the block's next zone.
THEOREM ErasesComeFirst ==
  ASSUME Disciplined, ~MayWriteUnopened, OpenLimit = NumGroups
  PROVE  Spec => WritesFindErasedBlocks
<1>1. Init => FullQueueInv
  BY FullQueueInit
<1>2. FullQueueInv /\ [Next]_vars => FullQueueInv'
  BY FullQueueSteps, FullParts
<1>3. FullQueueInv =>
        \A d \in Dies : queue[d] # <<>> /\ queue'[d] = Tail(queue[d]) =>
          LET t == Head(queue[d])
          IN  t.op = "write" => cell[d][t.blk] \in {NoZone, t.zone}
  BY WriteIsFirst
<1>4. FullQueueInv /\ [Next]_vars =>
        [\A d \in Dies : queue[d] # <<>> /\ queue'[d] = Tail(queue[d]) =>
          LET t == Head(queue[d])
          IN  t.op = "write" => cell[d][t.blk] \in {NoZone, t.zone}]_vars
  BY <1>3
<1> QED BY <1>1, <1>2, <1>4, PTL DEF Spec, WritesFindErasedBlocks

=============================================================================
