------------------------------ MODULE DieQueues ------------------------------
(***************************************************************************)
(* Requests, flash transactions and die queues of fairness.c, on top of    *)
(* the dynamic mapping.  zns_req_distribute completes a request at once or *)
(* splits it into transactions, one FIFO queue per die; the poller thread  *)
(* takes a transaction whenever its die is idle, and the last one of a     *)
(* request submits the request to the completion queue.                    *)
(*                                                                         *)
(* The poller and the distribution run in one thread: cur is the die that  *)
(* zns_process_die_queue looks at next, and requests are distributed only  *)
(* between two calls of it, when cur = 0.  Times are relative to now: Tick *)
(* is the clock.                                                           *)
(***************************************************************************)
EXTENDS DynamicMapping

CONSTANTS
  Reqs,              \* the requests a host may have outstanding
  LbasPerPage,       \* tt_lba_page: the LBAs in a flash page
  SecsPerPg,         \* secs_per_pg: its sectors, the same for 512-byte LBAs
  MaxNlb,            \* bound: blocks of one request
  StartUpReqs,       \* 150: reads and writes that count as the start-up
  RdLat, WrLat, ErLat,
  MayStayInPage,     \* hosts send requests that end inside a written page
  MayWriteUnopened,  \* hosts write zones they have not opened
  NoZone

ASSUME QueueAssumption ==
  /\ {LbasPerPage, SecsPerPg, MaxNlb, RdLat, WrLat, ErLat} \subseteq Nat \ {0}
  /\ StartUpReqs \in Nat
  /\ {MayStayInPage, MayWriteUnopened} \subseteq BOOLEAN
  /\ NoZone \notin Zones

Dies  == 0..(NumGroups * DiesPerGroup - 1)
Lbas  == 0..(DiesPerGroup * Planes * PgsPerBlk * LbasPerPage - 1)
IoOps == {"read", "write"}

VARIABLES
  queue,  \* list[die], its transactions
  busy,   \* the time until next_lun_avail_time of each die
  req,    \* the requests: state, ts_num, and the times left until
          \* expire_time and until the last transaction really ends
  cur,    \* the next die of zns_process_die_queue
  seen,   \* req_sum, up to the end of the start-up
  cell    \* whose data each block of each die holds

vars == <<map, fault, held, queue, busy, req, cur, seen, cell>>

(***************************************************************************)
(* zone_rw splits a read or write at lba w of n blocks.  A first page that *)
(* is already written is skipped; the pages go round the transactions, as  *)
(* many as there are pages or dies of the zone.                            *)
(***************************************************************************)
NewWp(w) == IF w % LbasPerPage > 0
            THEN (w \div LbasPerPage + 1) * LbasPerPage ELSE w

BlocksLeft(w, n) == n - (NewWp(w) - w)
PageNum(w, n)    == (BlocksLeft(w, n) - 1) \div LbasPerPage + 1

\* The flash page that get_ppa_by_lba_base finds for the k-th page: zone_rw
\* counts in LBAs, get_ppa_by_lba_base divides by sectors.
PageAt(w, k) == (NewWp(w) + k * LbasPerPage) \div SecsPerPg

\* Mutant: one transaction fewer than the zone has dies.
TsSumOneLess(m, z, w, n) == Min({PageNum(w, n), Para(m, z) - 1})

TsSum(m, z, w, n) == Min({PageNum(w, n), Para(m, z)})

\* The pages of transaction i, by their position in the request.
Dealt(m, z, w, n, i) ==
  {j \in 0..(PageNum(w, n) - 1) : j % TsSum(m, z, w, n) = i}

\* Mutant: the first page of a transaction is not counted.
RwUncounted(m, r, op, z, w, n, i) ==
  [r |-> r, op |-> op, zone |-> z, blk |-> m.phy[z].ofst,
   die |-> DieOf(m, z, PageAt(w, Max(Dealt(m, z, w, n, i)))),
   pl |-> 0, ops |-> Cardinality(Dealt(m, z, w, n, i)) - 1]

\* pl_idx: the test against 0xff at line 662 never holds, because the
\* transaction was cleared to 0 at line 651.
RwTransaction(m, r, op, z, w, n, i) ==
  [r |-> r, op |-> op, zone |-> z, blk |-> m.phy[z].ofst,
   die |-> DieOf(m, z, PageAt(w, Max(Dealt(m, z, w, n, i)))),
   pl |-> 0, ops |-> Cardinality(Dealt(m, z, w, n, i))]

zone_rw(m, r, op, z, w, n) ==
  IF BlocksLeft(w, n) <= 0 THEN <<>>
  ELSE [i \in 1..TsSum(m, z, w, n) |->
          RwTransaction(m, r, op, z, w, n, i - 1)]

\* zone_reset erases all planes of every die of the zone's groups.
EraseTransactions(m, r, z) ==
  [i \in 1..Para(m, z) |->
     [r |-> r, op |-> "erase", zone |-> z, blk |-> m.phy[z].ofst,
      die |-> m.phy[z].first * DiesPerGroup + i - 1,
      pl |-> 0, ops |-> Planes]]

ForDie(ts, d) == Only(ts, {t \in Range(ts) : t.die = d})

\* Mutant: transactions go to the head of the queue.
InsertInHead(q, ts) == [d \in Dies |-> ForDie(ts, d) \o q[d]]

InsertInTail(q, ts) == [d \in Dies |-> q[d] \o ForDie(ts, d)]

-----------------------------------------------------------------------------
(***************************************************************************)
(* zns_req_distribute.                                                     *)
(***************************************************************************)
Idle == [state |-> "free", ts_num |-> 0, left |-> 0, end |-> 0]

Direct(r) ==
  /\ req' = [req EXCEPT ![r].state = "cq"]
  /\ UNCHANGED queue

Submit(r, ts) ==
  /\ req' = [req EXCEPT ![r].state = "pending", ![r].ts_num = Len(ts)]
  /\ queue' = InsertInTail(queue, ts)

Accepts(r) == fault = "none" /\ cur = 0 /\ req[r].state = "free"

\* OPEN, CLOSE and the actions the mapping ignores complete at once.
Manage(r, z) ==
  /\ Accepts(r)
  /\ Open(z) \/ Close(z) \/ UNCHANGED mvars
  /\ Direct(r)
  /\ UNCHANGED <<busy, cur, seen, cell>>

ResetZone(r, z) ==
  /\ Accepts(r)
  /\ Reset(z)
  /\ IF Erases(map, z) THEN Submit(r, EraseTransactions(map, r, z))
                       ELSE Direct(r)
  /\ UNCHANGED <<busy, cur, seen, cell>>

\* A request past the start-up; its write asserts a mapping (line 637).
Transfer(r, op, z, w, n) ==
  IF map.phy[z].n > 0
  THEN Submit(r, zone_rw(map, r, op, z, w, n)) /\ UNCHANGED mvars
  ELSE IF op = "read" THEN Direct(r) /\ UNCHANGED mvars
  ELSE fault' = "write_unmapped" /\ UNCHANGED <<map, held, req, queue>>

ReadWrite(r, op, z, w, n) ==
  /\ Accepts(r)
  /\ w + n <= Cardinality(Lbas)
  /\ MayStayInPage \/ BlocksLeft(w, n) > 0
  /\ op = "write" => MayWriteUnopened \/ z \in held
  /\ seen' = Min({seen + 1, StartUpReqs + 1})
  /\ IF seen' > StartUpReqs THEN Transfer(r, op, z, w, n)
                            ELSE Direct(r) /\ UNCHANGED mvars
  /\ UNCHANGED <<busy, cur, cell>>

(***************************************************************************)
(* zns_process_die_queue for die cur, with release_ts.                     *)
(***************************************************************************)
Lat(op) == CASE op = "read"  -> RdLat
             [] op = "write" -> WrLat
             [] OTHER        -> ErLat

Service(t) == ((t.pl + t.ops - 1) \div Planes + 1) * Lat(t.op)

\* Mutant: a request is submitted with one transaction to go.
ReleaseEarly(r, lat) ==
  [req EXCEPT ![r] = [state |-> IF @.ts_num <= 2 THEN "cq" ELSE @.state,
                      ts_num |-> @.ts_num - 1, left |-> lat,
                      end |-> Max({@.end, lat})]]

release_ts(r, lat) ==
  LET last == req[r].ts_num = 1
  IN [req EXCEPT ![r] = [state  |-> IF last THEN "cq" ELSE @.state,
                         ts_num |-> @.ts_num - 1,
                         left   |-> IF last THEN lat ELSE 0,
                         end    |-> Max({@.end, lat})]]

Stored(t) == CASE t.op = "write" -> t.zone
               [] t.op = "erase" -> NoZone
               [] OTHER          -> cell[t.die][t.blk]

Execute(t) ==
  /\ queue' = [queue EXCEPT ![cur] = Tail(@)]
  /\ busy'  = [busy EXCEPT ![cur] = Service(t)]
  /\ req'   = release_ts(t.r, Service(t))
  /\ cell'  = [cell EXCEPT ![cur][t.blk] = Stored(t)]

\* Mutant: the loop over the dies stops one short.
PollSkipsLastDie ==
  /\ fault = "none"
  /\ cur' = (cur + 1) % (Cardinality(Dies) - 1)
  /\ IF busy[cur] = 0 /\ queue[cur] # <<>>
     THEN Execute(Head(queue[cur]))
     ELSE UNCHANGED <<queue, busy, req, cell>>
  /\ UNCHANGED <<map, fault, held, seen>>

PollDie ==
  /\ fault = "none"
  /\ cur' = (cur + 1) % Cardinality(Dies)
  /\ IF busy[cur] = 0 /\ queue[cur] # <<>>
     THEN Execute(Head(queue[cur]))
     ELSE UNCHANGED <<queue, busy, req, cell>>
  /\ UNCHANGED <<map, fault, held, seen>>

(***************************************************************************)
(* The clock, and the completion of a request whose expire_time has come   *)
(* (by the poller of FEMU, external); the host may then send another one.  *)
(***************************************************************************)
Less(t) == IF t = 0 THEN 0 ELSE t - 1

Tick ==
  /\ \/ \E d \in Dies : busy[d] > 0
     \/ \E r \in Reqs : req[r].left > 0 \/ req[r].end > 0
  /\ busy' = [d \in Dies |-> Less(busy[d])]
  /\ req' = [r \in Reqs |-> [req[r] EXCEPT !.left = Less(@), !.end = Less(@)]]
  /\ UNCHANGED <<map, fault, held, queue, cur, seen, cell>>

Complete(r) ==
  /\ req[r].state = "cq" /\ req[r].left = 0
  /\ req' = [req EXCEPT ![r] = Idle]
  /\ UNCHANGED <<map, fault, held, queue, busy, cur, seen, cell>>

Init ==
  /\ MappingInit
  /\ queue = [d \in Dies |-> <<>>]
  /\ busy = [d \in Dies |-> 0]
  /\ req = [r \in Reqs |-> Idle]
  /\ cur = 0
  /\ seen = 0
  /\ cell = [d \in Dies |-> [f \in Fbgs |-> NoZone]]

Distribute ==
  \E r \in Reqs, z \in Zones :
    \/ Manage(r, z)
    \/ ResetZone(r, z)
    \/ \E op \in IoOps, w \in Lbas, n \in 1..MaxNlb : ReadWrite(r, op, z, w, n)

Next == Distribute \/ PollDie \/ Tick \/ \E r \in Reqs : Complete(r)

\* The poller thread spins forever and time passes.
Fairness == WF_vars(PollDie) /\ WF_vars(Tick)

Spec == Init /\ [][Next]_vars /\ Fairness

-----------------------------------------------------------------------------

\* Requests, queues and times are well formed.
FtlTypeOK ==
  /\ queue \in [Dies -> Seq([r : Reqs, op : IoOps \cup {"erase"}, zone : Zones,
                             blk : Fbgs, die : Dies, pl : {0},
                             ops : 1..(Planes + MaxNlb)])]
  /\ busy \in [Dies -> Nat]
  /\ req \in [Reqs -> [state : {"free", "pending", "cq"}, ts_num : Nat,
                       left : Nat, end : Nat]]
  /\ cur \in Dies /\ seen \in 0..(StartUpReqs + 1)
  /\ cell \in [Dies -> [Fbgs -> Zones \cup {NoZone}]]

QueuedOf(r) ==
  {p \in UNION {{d} \X DOMAIN queue[d] : d \in Dies} : queue[p[1]][p[2]].r = r}

\* A request waits exactly for the transactions it has in the die queues, and
\* with none left it has been submitted (ts_num,
\* sup_zns_mapping_strategy_interface.h:43): none is lost and none is
\* submitted twice.
PendingHasWork ==
  \A r \in Reqs : /\ req[r].ts_num = Cardinality(QueuedOf(r))
                  /\ req[r].state = "pending" <=> req[r].ts_num > 0

\* Whatever request may be distributed next, zone_rw deals all its pages, each
\* to the die that holds it: the die of a transaction is overwritten for each
\* of its pages (fairness.c:658).  This is a property of builds whose LBAs are
\* sectors, SecsPerPg = LbasPerPage, the "512B" of fairness.c:605.
PagesReachTheirDies ==
  \A r \in {q \in Reqs : Accepts(q)}, z \in {y \in Zones : map.phy[y].n > 0} :
    \A w \in Lbas, n \in 1..MaxNlb :
      LET ts == zone_rw(map, r, "write", z, w, n)
          count == IF BlocksLeft(w, n) > 0 THEN PageNum(w, n) ELSE 0
      IN /\ MapThenSumSet(LAMBDA i : ts[i].ops, DOMAIN ts) = count
         /\ \A k \in 0..(count - 1) :
              ts[(k % Len(ts)) + 1].die = DieOf(map, z, NewWp(w) \div LbasPerPage + k)

\* A reset counts its FBG free before the erase is done, and the FBG may be
\* mapped to another zone at once; still no write reaches a block that holds
\* another zone's data, because the erase is ahead of it in every die queue.
WritesFindErasedBlocks ==
  [][\A d \in Dies :
       queue[d] # <<>> /\ queue'[d] = Tail(queue[d])
         => LET t == Head(queue[d])
            IN t.op = "write" => cell[d][t.blk] \in {NoZone, t.zone}]_vars

\* Every accepted request reaches the completion queue.
EveryRequestCompletes ==
  \A r \in Reqs : req[r].state = "pending" ~> req[r].state = "cq"

\* When a request is submitted its expire_time is not before the end of any of
\* its transactions: maxlat records the latest one
\* (sup_zns_mapping_strategy_interface.h:45).  The code does not meet this:
\* README.md gives an instance that violates it.
ExpireCoversTransactions ==
  \A r \in Reqs : req[r].state = "cq" => req[r].left >= req[r].end

\* A write past the start-up finds its zone mapped (fairness.c:637), if hosts
\* write only zones they opened; README.md gives an instance for other hosts.
WritesFindMapping == fault # "write_unmapped"
=============================================================================
