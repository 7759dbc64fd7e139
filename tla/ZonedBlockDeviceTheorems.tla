---------------------- MODULE ZonedBlockDeviceTheorems ----------------------
(***************************************************************************)
(* What the allocator keeps for any number of threads and zones: a busy    *)
(* zone has one owner, the open and the active tokens are counted exactly, *)
(* no wake-up is lost, and the used blocks of a zone are the blocks of the *)
(* extents in it.                                                          *)
(***************************************************************************)
EXTENDS ZonedBlockDeviceSteps, FiniteSetTheorems, TLAPS

\* Leaves are for Zenon, the ones with arithmetic or records name SMT.
USE ZenonT(20)

(***************************************************************************)
(* Putting tokens back.                                                    *)
(***************************************************************************)
LEMMA TailOfOne ==
  ASSUME NEW S, NEW e \in S
  PROVE  Tail(<<e>>) = <<>>
BY SMTT(20)

\* What is left to put back after one token was put back.
LEMMA Tails ==
  ASSUME NEW p \in TokenLists, p # <<>>
  PROVE  /\ Tail(p) \in TokenLists
         /\ Tail(p) = <<>> <=> p \in {<<"open">>, <<"active">>}
         /\ Head(p) = "open" => p \in OpenLists /\ Tail(p) \notin OpenLists
         /\ Head(p) = "active" => (Tail(p) \in OpenLists <=> p \in OpenLists)
<1>1. CASE p = <<"open">>
  <2>1. Tail(p) = <<>> /\ Head(p) = "open" BY <1>1, TailOfOne, SMTT(20)
  <2> QED BY <1>1, <2>1, SMTT(20) DEF TokenLists, OpenLists
<1>4. CASE p = <<"active">>
  <2>1. Tail(p) = <<>> /\ Head(p) = "active" BY <1>4, TailOfOne, SMTT(20)
  <2>2. <<>> \notin OpenLists /\ <<"active">> \notin OpenLists BY DEF OpenLists
  <2> QED BY <1>4, <2>1, <2>2 DEF TokenLists
<1>2. CASE p = <<"open", "active">>
  <2>1. Tail(p) = <<"active">> /\ Head(p) = "open" BY <1>2, SMTT(20)
  <2>2. p # <<"open">> /\ p # <<"active">> BY <1>2
  <2> QED BY <1>2, <2>1, <2>2, SMTT(20) DEF TokenLists, OpenLists
<1>3. CASE p = <<"active", "open">>
  <2>1. Tail(p) = <<"open">> /\ Head(p) = "active" BY <1>3, SMTT(20)
  <2>2. p # <<"open">> /\ p # <<"active">> BY <1>3
  <2> QED BY <1>3, <2>1, <2>2, SMTT(20) DEF TokenLists, OpenLists
<1> QED BY <1>1, <1>2, <1>3, <1>4 DEF TokenLists

\* PutOpenIOZoneToken gives up the open token the thread owed.
LEMMA PutOpenIOZoneTokenKeeps ==
  ASSUME IInv, NEW t \in Threads, PutOpenIOZoneToken(t)
  PROVE  IInv' /\ LocalStep(t) /\ PutsOpen(t)
<1> USE Consts DEF IInv, CoreType
<1>1. CoreType'
  <2>1. PcType'
    BY DEF PcType, WriterPc, MigratorPc, PutOpenIOZoneToken, Notify, Goto
  <2>2. PutsType'
    BY Tails DEF PutsType, PutOpenIOZoneToken, Ready, PutBack
  <2>3. LostType'
    BY SMTT(20) DEF LostType, PutOpenIOZoneToken
  <2> QED BY <2>1, <2>2, <2>3 DEF ZoneType, ScanType, ZnType, PutOpenIOZoneToken
<1>2. LocalStep(t)
  BY SMTT(20) DEF LocalStep, PcType, ScanType, ZnType, PutsType, PutOpenIOZoneToken, PutBack,
     Notify, Goto
<1>3. PlaceOK(t)'
  <2>1. /\ zn'[t] = zn[t] /\ scan'[t] = scan[t] /\ pc'[t] = pc[t]
        /\ puts[t] # <<>> /\ puts'[t] = Tail(puts[t])
    BY DEF PutOpenIOZoneToken, Notify, Goto, Ready, PutBack, Places, PlaceOK, PcType,
       PutsType
  <2> QED BY <2>1, Tails DEF Places, PlaceOK, PutsType
<1>4. OwnStep(t)
  <2>1. zn' = zn /\ scan' = scan /\ zone' = zone
    BY DEF PutOpenIOZoneToken
  <2> QED BY <2>1, SameOwners
<1>5. PutsOpen(t)
  <2>1. /\ zn'[t] = zn[t] /\ pc'[t] = pc[t] /\ puts[t] # <<>>
        /\ Head(puts[t]) = "open" /\ puts'[t] = Tail(puts[t])
    BY DEF PutOpenIOZoneToken, Notify, Goto, Ready, PutBack, Places, PlaceOK, PcType,
       PutsType
  <2>2. puts[t] \in OpenLists /\ puts'[t] \notin OpenLists
    BY <2>1, Tails DEF PutsType
  <2>3. HoldsOpen(t) /\ ~HoldsOpen(t)'
    BY <1>1, <2>1, <2>2, Holding, NoTokens
  <2>4. ASSUME NEW w \in Writers, pc[w] = "asleep" PROVE \E u \in Threads : pc'[u] = "wait"
    BY <2>4 DEF PutOpenIOZoneToken, Notify, Goto, PcType
  <2> QED BY <2>1, <2>3, <2>4 DEF PutsOpen, LostSame, PutOpenIOZoneToken
<1> QED BY <1>1, <1>2, <1>3, <1>4, <1>5, StepKeeps

\* PutActiveIOZoneToken changes nothing about open tokens.
LEMMA PutActiveIOZoneTokenKeeps ==
  ASSUME IInv, NEW t \in Threads, PutActiveIOZoneToken(t)
  PROVE  IInv' /\ Quiet(t)
<1> USE Consts DEF IInv, CoreType
<1>1. CoreType'
  <2>1. PcType'
    BY DEF PcType, WriterPc, MigratorPc, PutActiveIOZoneToken, Notify, Goto
  <2>2. PutsType'
    BY Tails DEF PutsType, PutActiveIOZoneToken, Ready, PutBack
  <2> QED BY <2>1, <2>2 DEF ZoneType, ScanType, ZnType, LostType, PutActiveIOZoneToken
<1>2. LocalStep(t)
  BY DEF LocalStep, PcType, ScanType, ZnType, PutsType, PutActiveIOZoneToken, PutBack,
     Notify, Goto
<1>3. PlaceOK(t)'
  <2>1. /\ zn'[t] = zn[t] /\ scan'[t] = scan[t] /\ pc'[t] = pc[t]
        /\ puts[t] # <<>> /\ puts'[t] = Tail(puts[t])
    BY DEF PutActiveIOZoneToken, Notify, Goto, Ready, PutBack, Places, PlaceOK, PcType,
       PutsType
  <2> QED BY <2>1, Tails DEF Places, PlaceOK, PutsType
<1>4. OwnStep(t)
  <2>1. zn' = zn /\ scan' = scan /\ zone' = zone
    BY DEF PutActiveIOZoneToken
  <2> QED BY <2>1, SameOwners
<1>5. HoldsOpen(t)' <=> HoldsOpen(t)
  <2>1. /\ zn'[t] = zn[t] /\ pc'[t] = pc[t] /\ puts[t] # <<>>
        /\ Head(puts[t]) = "active" /\ puts'[t] = Tail(puts[t])
    BY DEF PutActiveIOZoneToken, Notify, Goto, Ready, PutBack, Places, PlaceOK, PcType,
       PutsType
  <2> QED BY <1>1, <2>1, Tails, Holding DEF PutsType
<1>6. Quiet(t)
  BY <1>2, <1>5 DEF Quiet, PcType, LostType, PutActiveIOZoneToken, Notify, Goto
<1> QED BY <1>1, <1>2, <1>3, <1>4, <1>6, StepKeeps

(***************************************************************************)
(* The invariant, and what a step does to the open tokens.                 *)
(***************************************************************************)
LEMMA InitIInv == AllocatorInit => IInv
<1> SUFFICES ASSUME AllocatorInit PROVE IInv
  OBVIOUS
<1> USE Consts DEF AllocatorInit
<1>1. PcType /\ ZnType /\ PutsType /\ LostType
  BY SMTT(20) DEF PcType, ZnType, PutsType, LostType, Rest, WriterPc, MigratorPc, TokenLists
<1>2. ZoneType /\ \A z \in Zones : zone[z].busy = None
  BY DEF ZoneType, NewZone
<1>3. ScanType /\ \A t \in Threads : scan[t].cand = 0 /\ scan[t].diff = NOT_GOOD
  BY SMTT(20) DEF ScanType, NewScan
<1>4. Places
  BY <1>3 DEF Places, PlaceOK, Rest, WriterPc, MigratorPc
<1>5. BusyHasOneOwner
  BY <1>2, <1>3 DEF BusyHasOneOwner, Held
<1> QED BY <1>1, <1>2, <1>3, <1>4, <1>5 DEF IInv, CoreType

\* Every step keeps the invariant and is one thread's step on open tokens.
LEMMA StepOfNext ==
  ASSUME IInv, AllocatorNext
  PROVE  IInv' /\ \E t \in Threads : OpenStep(t)
<1> USE Consts DEF OpenStep, Quiet
<1>1. CASE Call
  <2>1. ASSUME NEW w \in Writers,
  StartAppend(w) \/ CloseFile(w) \/ CloseWR(w) \/ DeleteFile(w)
        PROVE  IInv' /\ OpenStep(w)
    BY <2>1, StartAppendKeeps, CloseFileKeeps, CloseWRKeeps, DeleteFileKeeps
  <2>2. ASSUME NEW m \in Migrators, StartMigration(m)
        PROVE  IInv' /\ OpenStep(m)
    BY <2>2, StartMigrationKeeps
  <2> QED BY <1>1, <2>1, <2>2 DEF Call
<1>2. ASSUME NEW t \in Threads, Step(t) PROVE IInv' /\ OpenStep(t)
  BY <1>2, AcquireFailsKeeps, GetBestOpenZoneMatchKeeps, PutOpenIOZoneTokenKeeps,
     PutActiveIOZoneTokenKeeps, ResetUnusedIOZonesKeeps, ResetDoneKeeps DEF Step
<1>3. ASSUME NEW w \in Writers, AllocateIOZone(w) PROVE IInv' /\ OpenStep(w)
  BY <1>3, ApplyFinishThresholdKeeps, WaitForOpenIOZoneTokenKeeps, MatchedIOZoneKeeps,
     GetActiveIOZoneTokenIfAvailableKeeps, FinishCheapestIOZoneKeeps, FinishVictimKeeps,
     AllocateEmptyZoneKeeps, NoEmptyZoneKeeps DEF AllocateIOZone
<1>4. ASSUME NEW w \in Writers, WriterStep(w) PROVE IInv' /\ OpenStep(w)
  BY <1>2, <1>3, <1>4, AppendDirectAtEndKeeps, AppendDirectKeeps, BufferedAppendKeeps
  DEF WriterStep
<1>5. ASSUME NEW m \in Migrators, MigratorStep(m) PROVE IInv' /\ OpenStep(m)
  BY <1>2, <1>5, TakeMigrateZoneKeeps, MigrateZoneTakenKeeps, MigrateDataKeeps,
     ReleaseMigrateZoneKeeps, SyncFileExtentsKeeps DEF MigratorStep
<1> QED BY <1>1, <1>4, <1>5 DEF AllocatorNext

\* The invariant is about the variables only.
LEMMA StutterIInv ==
  ASSUME IInv, UNCHANGED avars
  PROVE  IInv'
<1> USE DEF avars, IInv
<1>1. CoreType'
  BY DEF CoreType, PcType, ZoneType, ScanType, ZnType, PutsType, LostType
<1>2. Places'
  BY DEF Places, PlaceOK
<1>3. BusyHasOneOwner'
  BY DEF BusyHasOneOwner, Held
<1> QED BY <1>1, <1>2, <1>3

\* No two threads ever have one zone, and a busy zone has a thread that will
\* release it, for any number of zones, writers and migrators, whatever
\* device command fails: the try-lock of each zone's busy_ flag is enough.
THEOREM OneOwner == AllocatorSpec => []BusyHasOneOwner
<1>1. IInv /\ [AllocatorNext]_avars => IInv'
  BY StepOfNext, StutterIInv
<1>2. IInv => BusyHasOneOwner
  BY DEF IInv
<1> QED BY InitIInv, <1>1, <1>2, PTL DEF AllocatorSpec

(***************************************************************************)
(* Counting the open tokens.                                               *)
(***************************************************************************)
OpenHolders == {t \in Threads : HoldsOpen(t)}
OpenExact   == open_io_zones_ = Cardinality(OpenHolders) + lost.open

\* The threads that hold an open token can be counted.
LEMMA HoldersFinite ==
  /\ IsFiniteSet(OpenHolders) /\ Cardinality(OpenHolders) \in Nat
  /\ IsFiniteSet(OpenHolders') /\ Cardinality(OpenHolders') \in Nat
<1>1. IsFiniteSet(Threads) BY AllocatorAssumption
<1>2. OpenHolders \subseteq Threads /\ OpenHolders' \subseteq Threads
  BY DEF OpenHolders
<1> QED BY <1>1, <1>2, FS_Subset, FS_CardinalityType

\* A step of one thread takes and gives no other thread's token.
LEMMA OthersHold ==
  ASSUME IInv, IInv', NEW t \in Threads, LocalStep(t)
  PROVE  \A u \in Threads \ {t} : HoldsOpen(u)' <=> HoldsOpen(u)
BY Holding DEF LocalStep, IInv, CoreType

\* The counter follows the threads that hold a token.
LEMMA ExactKept ==
  ASSUME IInv, IInv', OpenExact, NEW t \in Threads, OpenStep(t)
  PROVE  OpenExact'
<1> USE HoldersFinite, OthersHold DEF OpenStep, IInv, CoreType, LostType
<1>1. CASE Quiet(t) \/ Sleeps(t)
  <2>1. OpenHolders' = OpenHolders
    BY <1>1 DEF OpenHolders, Quiet, Sleeps, OpenSame
  <2> QED BY <1>1, <2>1 DEF OpenExact, Quiet, Sleeps, OpenSame, LostSame
<1>2. CASE Gains(t)
  <2>1. OpenHolders' = OpenHolders \union {t} /\ t \notin OpenHolders
    BY <1>2 DEF OpenHolders, Gains
  <2>2. Cardinality(OpenHolders') = Cardinality(OpenHolders) + 1
    BY <2>1, FS_AddElement
  <2> QED BY <1>2, <2>2, SMTT(20) DEF OpenExact, Gains, LostSame
<1>3. CASE PutsOpen(t) \/ LosesOpen(t)
  <2>1. OpenHolders' = OpenHolders \ {t} /\ t \in OpenHolders
    BY <1>3 DEF OpenHolders, PutsOpen, LosesOpen
  <2>2. Cardinality(OpenHolders') = Cardinality(OpenHolders) - 1
    BY <2>1, FS_RemoveElement
  <2> QED BY <1>3, <2>2, SMTT(20) DEF OpenExact, PutsOpen, LosesOpen, LostSame
<1> QED BY <1>1, <1>2, <1>3

\* The properties of open tokens are about the variables only.
LEMMA StutterOpen ==
  ASSUME UNCHANGED avars
  PROVE  /\ OpenExact => OpenExact'
         /\ WakeUpComes => WakeUpComes'
         /\ open_io_zones_' = open_io_zones_
BY DEF avars, OpenExact, OpenHolders, WakeUpComes, HoldsOpen, Owes

\* At the start nobody has a token and nobody sleeps.
LEMMA InitOpen ==
  ASSUME AllocatorInit
  PROVE  OpenExact /\ WakeUpComes /\ open_io_zones_ = 0
<1>1. \A t \in Threads : pc[t] = Rest(t) /\ ~HoldsOpen(t)
  BY SMTT(20) DEF AllocatorInit, HoldsOpen, Owes, Rest
<1>2. OpenHolders = {} /\ Cardinality(OpenHolders) = 0
  BY <1>1, FS_EmptySet DEF OpenHolders
<1>3. WakeUpComes
  BY <1>1, Consts DEF WakeUpComes, Rest
<1> QED BY <1>2, <1>3, SMTT(20) DEF AllocatorInit, OpenExact

\* The limits of Open fit an unsigned int, so only a limit of 0 wraps around
\* when one token is kept for write-ahead logs.
LEMMA Limits ==
  /\ MaxOpen \in Nat
  /\ \A w \in Writers : MaxOpen > 0 => /\ OpenLimit(w) \in Nat
                                       /\ OpenLimit(w) <= MaxOpen
                                       /\ MaxOpen > 1 => OpenLimit(w) > 0
<1>1. /\ Word \in Nat /\ Word > NrZones + 3 /\ DevMaxOpen \in Nat /\ NrZones \in Nat
  BY AllocatorAssumption
<1>2. (DevMaxOpen - 2) % Word \in 0..(Word - 1)
  BY <1>1, SMTT(20)
<1>3. MaxOpen \in 0..(Word - 1)
  BY <1>1, <1>2, SMTT(20) DEF MaxOpen, Limit, MetaZones, Reserved
<1>4. ASSUME NEW n \in 0..(Word - 1) PROVE n % Word = n
  BY <1>1, SMTT(20)
<1>5. MaxOpen > 0 => (MaxOpen - 1) % Word = MaxOpen - 1
  BY <1>1, <1>3, <1>4, SMTT(20)
<1> QED BY <1>1, <1>3, <1>5, SMTT(20) DEF OpenLimit

\* A token is taken only below the limit of its class, at most MaxOpen.
LEMMA LimitKept ==
  ASSUME MaxOpen > 0, open_io_zones_ \in Int, open_io_zones_ <= MaxOpen,
         NEW t \in Threads, OpenStep(t)
  PROVE  open_io_zones_' <= MaxOpen
BY Limits, SMTT(20) DEF OpenStep, Quiet, Gains, Sleeps, PutsOpen, LosesOpen, OpenSame

\* open_io_zones_ counts the open tokens that threads hold, plus the ones that
\* failed closes lost, and stays within max_nr_open_io_zones_: for any number
\* of threads and zones, unless the device allows exactly two open zones, all
\* of them kept for metadata, which leaves an unsigned limit of 0 - 1.
THEOREM OpenTokensExact ==
  ASSUME MaxOpen > 0
  PROVE  AllocatorSpec => []OpenTokensCount
<1> DEFINE J == IInv /\ OpenExact /\ open_io_zones_ <= MaxOpen
<1>1. AllocatorInit => J
  BY InitIInv, InitOpen, Limits, SMTT(20)
<1>2. J /\ [AllocatorNext]_avars => J'
  <2> SUFFICES ASSUME J, [AllocatorNext]_avars PROVE J'
    OBVIOUS
  <2>1. open_io_zones_ \in Int
    BY DEF IInv, CoreType, LostType
  <2>2. CASE AllocatorNext
    <3>1. IInv' BY <2>2, StepOfNext
    <3>2. PICK t \in Threads : OpenStep(t) BY <2>2, StepOfNext
    <3> QED BY <2>1, <3>1, <3>2, ExactKept, LimitKept, Limits
  <2>3. CASE UNCHANGED avars
    BY <2>3, StutterIInv, StutterOpen, Limits
  <2> QED BY <2>2, <2>3
<1>3. J => OpenTokensCount
  BY DEF OpenTokensCount, OpenExact, OpenHolders
<1> QED BY <1>1, <1>2, <1>3, PTL DEF AllocatorSpec

(***************************************************************************)
(* No lost wake-up.  A thread falls asleep only when the tokens are used   *)
(* up, so, none being lost, somebody holds one; who puts one back wakes up *)
(* a sleeper; and a thread that is awake takes a token or finds them all   *)
(* used up again.                                                          *)
(***************************************************************************)
LEMMA UsedUpIsHeld ==
  ASSUME MaxOpen > 1, IInv, OpenExact, lost.open = 0, NEW w \in Writers,
         open_io_zones_ >= OpenLimit(w)
  PROVE  \E u \in Threads : HoldsOpen(u)
<1>1. open_io_zones_ \in Int /\ MaxOpen > 0
  BY Limits, SMTT(20) DEF IInv, CoreType, LostType
<1>2. OpenLimit(w) \in Nat /\ OpenLimit(w) > 0
  BY <1>1, Limits
<1>3. Cardinality(OpenHolders) > 0
  BY <1>1, <1>2, HoldersFinite, SMTT(20) DEF OpenExact
<1>4. OpenHolders # {}
  BY <1>3, FS_EmptySet, SMTT(20)
<1> QED BY <1>4 DEF OpenHolders

\* A step that takes the last holder away wakes a sleeper, and a writer falls
\* asleep only while a token is held.
LEMMA WakeUpKept ==
  ASSUME MaxOpen > 1, IInv, IInv', OpenExact, WakeUpComes, NEW t \in Threads, OpenStep(t)
  PROVE  WakeUpComes'
<1> SUFFICES ASSUME lost'.open = 0, NEW w \in Writers, pc'[w] = "asleep"
             PROVE  \E u \in Threads : HoldsOpen(u)' \/ pc'[u] = "wait"
  BY DEF WakeUpComes
<1>0. LocalStep(t) /\ lost.open \in Nat /\ w \in Threads
  BY Consts DEF OpenStep, IInv, CoreType, LostType
<1>1. CASE Quiet(t)
  <2>1. lost.open = 0 /\ pc[w] = "asleep"
    BY <1>0, <1>1 DEF Quiet, LocalStep
  <2>2. PICK u \in Threads : HoldsOpen(u) \/ pc[u] = "wait"
    BY <2>1 DEF WakeUpComes
  <2> QED BY <1>0, <1>1, <2>2, OthersHold DEF Quiet, LocalStep
<1>2. CASE Gains(t)
  BY <1>2 DEF Gains
<1>3. CASE Sleeps(t)
  <2>1. lost.open = 0
    BY <1>3 DEF Sleeps, LostSame
  <2>2. PICK u \in Threads : HoldsOpen(u)
    BY <1>3, <2>1, UsedUpIsHeld DEF Sleeps
  <2> QED BY <1>0, <1>3, <2>2, OthersHold DEF Sleeps, OpenSame
<1>4. CASE PutsOpen(t)
  <2>1. CASE pc[w] = "asleep"
    BY <1>4, <2>1 DEF PutsOpen
  <2>2. CASE pc[w] # "asleep"
    BY <1>0, <1>4, <2>2 DEF LocalStep, PutsOpen
  <2> QED BY <2>1, <2>2
<1>5. CASE LosesOpen(t)
  BY <1>0, <1>5, SMTT(20) DEF LosesOpen
<1> QED BY <1>1, <1>2, <1>3, <1>4, <1>5 DEF OpenStep

\* While a writer sleeps in WaitForOpenIOZoneToken and no failed close has lost
\* a token, some thread will notify or is awake to test its limit: for any
\* number of threads and zones, whenever at least two open zones are left for
\* data, although notify_one may wake a thread whose limit is lower.
THEOREM NoLostWakeUp ==
  ASSUME MaxOpen > 1
  PROVE  AllocatorSpec => []WakeUpComes
<1> DEFINE J == IInv /\ OpenExact /\ WakeUpComes
<1>1. AllocatorInit => J
  BY InitIInv, InitOpen
<1>2. J /\ [AllocatorNext]_avars => J'
  <2> SUFFICES ASSUME J, [AllocatorNext]_avars PROVE J'
    OBVIOUS
  <2>1. CASE AllocatorNext
    <3>1. IInv' BY <2>1, StepOfNext
    <3>2. PICK t \in Threads : OpenStep(t) BY <2>1, StepOfNext
    <3> QED BY <3>1, <3>2, ExactKept, WakeUpKept
  <2>2. CASE UNCHANGED avars
    BY <2>2, StutterIInv, StutterOpen
  <2> QED BY <2>1, <2>2
<1>3. J => WakeUpComes
  OBVIOUS
<1> QED BY <1>1, <1>2, <1>3, PTL DEF AllocatorSpec

(***************************************************************************)
(* Putting a token back leaves the data alone.                             *)
(***************************************************************************)
LEMMA ActiveTails ==
  ASSUME NEW p \in TokenLists, p # <<>>
  PROVE  /\ Head(p) = "active" => p \in ActiveLists /\ Tail(p) \notin ActiveLists
         /\ Head(p) = "open" => (Tail(p) \in ActiveLists <=> p \in ActiveLists)
<1>1. CASE p = <<"open">>
  <2>1. Tail(p) = <<>> /\ Head(p) = "open" BY <1>1, TailOfOne, SMTT(20)
  <2> QED BY <1>1, <2>1, ActiveDebts
<1>2. CASE p = <<"active">>
  <2>1. Tail(p) = <<>> /\ Head(p) = "active" BY <1>2, TailOfOne, SMTT(20)
  <2> QED BY <1>2, <2>1, ActiveDebts
<1>3. CASE p = <<"open", "active">>
  <2>1. Tail(p) = <<"active">> /\ Head(p) = "open" BY <1>3, SMTT(20)
  <2> QED BY <1>3, <2>1, ActiveDebts
<1>4. CASE p = <<"active", "open">>
  <2>1. Tail(p) = <<"open">> /\ Head(p) = "active" BY <1>4, SMTT(20)
  <2> QED BY <1>4, <2>1, ActiveDebts
<1> QED BY <1>1, <1>2, <1>3, <1>4 DEF TokenLists

\* A step that puts a token back and wakes somebody up.
LEMMA PutData ==
  ASSUME IInv, IInv', DInv, NEW t \in Threads, LocalStep(t), TokenStep(t),
         UNCHANGED <<zone, scan, zn, left, pend, ext, job, lost>>, pc'[t] = pc[t]
  PROVE  DInv' /\ ActiveStep(t) /\ Ledger
<1> USE Consts
<1>1. Fit(t)' BY DEF DInv, Fit, Ripe, Partly, IsEmpty, IsFull
<1>2. left \in [Writers -> Nat] BY DEF DInv, DataType
<1>3. t \in Migrators => (job[t].tgt # 0 => pc[t] \in {"release", "sync"})
  BY NoTarget
<1> QED BY <1>1, <1>2, <1>3, SameZones, StillStep

\* A thread that owes tokens has no zone, and puts them back where it stands.
LEMMA Indebted ==
  ASSUME IInv, NEW t \in Threads, puts[t] # <<>>
  PROVE  /\ puts[t] \in TokenLists /\ zn[t] = 0 /\ pc[t] \notin {"empty", "asleep"}
         /\ \A p : puts' = [puts EXCEPT ![t] = p] => puts'[t] = p
         /\ Notify => pc'[t] = pc[t]
<1>1. /\ puts[t] \in TokenLists /\ zn[t] = 0
      /\ pc[t] \in {"threshold", "wait", "active", "idle", "closed", "reset", "none"}
  BY DEF IInv, Places, PlaceOK, CoreType, PutsType
<1>2. pc[t] \notin {"empty", "asleep"} BY <1>1
<1>3. Notify => pc'[t] = pc[t]
  BY <1>2 DEF Notify, Goto, IInv, CoreType, PcType
<1>4. \A p : puts' = [puts EXCEPT ![t] = p] => puts'[t] = p
  BY DEF IInv, CoreType, PutsType
<1> QED BY <1>1, <1>2, <1>3, <1>4

\* PutOpenIOZoneToken keeps the data in order.
LEMMA PutOpenIOZoneTokenData ==
  ASSUME IInv, DInv, NEW t \in Threads, PutOpenIOZoneToken(t)
  PROVE  DInv' /\ ActiveStep(t) /\ Ledger
<1> USE Consts
<1>1. IInv' /\ LocalStep(t) BY PutOpenIOZoneTokenKeeps
<1>2. /\ puts[t] # <<>> /\ Head(puts[t]) = "open" /\ Notify
      /\ puts' = [puts EXCEPT ![t] = Tail(puts[t])]
      /\ UNCHANGED <<zone, active_io_zones_, scan, zn, left, pend, ext, job, lost>>
  BY DEF PutOpenIOZoneToken, PutBack, Ready
<1>3. puts'[t] = Tail(puts[t]) /\ zn[t] = 0 /\ pc'[t] = pc[t] /\ puts[t] \in TokenLists
  BY <1>2, Indebted
<1>4. puts'[t] \in ActiveLists <=> puts[t] \in ActiveLists
  <2>1. Head(puts[t]) = "open" => (Tail(puts[t]) \in ActiveLists <=> puts[t] \in ActiveLists)
    <3>1. puts[t] \in TokenLists /\ puts[t] # <<>> BY <1>2, <1>3
    <3> QED BY <3>1, ActiveTails
  <2> QED BY <1>2, <1>3, <2>1
<1>5. TokenStep(t)
  BY <1>1, <1>2, <1>3, <1>4, HoldingActive DEF TokenStep, IInv, CoreType
<1> QED BY <1>1, <1>2, <1>3, <1>5, PutData

\* PutActiveIOZoneToken gives up the active token the thread owed.
LEMMA PutActiveIOZoneTokenData ==
  ASSUME IInv, DInv, NEW t \in Threads, PutActiveIOZoneToken(t)
  PROVE  DInv' /\ ActiveStep(t) /\ Ledger
<1> USE Consts
<1>1. IInv' /\ LocalStep(t) BY PutActiveIOZoneTokenKeeps DEF Quiet
<1>2. /\ puts[t] # <<>> /\ Head(puts[t]) = "active" /\ Notify
      /\ puts' = [puts EXCEPT ![t] = Tail(puts[t])]
      /\ UNCHANGED <<zone, scan, zn, left, pend, ext, job, lost>>
      /\ active_io_zones_' = active_io_zones_ - 1
  BY DEF PutActiveIOZoneToken, PutBack, Ready
<1>3. /\ puts'[t] = Tail(puts[t]) /\ zn[t] = 0 /\ pc'[t] = pc[t] /\ pc[t] # "empty"
      /\ puts[t] \in TokenLists
  BY <1>2, Indebted
<1>4. puts[t] \in ActiveLists /\ puts'[t] \notin ActiveLists
  <2>1. Head(puts[t]) = "active" => puts[t] \in ActiveLists /\ Tail(puts[t]) \notin ActiveLists
    <3>1. puts[t] \in TokenLists /\ puts[t] # <<>> BY <1>2, <1>3
    <3> QED BY <3>1, ActiveTails
  <2> QED BY <1>2, <1>3, <2>1
<1>5. HoldsActive(t) /\ ~HoldsActive(t)'
  BY <1>1, <1>2, <1>3, <1>4, HoldingActive DEF IInv, CoreType
<1>6. TokenStep(t) BY <1>2, <1>5 DEF TokenStep
<1> QED BY <1>1, <1>2, <1>3, <1>6, PutData

(***************************************************************************)
(* The second invariant.                                                   *)
(***************************************************************************)
LEMMA InitDInv ==
  ASSUME AllocatorInit
  PROVE  DInv
<1> USE Consts DEF AllocatorInit
<1>1. /\ Capacity \in Nat /\ Capacity # 0 /\ Capacity + 0 = Capacity /\ 0 + Capacity = Capacity
      /\ 0 \in Nat /\ 0 \in Int /\ 0 <= 0 /\ 0 \in 0..5 /\ 0 \in 0..NrZones
  BY AllocatorAssumption, SMTT(20)
<1>2. NewZone \in ZoneRecs BY <1>1, SMTT(20) DEF NewZone, ZoneRecs, NOT_SET
<1>3. /\ NewZone.wp = 0 /\ NewZone.capacity = Capacity /\ NewZone.used = 0
  BY DEF NewZone
<1>4. NoJob \in Jobs /\ NoJob.file = None /\ NoJob.tgt = 0
  BY <1>1, SMTT(20) DEF NoJob, Jobs
<1>5. lost.active = 0 OBVIOUS
<1>6. NoExtents \in [Zones -> Nat] BY <1>1 DEF NoExtents
<1>7. DataType
  BY <1>1, <1>2, <1>4, <1>5, <1>6 DEF DataType, ZoneData
<1>8. \A z \in Zones : Sound(z) BY <1>1, <1>3 DEF Sound
<1>9. \A w \in Writers : Backed(w) BY DEF Backed
<1>10. \A t \in Threads : Fit(t)
  <2>1. NewScan.cand = 0 BY DEF NewScan
  <2>2. \A m \in Migrators : Rest(m) # "copy" BY DEF Rest
  <2> QED BY <2>1, <2>2 DEF Fit
<1>11. JobsOK
  <2>1. OneJob BY <1>4 DEF OneJob
  <2>2. \A m \in Migrators : Rest(m) = "none" BY DEF Rest
  <2> QED BY <1>4, <2>1, <2>2 DEF JobsOK, JobOK
<1> QED BY <1>7, <1>8, <1>9, <1>10, <1>11 DEF DInv

\* Every step keeps the second invariant, and is one thread's step on active
\* tokens and extents.
LEMMA DataOfNext ==
  ASSUME IInv, DInv, AllocatorNext
  PROVE  DInv' /\ Ledger /\ \E t \in Threads : ActiveStep(t)
<1> USE Consts
<1>1. CASE Call
  <2>1. ASSUME NEW w \in Writers,
  StartAppend(w) \/ CloseFile(w) \/ CloseWR(w) \/ DeleteFile(w)
        PROVE  DInv' /\ ActiveStep(w) /\ Ledger
    BY <2>1, StartAppendData, CloseFileData, CloseWRData, DeleteFileData
  <2>2. ASSUME NEW m \in Migrators, StartMigration(m)
        PROVE  DInv' /\ ActiveStep(m) /\ Ledger
    BY <2>2, StartMigrationData
  <2> QED BY <1>1, <2>1, <2>2 DEF Call
<1>2. ASSUME NEW t \in Threads, Step(t) PROVE DInv' /\ ActiveStep(t) /\ Ledger
  BY <1>2, AcquireFailsData, GetBestOpenZoneMatchData, PutOpenIOZoneTokenData,
     PutActiveIOZoneTokenData, ResetUnusedIOZonesData, ResetDoneData DEF Step
<1>3. ASSUME NEW w \in Writers, AllocateIOZone(w) PROVE DInv' /\ ActiveStep(w) /\ Ledger
  BY <1>3, ApplyFinishThresholdData, WaitForOpenIOZoneTokenData, MatchedIOZoneData,
     GetActiveIOZoneTokenIfAvailableData, FinishCheapestIOZoneData, FinishVictimData,
     AllocateEmptyZoneData, NoEmptyZoneData DEF AllocateIOZone
<1>4. ASSUME NEW w \in Writers, WriterStep(w) PROVE DInv' /\ ActiveStep(w) /\ Ledger
  BY <1>2, <1>3, <1>4, AppendDirectAtEndData, AppendDirectData, BufferedAppendData
  DEF WriterStep
<1>5. ASSUME NEW m \in Migrators, MigratorStep(m) PROVE DInv' /\ ActiveStep(m) /\ Ledger
  BY <1>2, <1>5, TakeMigrateZoneData, MigrateZoneTakenData, MigrateDataData,
     ReleaseMigrateZoneData, SyncFileExtentsData DEF MigratorStep
<1> QED BY <1>1, <1>4, <1>5 DEF AllocatorNext

\* The second invariant is about the variables only.
LEMMA StutterDInv ==
  ASSUME DInv, UNCHANGED avars
  PROVE  DInv'
<1> USE DEF avars, DInv
<1>1. DataType' BY DEF DataType, ZoneData
<1>2. \A z \in Zones : Sound(z)' BY DEF Sound
<1>3. \A w \in Writers : Backed(w)' BY DEF Backed
<1>4. \A t \in Threads : Fit(t)' BY DEF Fit, Ripe, Partly, IsEmpty, IsFull
<1>5. JobsOK' BY DEF JobsOK, OneJob, JobOK
<1> QED BY <1>1, <1>2, <1>3, <1>4, <1>5

(***************************************************************************)
(* Counting the active tokens: the partly written zones, the threads that  *)
(* hold a token for a zone that is not, and the lost ones.                 *)
(***************************************************************************)
PartZones     == {z \in Zones : Partly(z)}
ActiveHolders == {t \in Threads : HoldsActive(t)}
ActiveExact   ==
  active_io_zones_ = Cardinality(PartZones) + Cardinality(ActiveHolders) + lost.active

\* One element more or less.
LEMMA CountOne ==
  ASSUME NEW S, IsFiniteSet(S), NEW e
  PROVE  /\ Cardinality(S \ {e}) \in Int
         /\ Cardinality(S) = Cardinality(S \ {e}) + Bit(e \in S)
<1>1. Cardinality(S) \in Nat BY FS_CardinalityType
<1>2. Cardinality(S \ {e}) = IF e \in S THEN Cardinality(S) - 1 ELSE Cardinality(S)
  BY FS_RemoveElement
<1> QED BY <1>1, <1>2, SMTT(20) DEF Bit

\* The zones and threads that have a token can be counted.
LEMMA ActiveFinite ==
  /\ IsFiniteSet(PartZones) /\ IsFiniteSet(PartZones')
  /\ IsFiniteSet(ActiveHolders) /\ IsFiniteSet(ActiveHolders')
<1>1. IsFiniteSet(Threads) BY AllocatorAssumption
<1>2. IsFiniteSet(Zones)
  <2>1. 1 \in Int /\ NrZones \in Int BY Consts, SMTT(20)
  <2> QED BY <2>1, FS_Interval DEF Zones
<1>3. /\ PartZones \in SUBSET Zones /\ PartZones' \in SUBSET Zones
      /\ ActiveHolders \in SUBSET Threads /\ ActiveHolders' \in SUBSET Threads
  BY DEF PartZones, ActiveHolders
<1> QED BY <1>1, <1>2, <1>3, FS_Subset

\* The counter follows the zones and the threads.
LEMMA ActiveKept ==
  ASSUME DInv, DInv', ActiveExact, NEW t \in Threads, ActiveStep(t)
  PROVE  ActiveExact'
<1>1. PICK y \in Zones :
        /\ \A z \in Zones \ {y} : Partly(z)' <=> Partly(z)
        /\ active_io_zones_' - lost'.active - Bit(Partly(y)') - Bit(HoldsActive(t)')
           = active_io_zones_ - lost.active - Bit(Partly(y)) - Bit(HoldsActive(t))
  BY DEF ActiveStep
<1>2. PartZones' \ {y} = PartZones \ {y} BY <1>1 DEF PartZones
<1>3. ActiveHolders' \ {t} = ActiveHolders \ {t} BY DEF ActiveStep, ActiveHolders
<1> DEFINE p == Cardinality(PartZones \ {y})
           h == Cardinality(ActiveHolders \ {t})
           a == Bit(Partly(y))
           b == Bit(HoldsActive(t))
           c == Bit(Partly(y)')
           d == Bit(HoldsActive(t)')
           A == active_io_zones_
           B == active_io_zones_'
           L == lost.active
           K == lost'.active
<1>4. /\ Cardinality(PartZones) = p + Bit(y \in PartZones) /\ p \in Int
      /\ Cardinality(ActiveHolders) = h + Bit(t \in ActiveHolders) /\ h \in Int
  BY ActiveFinite, CountOne
<1>5. /\ Cardinality(PartZones') = p + Bit(y \in PartZones')
      /\ Cardinality(ActiveHolders') = h + Bit(t \in ActiveHolders')
  BY <1>2, <1>3, ActiveFinite, CountOne
<1>6. /\ Bit(y \in PartZones) = a /\ Bit(t \in ActiveHolders) = b
      /\ Bit(y \in PartZones') = c /\ Bit(t \in ActiveHolders') = d
  BY DEF PartZones, ActiveHolders, Bit
<1>7. a \in Int /\ b \in Int /\ c \in Int /\ d \in Int BY SMTT(20) DEF Bit
<1>8. A \in Int /\ B \in Int /\ L \in Int /\ K \in Int
  BY SMTT(20) DEF DInv, DataType
<1>9. B - K - c - d = A - L - a - b
  BY <1>1
<1>10. A = (p + a) + (h + b) + L
  BY <1>4, <1>6 DEF ActiveExact
<1>11. B = (p + c) + (h + d) + K
  <2> HIDE DEF p, h, a, b, c, d, A, B, L, K
  <2>1. p \in Int /\ h \in Int BY <1>4
  <2>2. A - L - a - b = p + h BY <2>1, <1>7, <1>8, <1>10, SMTT(20)
  <2> QED BY <2>1, <2>2, <1>7, <1>8, <1>9, SMTT(20)
<1> HIDE DEF p, h, a, b, c, d
<1> QED BY <1>5, <1>6, <1>11 DEF ActiveExact

\* At the start no zone is written and nobody has a token.
LEMMA InitActive ==
  ASSUME AllocatorInit
  PROVE  ActiveExact /\ active_io_zones_ = 0
<1>1. \A t \in Threads : ~HoldsActive(t)
  BY SMTT(20) DEF AllocatorInit, HoldsActive, Owes, Rest
<1>2. \A z \in Zones : ~Partly(z)
  BY DEF AllocatorInit, Partly, IsEmpty, NewZone
<1>3. PartZones = {} /\ ActiveHolders = {} BY <1>1, <1>2 DEF PartZones, ActiveHolders
<1>4. Cardinality(PartZones) = 0 /\ Cardinality(ActiveHolders) = 0
  BY <1>3, FS_EmptySet
<1>5. active_io_zones_ = 0 /\ lost.active = 0 BY DEF AllocatorInit
<1> QED BY <1>4, <1>5, SMTT(20) DEF ActiveExact

\* A token is taken only below the limit.
LEMMA ActiveLimitKept ==
  ASSUME DInv, active_io_zones_ <= MaxActive, NEW t \in Threads, ActiveStep(t), DInv'
  PROVE  active_io_zones_' <= MaxActive
<1>1. MaxActive \in Int
  <2>1. /\ Word \in Nat /\ Word > NrZones + 3 /\ DevMaxActive \in Nat /\ NrZones \in Nat
    BY AllocatorAssumption
  <2> QED BY <2>1, SMTT(20) DEF MaxActive, Limit, MetaZones, Reserved
<1>2. active_io_zones_ \in Int /\ active_io_zones_' \in Int BY DEF DInv, DataType
<1>3. active_io_zones_' <= active_io_zones_ \/ Takes BY DEF ActiveStep
<1> QED BY <1>1, <1>2, <1>3, SMTT(20) DEF Takes

\* At the start the counter is within any limit.
LEMMA ActiveLimitNat == 0 <= MaxActive
<1>1. /\ Word \in Nat /\ Word > NrZones + 3 /\ DevMaxActive \in Nat /\ NrZones \in Nat
  BY AllocatorAssumption
<1> QED BY <1>1, SMTT(20) DEF MaxActive, Limit, MetaZones, Reserved

\* active_io_zones_ counts the zones that are partly written, plus the tokens
\* that threads hold for a zone not written yet, already full or finished, plus
\* the ones that CloseActiveZone and MigrateData lose, and stays within
\* max_nr_active_io_zones_: for any number of threads and zones, whatever
\* device command fails.
THEOREM ActiveTokensExact == AllocatorSpec => []ActiveTokensCount
<1> DEFINE J == IInv /\ DInv /\ ActiveExact /\ active_io_zones_ <= MaxActive
<1>1. AllocatorInit => J
  BY InitIInv, InitDInv, InitActive, ActiveLimitNat
<1>2. J /\ [AllocatorNext]_avars => J'
  <2> SUFFICES ASSUME J, [AllocatorNext]_avars PROVE J'
    OBVIOUS
  <2>1. CASE AllocatorNext
    <3>1. IInv' BY <2>1, StepOfNext
    <3>2. DInv' BY <2>1, DataOfNext
    <3>3. PICK t \in Threads : ActiveStep(t) BY <2>1, DataOfNext
    <3>4. ActiveExact' BY <3>2, <3>3, ActiveKept
    <3>5. active_io_zones_' <= MaxActive BY <3>2, <3>3, ActiveLimitKept
    <3> QED BY <3>1, <3>2, <3>4, <3>5
  <2>2. CASE UNCHANGED avars
    <3>1. IInv' /\ DInv' BY <2>2, StutterIInv, StutterDInv
    <3>2. ActiveExact' /\ active_io_zones_' = active_io_zones_
      BY <2>2 DEF avars, ActiveExact, PartZones, ActiveHolders, Partly, HoldsActive, Owes,
         IsEmpty, IsFull
    <3> QED BY <3>1, <3>2
  <2> QED BY <2>1, <2>2
<1>3. J => ActiveTokensCount
  BY DEF ActiveTokensCount, ActiveExact, PartZones, ActiveHolders, Partly
<1> QED BY <1>1, <1>2, <1>3, PTL DEF AllocatorSpec

\* Both token counters are exact and within their limits.
THEOREM TokensExact ==
  ASSUME MaxOpen > 0
  PROVE  AllocatorSpec => []TokensCount
<1>1. OpenTokensCount /\ ActiveTokensCount => TokensCount
  BY DEF TokensCount
<1> QED BY OpenTokensExact, ActiveTokensExact, <1>1, PTL

(***************************************************************************)
(* Counting blocks.  Cells(g) has, for each thread t, the first g[t] of    *)
(* its Capacity cells.                                                     *)
(***************************************************************************)
Heights  == [Threads -> 0..Capacity]
Cells(g) == {b \in Threads \X (1..Capacity) : b[2] <= g[b[1]]}
OtherCells(g, u) == {b \in (Threads \ {u}) \X (1..Capacity) : b[2] <= g[b[1]]}

\* Two sets of cells with the same cells are the same.
LEMMA SameCells ==
  ASSUME NEW S \in SUBSET (Threads \X (1..Capacity)), NEW T \in SUBSET (Threads \X (1..Capacity)),
         \A t \in Threads, i \in 1..Capacity : <<t, i>> \in S <=> <<t, i>> \in T
  PROVE  S = T
<1>1. ASSUME NEW b \in Threads \X (1..Capacity) PROVE b \in S <=> b \in T
  <2>1. b = <<b[1], b[2]>> /\ b[1] \in Threads /\ b[2] \in 1..Capacity BY SMTT(20)
  <2>2. <<b[1], b[2]>> \in S <=> <<b[1], b[2]>> \in T BY <2>1
  <2> QED BY <2>1, <2>2
<1> QED BY <1>1

\* The cells of one thread, and the others'.
LEMMA CellsOf ==
  ASSUME NEW g \in Heights, NEW u \in Threads
  PROVE  /\ Cardinality(Cells(g)) = Cardinality(OtherCells(g, u)) + g[u]
         /\ Cardinality(OtherCells(g, u)) \in Nat /\ g[u] \in 0..Capacity
<1>1. Capacity \in Nat /\ IsFiniteSet(Threads) BY AllocatorAssumption
<1>2. g[u] \in 0..Capacity BY DEF Heights
<1> DEFINE n == g[u]
           S == OtherCells(g, u)
           T == {u} \X (1..n)
<1>3. n \in Nat /\ n \in Int /\ 1 \in Int /\ Capacity \in Int /\ n <= Capacity
  BY <1>1, <1>2, SMTT(20)
<1>4. IsFiniteSet(T) /\ Cardinality(T) = n
  <2>1. IsFiniteSet(1..n) /\ Cardinality(1..n) = IF 1 > n THEN 0 ELSE n - 1 + 1
    BY <1>3, FS_Interval
  <2>2. Cardinality(1..n) = n BY <1>3, <2>1, SMTT(20)
  <2>3. IsFiniteSet({u}) /\ Cardinality({u}) = 1 BY FS_Singleton
  <2>4. IsFiniteSet(T) /\ Cardinality(T) = Cardinality({u}) * Cardinality(1..n)
    BY <2>1, <2>3, FS_Product
  <2>5. Cardinality({u}) * Cardinality(1..n) = 1 * n BY <2>2, <2>3
  <2> HIDE DEF T, n
  <2> QED BY <1>3, <2>4, <2>5, SMTT(20)
<1>5. IsFiniteSet(S) /\ Cardinality(S) \in Nat
  <2>1. IsFiniteSet(1..Capacity) BY <1>3, FS_Interval
  <2>2. IsFiniteSet(Threads \ {u}) BY <1>1, FS_RemoveElement
  <2>3. IsFiniteSet((Threads \ {u}) \X (1..Capacity)) BY <2>1, <2>2, FS_Product
  <2>4. S \in SUBSET ((Threads \ {u}) \X (1..Capacity)) BY DEF OtherCells
  <2> QED BY <2>3, <2>4, FS_Subset, FS_CardinalityType
<1>6. Cells(g) = S \union T
  <2>1. ASSUME NEW t \in Threads, NEW i \in 1..Capacity
        PROVE  <<t, i>> \in Cells(g) <=> <<t, i>> \in S \union T
    <3>1. <<t, i>> \in Cells(g) <=> i <= g[t] BY SMTT(20) DEF Cells
    <3>2. <<t, i>> \in S <=> t # u /\ i <= g[t] BY SMTT(20) DEF OtherCells
    <3>3. <<t, i>> \in T <=> t = u /\ i <= n BY <1>3, SMTT(20)
    <3> QED BY <3>1, <3>2, <3>3
  <2>2. Cells(g) \subseteq Threads \X (1..Capacity) BY DEF Cells
  <2>3. S \subseteq Threads \X (1..Capacity) BY SMTT(20) DEF OtherCells
  <2>4. T \subseteq Threads \X (1..Capacity) BY <1>3, SMTT(20)
  <2> HIDE DEF S, T
  <2> QED BY <2>1, <2>2, <2>3, <2>4, SameCells
<1>7. S \intersect T = {} BY SMTT(20) DEF OtherCells
<1> HIDE DEF S, T
<1>8. Cardinality(S \union T) = Cardinality(S) + Cardinality(T) - Cardinality(S \intersect T)
  BY <1>4, <1>5, FS_Union
<1>9. Cardinality(S \intersect T) = 0 BY <1>7, FS_EmptySet
<1>10. Cardinality(Cells(g)) = Cardinality(S) + n
  BY <1>3, <1>4, <1>5, <1>6, <1>8, <1>9, SMTT(20)
<1> QED BY <1>2, <1>5, <1>10 DEF S

\* A thread's cells are cells.
LEMMA CellsAtLeast ==
  ASSUME NEW g \in Heights, NEW u \in Threads
  PROVE  Cardinality(Cells(g)) \in Nat /\ g[u] <= Cardinality(Cells(g)) /\ g[u] \in Nat
BY CellsOf, AllocatorAssumption, SMTT(20)

\* When one thread's cells change, the number of cells changes by as many.
LEMMA CellsChange ==
  ASSUME NEW g \in Heights, NEW h \in Heights, NEW u \in Threads,
         \A t \in Threads \ {u} : h[t] = g[t]
  PROVE  Cardinality(Cells(h)) = Cardinality(Cells(g)) + h[u] - g[u]
<1>1. OtherCells(h, u) = OtherCells(g, u)
  <2>1. \A b \in (Threads \ {u}) \X (1..Capacity) : b[1] \in Threads \ {u} BY SMTT(20)
  <2> QED BY <2>1 DEF OtherCells
<1>2. /\ Cardinality(Cells(g)) = Cardinality(OtherCells(g, u)) + g[u]
      /\ Cardinality(Cells(h)) = Cardinality(OtherCells(g, u)) + h[u]
      /\ Cardinality(OtherCells(g, u)) \in Nat /\ {g[u], h[u]} \subseteq 0..Capacity
  BY <1>1, CellsOf
<1>3. Capacity \in Nat BY AllocatorAssumption
<1> QED BY <1>2, <1>3, SMTT(20)

(***************************************************************************)
(* used_capacity_ counts the blocks of live extents and of copies.         *)
(***************************************************************************)
ExtentsIn(z) == [t \in Threads |-> ext[t][z]]
CopiesIn(z)  == [t \in Threads |-> CopiedBy(t, z)]

CountedIn(z) ==
  /\ ExtentsIn(z) \in Heights /\ CopiesIn(z) \in Heights
  /\ zone[z].used = Cardinality(Cells(ExtentsIn(z))) + Cardinality(Cells(CopiesIn(z)))
Counted == \A z \in Zones : CountedIn(z)

\* The sets of blocks that the property counts are cells.
LEMMA BlocksAreCells ==
  ASSUME DInv, NEW z \in Zones
  PROVE  InExtents(z) = Cells(ExtentsIn(z)) /\ Copied(z) = Cells(CopiesIn(z))
<1>1. \A b \in Threads \X (1..Capacity) : b[1] \in Threads /\ b[2] \in 1..Capacity
  BY SMTT(20)
<1>2. InExtents(z) = Cells(ExtentsIn(z)) BY <1>1 DEF InExtents, Cells, ExtentsIn
<1>3. Copied(z) = Cells(CopiesIn(z))
  <2>1. ASSUME NEW t \in Threads, NEW i \in 1..Capacity
        PROVE  <<t, i>> \in Copied(z) <=> <<t, i>> \in Cells(CopiesIn(z))
    <3>1. <<t, i>> \in Copied(z) <=> t \in Migrators /\ job[t].tgt = z /\ i <= job[t].len
      BY SMTT(20) DEF Copied
    <3>2. <<t, i>> \in Cells(CopiesIn(z)) <=> i <= CopiedBy(t, z)
      BY SMTT(20) DEF Cells, CopiesIn
    <3>3. ~(i <= 0) BY SMTT(20)
    <3> QED BY <3>1, <3>2, <3>3 DEF CopiedBy
  <2>2. Cells(CopiesIn(z)) \subseteq Threads \X (1..Capacity) BY DEF Cells
  <2>3. Copied(z) \subseteq Threads \X (1..Capacity) BY Consts, SMTT(20) DEF Copied
  <2> QED BY <2>1, <2>2, <2>3, SameCells
<1> QED BY <1>2, <1>3

\* A step that books the extents of u and the copy of m keeps the count.
LEMMA BooksKept ==
  ASSUME DInv, DInv', NEW z \in Zones, CountedIn(z), NEW u \in Threads, NEW m \in Threads,
         Books(u, m)
  PROVE  CountedIn(z)'
<1> DEFINE e == ExtentsIn(z)
           c == CopiesIn(z)
           f == ExtentsIn(z)'
           d == CopiesIn(z)'
           n == zone[z].used
           k == zone'[z].used
<1>1. /\ e \in Heights /\ c \in Heights
      /\ n = Cardinality(Cells(e)) + Cardinality(Cells(c))
  BY DEF CountedIn
<1>2. /\ \A t \in Threads : e[t] = ext[t][z] /\ f[t] = ext'[t][z]
      /\ \A t \in Threads : c[t] = CopiedBy(t, z) /\ d[t] = CopiedBy(t, z)'
      /\ DOMAIN f = Threads /\ DOMAIN d = Threads
      /\ f = [t \in Threads |-> f[t]] /\ d = [t \in Threads |-> d[t]]
  BY DEF ExtentsIn, CopiesIn
<1>3. /\ \A t \in Threads \ {u} : f[t] = e[t]
      /\ \A t \in Threads \ {m} : d[t] = c[t]
      /\ k - f[u] - d[m] = n - e[u] - c[m]
  <2>1. \A t \in Threads \ {u} : ext'[t] = ext[t] BY DEF Books
  <2>2. \A t \in Threads \ {m} : CopiedBy(t, z)' = CopiedBy(t, z) BY DEF Books
  <2>3. k - ext'[u][z] - CopiedBy(m, z)' = n - ext[u][z] - CopiedBy(m, z) BY DEF Books
  <2> HIDE DEF e, c, f, d, n, k
  <2>4. \A t \in Threads : e[t] = ext[t][z] /\ f[t] = ext'[t][z] BY <1>2
  <2>5. \A t \in Threads : c[t] = CopiedBy(t, z) /\ d[t] = CopiedBy(t, z)' BY <1>2
  <2>6. \A t \in Threads \ {u} : f[t] = e[t] BY <2>1, <2>4
  <2>7. \A t \in Threads \ {m} : d[t] = c[t] BY <2>2, <2>5
  <2>8. /\ e[u] = ext[u][z] /\ f[u] = ext'[u][z]
        /\ c[m] = CopiedBy(m, z) /\ d[m] = CopiedBy(m, z)'
    BY <2>4, <2>5
  <2>9. k - f[u] - d[m] = n - e[u] - c[m] BY <2>3, <2>8
  <2> QED BY <2>6, <2>7, <2>9
<1>4. /\ {Cardinality(Cells(e)), Cardinality(Cells(c))} \subseteq Nat
      /\ e[u] <= Cardinality(Cells(e)) /\ c[m] <= Cardinality(Cells(c))
      /\ {e[u], c[m]} \subseteq Nat
  BY <1>1, CellsAtLeast
<1>5. /\ n \in Int /\ k \in Int /\ k <= Capacity /\ Capacity \in Nat
  <2>1. zone[z] \in ZoneRecs /\ zone'[z] \in ZoneRecs /\ Sound(z)'
    BY DEF DInv, DataType, ZoneData
  <2> QED BY <2>1, AllocatorAssumption, SMTT(20) DEF ZoneRecs, Sound
<1>6. f[u] \in Nat /\ d[m] \in Nat
  <2>1. ext'[u] \in [Zones -> Nat] BY DEF DInv, DataType
  <2>2. CopiedBy(m, z)' \in Nat
    <3>1. job' \in [Migrators -> Jobs] BY DEF DInv, DataType
    <3>2. m \in Migrators => job'[m].len \in Nat BY <3>1, SMTT(20) DEF Jobs
    <3> QED BY <3>2, SMTT(20) DEF CopiedBy
  <2> QED BY <1>2, <2>1, <2>2
<1> HIDE DEF e, c, f, d, n, k
<1>7. f[u] \in 0..Capacity /\ d[m] \in 0..Capacity
  BY <1>1, <1>3, <1>4, <1>5, <1>6, SMTT(20)
<1>8. f \in Heights /\ d \in Heights
  <2>1. \A t \in Threads : f[t] \in 0..Capacity /\ d[t] \in 0..Capacity
    BY <1>1, <1>3, <1>7 DEF Heights
  <2> QED BY <1>2, <2>1 DEF Heights
<1>9. /\ Cardinality(Cells(f)) = Cardinality(Cells(e)) + f[u] - e[u]
      /\ Cardinality(Cells(d)) = Cardinality(Cells(c)) + d[m] - c[m]
  BY <1>1, <1>3, <1>8, CellsChange
<1>10. k = Cardinality(Cells(f)) + Cardinality(Cells(d))
  BY <1>1, <1>3, <1>4, <1>5, <1>6, <1>9, SMTT(20)
<1> QED BY <1>8, <1>10 DEF CountedIn, f, d, k, Cells

\* A file whose extents its migrator keeps is counted as before.
LEMMA DisownsKept ==
  ASSUME DInv, DInv', NEW z \in Zones, CountedIn(z), NEW w \in Threads, NEW m \in Threads,
         Disowns(w, m)
  PROVE  CountedIn(z)'
<1> DEFINE e == ExtentsIn(z)
           f == ExtentsIn(z)'
           g == [t \in Threads |-> IF t = w THEN 0 ELSE e[t]]
<1>1. /\ e \in Heights /\ CopiesIn(z) \in Heights
      /\ zone[z].used = Cardinality(Cells(e)) + Cardinality(Cells(CopiesIn(z)))
  BY DEF CountedIn
<1>2. CopiesIn(z)' = CopiesIn(z) /\ zone'[z].used = zone[z].used
  BY DEF Disowns, CopiesIn
<1>3. /\ w # m /\ e[m] = 0 /\ f[m] = e[w] /\ f[w] = 0
      /\ \A t \in Threads \ {w, m} : f[t] = e[t]
      /\ f = [t \in Threads |-> f[t]]
  BY DEF Disowns, ExtentsIn, NoExtents
<1> HIDE DEF e, f
<1>4. 0 \in 0..Capacity BY AllocatorAssumption, SMTT(20)
<1>5. g \in Heights /\ f \in Heights
  <2>1. g \in Heights BY <1>1, <1>4 DEF Heights
  <2>2. \A t \in Threads : f[t] \in 0..Capacity BY <1>1, <1>3, <1>4 DEF Heights
  <2> QED BY <1>3, <2>1, <2>2 DEF Heights
<1>6. g[w] = 0 /\ g[m] = 0 /\ \A t \in Threads \ {w} : g[t] = e[t] BY <1>3
<1>7. \A t \in Threads \ {m} : f[t] = g[t] BY <1>3
<1> HIDE DEF g
<1>8. Cardinality(Cells(g)) = Cardinality(Cells(e)) + g[w] - e[w]
  BY <1>1, <1>5, <1>6, CellsChange
<1>9. Cardinality(Cells(f)) = Cardinality(Cells(g)) + f[m] - g[m]
  BY <1>5, <1>7, CellsChange
<1>10. {Cardinality(Cells(e)), e[w]} \subseteq Nat BY <1>1, CellsAtLeast
<1>11. Cardinality(Cells(f)) = Cardinality(Cells(e))
  BY <1>3, <1>6, <1>8, <1>9, <1>10, SMTT(20)
<1> QED BY <1>1, <1>2, <1>5, <1>11 DEF CountedIn, f, Cells

\* At the start nothing is used.
LEMMA InitCounted ==
  ASSUME AllocatorInit
  PROVE  Counted
<1> SUFFICES ASSUME NEW z \in Zones PROVE CountedIn(z)
  BY DEF Counted
<1> DEFINE g == [t \in Threads |-> 0]
<1>1. \A t \in Migrators : job[t].tgt = 0 BY DEF AllocatorInit, NoJob
<1>2. ExtentsIn(z) = g BY DEF AllocatorInit, ExtentsIn, NoExtents
<1>3. CopiesIn(z) = g BY <1>1, Consts DEF CopiesIn, CopiedBy
<1>4. g \in Heights
  <2>1. 0 \in 0..Capacity BY AllocatorAssumption, SMTT(20)
  <2> QED BY <2>1 DEF Heights
<1>5. Cells(g) = {}
  <2>1. \A b \in Threads \X (1..Capacity) : b[1] \in Threads /\ ~(b[2] <= 0)
    BY SMTT(20)
  <2> QED BY <2>1 DEF Cells
<1>6. Cardinality(Cells(g)) = 0 BY <1>5, FS_EmptySet
<1>7. zone[z].used = 0 BY DEF AllocatorInit, NewZone
<1> HIDE DEF g
<1> QED BY <1>2, <1>3, <1>4, <1>6, <1>7, SMTT(20) DEF CountedIn

\* used_capacity_ of every zone is the number of its blocks that live extents
\* and copies not exchanged yet cover, and with what its writer has not pushed
\* yet it never exceeds what was written: for any number of writers, migrators
\* and zones, also when a file is deleted in the middle of a migration.  So
\* ResetUnusedIOZones, which trusts it, never resets a zone that holds data.
THEOREM UsedExact == AllocatorSpec => []UsedCountsExtents
<1> DEFINE J == IInv /\ DInv /\ Counted
<1>1. AllocatorInit => J
  BY InitIInv, InitDInv, InitCounted
<1>2. J /\ [AllocatorNext]_avars => J'
  <2> SUFFICES ASSUME J, [AllocatorNext]_avars PROVE J'
    OBVIOUS
  <2>1. CASE AllocatorNext
    <3>1. IInv' BY <2>1, StepOfNext
    <3>2. DInv' /\ Ledger BY <2>1, DataOfNext
    <3>3. PICK u \in Threads, m \in Threads : Books(u, m) \/ Disowns(u, m)
      BY <3>2 DEF Ledger
    <3>4. ASSUME NEW z \in Zones PROVE CountedIn(z)'
      <4>1. CountedIn(z) BY DEF Counted
      <4> QED BY <3>2, <3>3, <4>1, BooksKept, DisownsKept
    <3> QED BY <3>1, <3>2, <3>4 DEF Counted
  <2>2. CASE UNCHANGED avars
    <3>1. IInv' /\ DInv' BY <2>2, StutterIInv, StutterDInv
    <3>2. Counted'
      BY <2>2 DEF avars, Counted, CountedIn, ExtentsIn, CopiesIn, CopiedBy
    <3> QED BY <3>1, <3>2
  <2> QED BY <2>1, <2>2
<1>3. J => UsedCountsExtents
  <2> SUFFICES ASSUME J, NEW z \in Zones
               PROVE  /\ zone[z].used = Cardinality(InExtents(z)) + Cardinality(Copied(z))
                      /\ zone[z].used <= zone[z].wp
                      /\ \A w \in Writers : zn[w] = z => zone[z].used + pend[w] <= zone[z].wp
    BY DEF UsedCountsExtents
  <2>1. CountedIn(z) /\ Sound(z) /\ \A w \in Writers : Backed(w) BY DEF Counted, DInv
  <2>2. InExtents(z) = Cells(ExtentsIn(z)) /\ Copied(z) = Cells(CopiesIn(z))
    BY BlocksAreCells
  <2>3. z # 0 BY Consts
  <2> QED BY <2>1, <2>2, <2>3 DEF CountedIn, Sound, Backed
<1> QED BY <1>1, <1>2, <1>3, PTL DEF AllocatorSpec
=============================================================================
