----------------------- MODULE ZonedBlockDeviceSteps -----------------------
(***************************************************************************)
(* The inductive invariants of the allocator, and what every step of a     *)
(* thread does to the zones, the tokens, the extents and the other         *)
(* threads.  The first part is about who owns a zone and an open token,    *)
(* the second, from "The data of the zones" on, about active tokens and    *)
(* the blocks in use.                                                      *)
(***************************************************************************)
EXTENDS ZonedBlockDevice, TLAPS

\* Leaves are for Zenon, the ones with arithmetic or records name SMT.
USE ZenonT(20)

(***************************************************************************)
(* The first invariant: the shape of the variables, where each thread      *)
(* may have a zone or owe tokens, and who owns each zone.                  *)
(***************************************************************************)
WriterPc   == {"idle", "append", "threshold", "wait", "asleep", "match", "active",
               "victim", "empty", "closed", "reset"}
MigratorPc == {"none", "take", "match", "copy", "release", "sync", "reset"}
TokenLists == {<<>>, <<"open">>, <<"active">>, <<"open", "active">>, <<"active", "open">>}

PcType   == pc \in [Threads -> WriterPc \union MigratorPc]
ZoneType == /\ DOMAIN zone = Zones
            /\ \A z \in Zones : /\ "busy" \in DOMAIN zone[z]
                               /\ zone[z].busy \in Threads \union {None}
ScanType == /\ DOMAIN scan = Threads
            /\ \A t \in Threads : /\ DOMAIN scan[t] = {"i", "cand", "diff"}
                                  /\ scan[t].i \in Nat \ {0}
                                  /\ scan[t].cand \in 0..NrZones
ZnType   == zn \in [Threads -> 0..NrZones]
PutsType == puts \in [Threads -> TokenLists]
LostType == /\ open_io_zones_ \in Int
            /\ DOMAIN lost = {"open", "active"}
            /\ lost.open \in Nat

CoreType == PcType /\ ZoneType /\ ScanType /\ ZnType /\ PutsType /\ LostType

PlaceOK(t) ==
  /\ t \in Writers =>
       /\ pc[t] \in WriterPc
       /\ zn[t] # 0 => pc[t] \in {"append", "idle"}
  /\ t \in Migrators =>
       /\ pc[t] \in MigratorPc
       /\ zn[t] # 0 => pc[t] \in {"copy", "release"}
       /\ pc[t] = "copy" => zn[t] # 0
  /\ scan[t].cand # 0 => pc[t] \in {"match", "victim"}
  /\ scan[t].cand = 0 => scan[t].diff = NOT_GOOD
  /\ puts[t] # <<>> =>
       /\ zn[t] = 0
       /\ pc[t] \in {"threshold", "wait", "active", "idle", "closed", "reset", "none"}
       /\ pc[t] = "active" => puts[t] = <<"active">>

Places == \A t \in Threads : PlaceOK(t)

IInv == CoreType /\ Places /\ BusyHasOneOwner

\* What a step of thread t does to the others: it may wake one of them up.
LocalStep(t) ==
  \A u \in Threads \ {t} :
    /\ zn'[u] = zn[u] /\ scan'[u] = scan[u] /\ puts'[u] = puts[u]
    /\ pc'[u] = pc[u] \/ (u \in Writers /\ pc[u] = "asleep" /\ pc'[u] = "wait")

\* What it does to the owners of zones: it lets go of zones that it held and
\* takes free ones.
OwnStep(t) ==
  \A z \in Zones :
    IF z \in {zn'[t], scan'[t].cand}
    THEN zone'[z].busy = t /\ (z \in {zn[t], scan[t].cand} \/ zone[z].busy = None)
    ELSE zone'[z].busy = IF z \in {zn[t], scan[t].cand} THEN None ELSE zone[z].busy

OpenLists == {<<"open">>, <<"open", "active">>, <<"active", "open">>}

\* A step after which t holds an open token if and only if it did before, and
\* t neither falls asleep nor stops being about to test its limit.
Quiet(t) ==
  /\ LocalStep(t)
  /\ HoldsOpen(t)' <=> HoldsOpen(t)
  /\ open_io_zones_' = open_io_zones_ /\ lost'.open = lost.open
  /\ pc[t] = "wait" => pc'[t] = "wait"
  /\ pc'[t] = "asleep" => pc[t] = "asleep"

\* A thread is a writer or a migrator, and 0 is no zone.
LEMMA Consts ==
  /\ NrZones \in Nat /\ NrZones > 0
  /\ \A w \in Writers : w \in Threads /\ w \notin Migrators
  /\ \A m \in Migrators : m \in Threads /\ m \notin Writers
  /\ None \notin Threads
  /\ 0 \notin Zones
BY AllocatorAssumption, SMTT(20) DEF Threads, Zones

\* A thread that lets go of its own zones and takes free ones keeps every
\* busy zone with one owner.
LEMMA OwnersKept ==
  ASSUME NEW t \in Threads, IInv, CoreType', LocalStep(t), OwnStep(t)
  PROVE  BusyHasOneOwner'
<1> USE Consts DEF IInv, CoreType, BusyHasOneOwner, Held
<1>1. \A u \in Threads : Held(u) \subseteq Zones /\ Held(u)' \subseteq Zones
  BY SMTT(20) DEF ZnType, ScanType, Zones
<1>2. \A u \in Threads : \A z \in Held(u)' : zone'[z].busy = u
  BY <1>1, SMTT(20) DEF LocalStep, OwnStep
<1>3. ASSUME NEW z \in Zones, zone'[z].busy # None PROVE z \in Held(zone[z].busy)'
  <2>1. CASE z \in {zn'[t], scan'[t].cand}
    BY <2>1, <1>3 DEF LocalStep, OwnStep, Zones
  <2>2. CASE z \notin {zn'[t], scan'[t].cand}
    <3>1. zone'[z].busy = zone[z].busy /\ z \notin {zn[t], scan[t].cand}
      BY <2>2, <1>3 DEF LocalStep, OwnStep
    <3>2. zone[z].busy \in Threads \ {t} /\ z \in {zn[zone[z].busy],
    scan[zone[z].busy].cand}
      BY <3>1, <1>3 DEF ZoneType
    <3> QED BY <3>1, <3>2, SMTT(20) DEF LocalStep, OwnStep, Zones
  <2> QED BY <2>1, <2>2
<1> QED BY <1>2, <1>3

\* A step of one thread keeps the invariant if it keeps that thread's part.
LEMMA StepKeeps ==
  ASSUME NEW t \in Threads, IInv, CoreType', LocalStep(t), PlaceOK(t)', OwnStep(t)
  PROVE  IInv'
<1>1. ASSUME NEW u \in Threads \ {t} PROVE PlaceOK(u)'
  BY Consts, SMTT(20) DEF IInv, Places, PlaceOK, LocalStep, WriterPc
<1>2. Places'
  BY <1>1 DEF Places
<1> QED BY <1>2, OwnersKept DEF IInv

\* What the operations on a zone do to its busy_ flag.
LEMMA AcquireBusy ==
  ASSUME NEW r, "busy" \in DOMAIN r, NEW t
  PROVE  "busy" \in DOMAIN Acquire(r, t) /\ Acquire(r, t).busy = t
BY DEF Acquire

\* Release clears busy_.
LEMMA ReleaseBusy ==
  ASSUME NEW r, "busy" \in DOMAIN r
  PROVE  "busy" \in DOMAIN Release(r) /\ Release(r).busy = None
BY DEF Release

\* Setting the lifetime leaves busy_ alone.
LEMMA HintBusy ==
  ASSUME NEW r, "busy" \in DOMAIN r, NEW l
  PROVE  "busy" \in DOMAIN Hint(r, l) /\ Hint(r, l).busy = r.busy
BY DEF Hint

\* Counting used blocks leaves busy_ alone.
LEMMA UseBusy ==
  ASSUME NEW r, "busy" \in DOMAIN r, NEW n
  PROVE  "busy" \in DOMAIN Use(r, n) /\ Use(r, n).busy = r.busy
BY DEF Use

\* Finish leaves busy_ alone.
LEMMA FinishBusy ==
  ASSUME NEW r, "busy" \in DOMAIN r
  PROVE  "busy" \in DOMAIN Finish(r) /\ Finish(r).busy = r.busy
BY DEF Finish

\* Reset leaves busy_ alone.
LEMMA ResetBusy ==
  ASSUME NEW r, "busy" \in DOMAIN r
  PROVE  "busy" \in DOMAIN Reset(r) /\ Reset(r).busy = r.busy
BY DEF Reset

\* Append leaves busy_ alone.
LEMMA AppendBusy ==
  ASSUME NEW r, "busy" \in DOMAIN r, NEW n
  PROVE  "busy" \in DOMAIN Append1(r, n) /\ Append1(r, n).busy = r.busy
BY DEF Append1

(***************************************************************************)
(* Facts that the steps share.                                             *)
(***************************************************************************)
LEMMA Mine ==
  ASSUME IInv, NEW t \in Threads
  PROVE  /\ zn[t] # 0 => zn[t] \in Zones /\ zone[zn[t]].busy = t
         /\ scan[t].cand # 0 => scan[t].cand \in Zones /\ zone[scan[t].cand].busy = t
BY Consts, SMTT(20) DEF IInv, CoreType, ZnType, ScanType, BusyHasOneOwner, Held, Zones

\* A thread that owes a token has no zone; one that owes an open token looks
\* for none either.
LEMMA NoTokens ==
  ASSUME IInv, NEW t \in Threads, puts[t] # <<>>
  PROVE  /\ zn[t] = 0
         /\ puts[t] \in OpenLists => pc[t] \notin {"match", "active", "victim", "empty"}
BY SMTT(20) DEF IInv, Places, PlaceOK, OpenLists

\* A thread owes an open token if its list has one.
LEMMA Owing ==
  ASSUME NEW p \in TokenLists
  PROVE  (\E i \in 1..Len(p) : p[i] = "open") <=> p \in OpenLists
<1>1. CASE p = <<>>
  BY <1>1, SMTT(20) DEF OpenLists
<1>2. CASE p = <<"open">>
  BY <1>2, SMTT(20) DEF OpenLists
<1>3. CASE p = <<"active">>
  BY <1>3, SMTT(20) DEF OpenLists
<1>4. CASE p = <<"open", "active">>
  BY <1>4, SMTT(20) DEF OpenLists
<1>5. CASE p = <<"active", "open">>
  BY <1>5, SMTT(20) DEF OpenLists
<1> QED BY <1>1, <1>2, <1>3, <1>4, <1>5 DEF TokenLists

\* Which lists have one.
LEMMA Debts ==
  /\ {<<>>, <<"active">>} \intersect OpenLists = {}
  /\ {<<"open">>, <<"open", "active">>, <<"active", "open">>} \subseteq OpenLists
BY SMTT(20) DEF OpenLists

\* HoldsOpen, in terms of the lists.
LEMMA Holding ==
  ASSUME PutsType, PutsType', NEW t \in Threads
  PROVE  /\ HoldsOpen(t) <=>
              \/ /\ t \in Writers
                 /\ zn[t] # 0 \/ pc[t] \in {"match", "active", "victim", "empty"}
              \/ puts[t] \in OpenLists
         /\ HoldsOpen(t)' <=>
              \/ /\ t \in Writers
                 /\ zn'[t] # 0 \/ pc'[t] \in {"match", "active", "victim", "empty"}
              \/ puts'[t] \in OpenLists
BY Owing DEF HoldsOpen, Owes, PutsType

\* The zone at z becomes r.
LEMMA Update ==
  ASSUME ZoneType, NEW z \in Zones, NEW r, "busy" \in DOMAIN r,
         zone' = [zone EXCEPT ![z] = r]
  PROVE  /\ DOMAIN zone' = Zones
         /\ \A y \in Zones : /\ "busy" \in DOMAIN zone'[y]
                             /\ zone'[y].busy = IF y = z THEN r.busy ELSE zone[y].busy
BY DEF ZoneType

\* t walks on over a zone, or changes one without giving it to anybody.
LEMMA SameOwners ==
  ASSUME IInv, NEW t \in Threads, zn'[t] = zn[t], scan'[t].cand = scan[t].cand,
         \A z \in Zones : zone'[z].busy = zone[z].busy
  PROVE  OwnStep(t)
BY Mine, Consts, SMTT(20) DEF OwnStep, Zones

\* t lets go of the zone it has.
LEMMA LetsGo ==
  ASSUME IInv, NEW t \in Threads, NEW y \in Zones, y \in {zn[t], scan[t].cand},
         zn[t] = 0 \/ scan[t].cand = 0, zn'[t] = 0, scan'[t].cand = 0,
         \A z \in Zones : zone'[z].busy = IF z = y THEN None ELSE zone[z].busy
  PROVE  OwnStep(t)
BY Consts DEF OwnStep, Zones

\* Outside appends and migrations a thread has no zone.
LEMMA NoZone ==
  ASSUME IInv, NEW t \in Threads, pc[t] \notin {"append", "idle", "copy", "release"}
  PROVE  zn[t] = 0
BY DEF IInv, Places, PlaceOK, Threads

\* Outside its two walks a thread has no candidate.
LEMMA NoCandidate ==
  ASSUME IInv, NEW t \in Threads, pc[t] \notin {"match", "victim"}
  PROVE  scan[t].cand = 0 /\ scan[t].diff = NOT_GOOD
BY DEF IInv, Places, PlaceOK

\* A walk that acquired its next zone found it free.
LEMMA AtZone ==
  ASSUME IInv, NEW t \in Threads, NEW walk, At(t, walk)
  PROVE  /\ pc[t] = walk /\ puts[t] = <<>>
         /\ scan[t].i \in Zones /\ zone[scan[t].i].busy = None
BY SMTT(20) DEF At, Walking, Ready, IInv, CoreType, ScanType, Zones

\* A migrator owes no token before it sweeps.
LEMMA NoDebt ==
  ASSUME IInv, NEW t \in Threads, pc[t] \in {"take", "copy", "release", "sync"}
  PROVE  puts[t] = <<>>
BY DEF IInv, Places, PlaceOK

\* A migrator copies only into a zone it took.
LEMMA CopyHasZone ==
  ASSUME IInv, NEW m \in Migrators, pc[m] = "copy"
  PROVE  zn[m] \in Zones
BY Consts, SMTT(20) DEF IInv, CoreType, Places, PlaceOK, ZnType, Zones

\* A walk starts again, or goes on to the next zone.
LEMMA Rewound ==
  ASSUME ScanType, NEW t \in Threads, Rewind(t)
  PROVE  ScanType' /\ scan'[t].cand = 0 /\ scan'[t].diff = NOT_GOOD
BY Consts, SMTT(20) DEF Rewind, NewScan, ScanType

\* Going to the next zone keeps the candidate.
LEMMA Advanced ==
  ASSUME ScanType, NEW t \in Threads, Advance(t)
  PROVE  ScanType' /\ scan'[t].cand = scan[t].cand /\ scan'[t].diff = scan[t].diff
BY SMTT(20) DEF Advance, NextZone, ScanType

\* A walk keeps the zone it is at, or goes on without it.
LEMMA KeepOrSkip ==
  ASSUME IInv, NEW t \in Threads, NEW d, At(t, "match") \/ At(t, "victim"),
         Keep(t, scan[t].i, d) \/ Skip(t),
         UNCHANGED <<open_io_zones_, pc, zn, puts, lost>>
  PROVE  IInv' /\ Quiet(t)
<1> USE Consts DEF IInv, CoreType
<1> DEFINE z == scan[t].i
           c == scan[t].cand
<1>1. /\ z \in Zones /\ zone[z].busy = None /\ zn[t] = 0 /\ c \in 0..NrZones
      /\ pc[t] \in {"match", "victim"} /\ puts[t] = <<>>
  BY NoZone, SMTT(20) DEF At, Walking, Ready, ScanType, Zones
<1>2. HoldsOpen(t)' <=> HoldsOpen(t)
  BY Holding DEF PutsType
<1>3. CASE Skip(t)
  <2>1. ScanType' /\ scan'[t].cand = c /\ scan'[t].diff = scan[t].diff
    BY <1>3, Advanced DEF Skip
  <2>3. LocalStep(t)
    BY <1>3 DEF LocalStep, Skip, Advance, ScanType
  <2>4. PlaceOK(t)'
    BY <2>1 DEF Places, PlaceOK
  <2>5. CoreType' /\ OwnStep(t)
    BY <1>3, <2>1, SameOwners DEF Skip, PcType, ZoneType, ZnType, PutsType, LostType
  <2> QED BY <2>3, <2>4, <2>5, StepKeeps, <1>2 DEF Quiet
<1>4. CASE Keep(t, z, d)
  <2>1. scan' = [scan EXCEPT ![t] = Kept(z, d)]
    BY <1>4 DEF Keep
  <2>2. ScanType' /\ scan'[t].cand = z
    BY <1>1, <2>1, SMTT(20) DEF Kept, ScanType, Zones
  <2>3. LocalStep(t)
    BY <2>1 DEF LocalStep, ScanType
  <2>4. PlaceOK(t)'
    BY <1>1, <2>2 DEF Places, PlaceOK, Zones
  <2>5. /\ DOMAIN zone' = Zones
        /\ \A y \in Zones : /\ "busy" \in DOMAIN zone'[y]
                            /\ zone'[y].busy = IF y = z THEN t
                                               ELSE IF y = c THEN None ELSE zone[y].busy
    <3>1. /\ DOMAIN zone' = Zones
          /\ \A y \in Zones : zone'[y] = IF y = z THEN Acquire(zone[y], t)
                                       ELSE IF y = c THEN Release(zone[y]) ELSE zone[y]
      BY <1>4 DEF Keep
    <3>2. \A y \in Zones : /\ "busy" \in DOMAIN Acquire(zone[y], t)
                           /\ Acquire(zone[y], t).busy = t
                           /\ "busy" \in DOMAIN Release(zone[y])
                           /\ Release(zone[y]).busy = None
      BY AcquireBusy, ReleaseBusy DEF ZoneType
    <3> QED BY <3>1, <3>2, SMTT(20) DEF ZoneType
  <2>6. ZoneType'
    BY <2>5 DEF ZoneType
  <2>7. OwnStep(t)
    BY <1>1, <2>2, <2>5, Mine, SMTT(20) DEF OwnStep, Zones
  <2>8. CoreType'
    BY <2>2, <2>6 DEF PcType, ZnType, PutsType, LostType
  <2> QED BY <2>3, <2>4, <2>7, <2>8, StepKeeps, <1>2 DEF Quiet
<1> QED BY <1>3, <1>4

(***************************************************************************)
(* The steps that do change who holds an open token, or who sleeps.        *)
(***************************************************************************)
OpenSame(t)  == (HoldsOpen(t)' <=> HoldsOpen(t)) /\ open_io_zones_' = open_io_zones_
LostSame     == lost'.open = lost.open
Gains(t)     == /\ t \in Writers /\ ~HoldsOpen(t) /\ HoldsOpen(t)' /\ LostSame
                /\ open_io_zones_ < OpenLimit(t) /\ open_io_zones_' = open_io_zones_ + 1
Sleeps(t)    == /\ t \in Writers /\ OpenSame(t) /\ LostSame
                /\ open_io_zones_ >= OpenLimit(t)
PutsOpen(t)  == /\ HoldsOpen(t) /\ ~HoldsOpen(t)' /\ LostSame
                /\ open_io_zones_' = open_io_zones_ - 1 /\ pc'[t] = pc[t]
                /\ \A w \in Writers : pc[w] = "asleep" =>
                     \E u \in Threads : pc'[u] = "wait"
LosesOpen(t) == /\ HoldsOpen(t) /\ ~HoldsOpen(t)' /\ lost'.open = lost.open + 1
                /\ open_io_zones_' = open_io_zones_

OpenStep(t) ==
  LocalStep(t) /\ (Quiet(t) \/ Gains(t) \/ Sleeps(t) \/ PutsOpen(t) \/ LosesOpen(t))

\* AcquireFails keeps the invariant.
LEMMA AcquireFailsKeeps ==
  ASSUME IInv, NEW t \in Threads, AcquireFails(t)
  PROVE  IInv' /\ Quiet(t)
<1> USE Consts DEF IInv, CoreType
<1>a. /\ zone' = zone /\ zn' = zn /\ pc' = pc /\ puts' = puts
      /\ ScanType' /\ scan'[t].cand = scan[t].cand /\ scan'[t].diff = scan[t].diff
  BY Advanced DEF AcquireFails
<1>1. CoreType'
  <2>1. ScanType'
    BY <1>a
  <2> QED BY <2>1 DEF PcType, ZoneType, ZnType, PutsType, LostType, AcquireFails
<1>2. LocalStep(t)
  BY DEF LocalStep, PcType, ScanType, ZnType, PutsType, AcquireFails, Advance
<1>3. PlaceOK(t)'
  BY <1>a DEF Places, PlaceOK
<1>4. OwnStep(t)
  BY <1>a, SameOwners
<1>5. HoldsOpen(t)' <=> HoldsOpen(t)
  BY <1>1, <1>a, Holding, Debts
<1>6. Quiet(t)
  BY <1>2, <1>5, <1>a DEF Quiet, AcquireFails
<1> QED BY <1>1, <1>2, <1>3, <1>4, <1>6, StepKeeps

\* WaitForOpenIOZoneToken keeps the invariant.
LEMMA WaitForOpenIOZoneTokenKeeps ==
  ASSUME IInv, NEW w \in Writers, WaitForOpenIOZoneToken(w)
  PROVE  IInv' /\ LocalStep(w) /\ (Gains(w) \/ Sleeps(w))
<1> USE Consts DEF IInv, CoreType
<1>a. /\ pc[w] \in {"wait", "threshold"} /\ pc'[w] \in {"match", "asleep"}
      /\ zone' = zone /\ zn' = zn /\ zn[w] = 0 /\ puts' = puts /\ puts[w] = <<>>
      /\ scan[w].cand = 0 /\ ScanType' /\ scan'[w].cand = 0 /\ scan'[w].diff = NOT_GOOD
  BY NoZone, NoCandidate, Rewound
  DEF WaitForOpenIOZoneToken, Waiting, End, Ready, Goto, PcType
<1>1. CoreType'
  <2>1. PcType'
    BY DEF PcType, WriterPc, MigratorPc, WaitForOpenIOZoneToken, Goto
  <2>2. ScanType'
    BY <1>a
  <2>3. LostType'
    BY SMTT(20) DEF LostType, WaitForOpenIOZoneToken
  <2> QED BY <2>1, <2>2, <2>3 DEF ZoneType, ZnType, PutsType, WaitForOpenIOZoneToken
<1>2. LocalStep(w)
  BY DEF LocalStep, PcType, ScanType, ZnType, PutsType, WaitForOpenIOZoneToken, Goto, Rewind
<1>3. PlaceOK(w)'
  BY <1>a DEF PlaceOK, WriterPc
<1>4. OwnStep(w)
  BY <1>a, SameOwners
<1>5. ~HoldsOpen(w)
  BY <1>1, <1>a, Holding, Debts
<1>6. ASSUME pc'[w] = "match", open_io_zones_ < OpenLimit(w),
             open_io_zones_' = open_io_zones_ + 1
      PROVE  Gains(w)
  BY <1>1, <1>5, <1>6, Holding DEF Gains, LostSame, WaitForOpenIOZoneToken
<1>7. ASSUME pc'[w] = "asleep", open_io_zones_ >= OpenLimit(w),
             open_io_zones_' = open_io_zones_
      PROVE  Sleeps(w)
  <2>1. ~HoldsOpen(w)'
    BY <1>1, <1>a, <1>7, Holding, Debts
  <2> QED BY <2>1, <1>5, <1>7 DEF Sleeps, OpenSame, LostSame, WaitForOpenIOZoneToken
<1>8. Gains(w) \/ Sleeps(w)
  BY <1>6, <1>7 DEF WaitForOpenIOZoneToken, Goto, PcType
<1> QED BY <1>1, <1>2, <1>3, <1>4, <1>8, StepKeeps

\* ApplyFinishThreshold keeps the invariant.
LEMMA ApplyFinishThresholdKeeps ==
  ASSUME IInv, NEW w \in Writers, ApplyFinishThreshold(w)
  PROVE  IInv' /\ Quiet(w)
<1> USE Consts DEF IInv, CoreType
<1> DEFINE z == scan[w].i
<1>a. /\ z \in Zones /\ scan[w].cand = 0 /\ scan[w].diff = NOT_GOOD
      /\ pc[w] = "threshold" /\ zn' = zn /\ zn[w] = 0 /\ puts[w] = <<>>
  BY AtZone, NoZone, NoCandidate, SMTT(20) DEF ApplyFinishThreshold
<1>b. /\ DOMAIN zone' = Zones
      /\ \A y \in Zones : "busy" \in DOMAIN zone'[y] /\ zone'[y].busy = zone[y].busy
  <2>1. CASE zone' = zone BY <2>1 DEF ZoneType
  <2>2. CASE zone' = [zone EXCEPT ![z] = Finish(zone[z])]
    <3>1. "busy" \in DOMAIN Finish(zone[z]) /\ Finish(zone[z]).busy = zone[z].busy
      BY <1>a, FinishBusy DEF ZoneType
    <3> QED BY <1>a, <2>2, <3>1, Update
  <2> QED BY <2>1, <2>2, <1>a DEF ApplyFinishThreshold, Skip, ZoneType
<1>c. ScanType' /\ scan'[w].cand = 0 /\ scan'[w].diff = NOT_GOOD
  BY <1>a, Rewound, Advanced DEF ApplyFinishThreshold, Skip, GiveUp
<1>d. \/ pc'[w] = "threshold" /\ puts'[w] \in {<<>>, <<"active">>}
      \/ pc'[w] = "idle" /\ puts'[w] = <<>>
  BY <1>a DEF ApplyFinishThreshold, GiveUp, Goto, PutBack, PcType, PutsType
<1>1. CoreType'
  <2>1. PcType'
    BY DEF PcType, WriterPc, MigratorPc, ApplyFinishThreshold, GiveUp, Goto
  <2>2. ZoneType'
    BY <1>b DEF ZoneType
  <2>3. ScanType'
    BY <1>c
  <2>4. PutsType'
    BY DEF PutsType, TokenLists, ApplyFinishThreshold, PutBack
  <2> QED BY <2>1, <2>2, <2>3, <2>4 DEF ZnType, LostType, ApplyFinishThreshold
<1>2. LocalStep(w)
  BY DEF LocalStep, PcType, ScanType, ZnType, PutsType, ApplyFinishThreshold, Skip,
     PutBack, Advance, GiveUp, Goto, Rewind
<1>3. PlaceOK(w)'
  BY <1>a, <1>c, <1>d DEF PlaceOK, WriterPc
<1>4. OwnStep(w)
  BY <1>a, <1>b, <1>c, SameOwners
<1>5. HoldsOpen(w)' <=> HoldsOpen(w)
  BY <1>1, <1>a, <1>d, Holding, Debts
<1>6. Quiet(w)
  BY <1>2, <1>5, <1>a, <1>d DEF Quiet, ApplyFinishThreshold
<1> QED BY <1>1, <1>2, <1>3, <1>4, <1>6, StepKeeps

\* GetBestOpenZoneMatch keeps the invariant.
LEMMA GetBestOpenZoneMatchKeeps ==
  ASSUME IInv, NEW t \in Threads, GetBestOpenZoneMatch(t)
  PROVE  IInv' /\ Quiet(t)
BY Consts, KeepOrSkip DEF GetBestOpenZoneMatch

\* MatchedIOZone keeps the invariant.
LEMMA MatchedIOZoneKeeps ==
  ASSUME IInv, NEW w \in Writers, MatchedIOZone(w)
  PROVE  IInv' /\ Quiet(w)
<1> USE Consts DEF IInv, CoreType
<1> DEFINE z == scan[w].cand
<1>0. Rewind(w) /\ pc[w] = "match" /\ puts[w] = <<>> /\ puts' = puts
  BY DEF MatchedIOZone, End, Ready, Obtain
<1>a. /\ pc[w] = "match" /\ zn[w] = 0 /\ z \in 0..NrZones /\ puts[w] = <<>>
      /\ ScanType' /\ scan'[w].cand = 0 /\ scan'[w].diff = NOT_GOOD /\ puts' = puts
  BY <1>0, NoZone, Rewound DEF ScanType
<1>b. \/ /\ zone' = zone /\ z # 0 /\ zn' = [zn EXCEPT ![w] = z]
         /\ pc'[w] \in {"idle", "append"}
      \/ /\ zone' = IF z = 0 THEN zone ELSE [zone EXCEPT ![z] = Release(zone[z])]
         /\ zn' = zn /\ pc'[w] \in {"empty", "active"}
  BY <1>a, SMTT(20) DEF MatchedIOZone, Obtain, Goto, PcType, Places, PlaceOK, NOT_GOOD, COULD_BE_WORSE
<1>c. /\ DOMAIN zone' = Zones
      /\ \A y \in Zones :
           /\ "busy" \in DOMAIN zone'[y]
           /\ zone'[y].busy = IF zn' = zn /\ y = z THEN None ELSE zone[y].busy
  <2>1. CASE zone' = zone /\ (zn' # zn \/ z = 0)
    BY <2>1 DEF ZoneType, Zones
  <2>2. CASE z # 0 /\ zn' = zn /\ zone' = [zone EXCEPT ![z] = Release(zone[z])]
    <3>1. z \in Zones BY <2>2, <1>a, SMTT(20) DEF Zones
    <3>2. "busy" \in DOMAIN Release(zone[z]) /\ Release(zone[z]).busy = None
      BY <3>1, ReleaseBusy DEF ZoneType
    <3> QED BY <2>2, <3>1, <3>2, Update
  <2>3. z # 0 /\ zn' = [zn EXCEPT ![w] = z] => zn' # zn
    BY <1>a DEF ZnType
  <2> QED BY <1>b, <2>1, <2>2, <2>3
<1>d. \/ zn'[w] # 0 /\ pc'[w] \in {"idle", "append"}
      \/ zn'[w] = 0 /\ pc'[w] \in {"empty", "active"}
  BY <1>a, <1>b DEF ZnType
<1>1. CoreType'
  <2>1. PcType'
    BY DEF PcType, WriterPc, MigratorPc, MatchedIOZone, Obtain, Goto
  <2>2. ZoneType'
    BY <1>c DEF ZoneType
  <2>3. ScanType'
    BY <1>a
  <2>4. ZnType'
    BY <1>a, <1>b DEF ZnType
  <2> QED BY <2>1, <2>2, <2>3, <2>4 DEF PutsType, LostType, MatchedIOZone
<1>2. LocalStep(w)
  BY DEF LocalStep, PcType, ScanType, ZnType, PutsType, MatchedIOZone, Obtain, Goto, Rewind
<1>3. PlaceOK(w)'
  BY <1>a, <1>d DEF PlaceOK, WriterPc
<1>4. OwnStep(w)
  <2>1. CASE zn' = zn
    BY <2>1, <1>a, <1>c, Mine, SMTT(20) DEF OwnStep, Zones
  <2>2. CASE zn' # zn
    BY <2>2, <1>a, <1>b, <1>c, Mine, SMTT(20) DEF OwnStep, Zones, ZnType
  <2> QED BY <2>1, <2>2
<1>5. HoldsOpen(w)' <=> HoldsOpen(w)
  BY <1>1, <1>a, <1>d, Holding, Debts
<1>6. Quiet(w)
  BY <1>2, <1>5, <1>a, <1>d DEF Quiet, MatchedIOZone
<1> QED BY <1>1, <1>2, <1>3, <1>4, <1>6, StepKeeps

\* GetActiveIOZoneTokenIfAvailable keeps the invariant.
LEMMA GetActiveIOZoneTokenIfAvailableKeeps ==
  ASSUME IInv, NEW w \in Writers, GetActiveIOZoneTokenIfAvailable(w)
  PROVE  IInv' /\ Quiet(w)
<1> USE Consts DEF IInv, CoreType
<1>a. /\ pc[w] = "active" /\ pc'[w] \in {"empty", "victim"}
      /\ zone' = zone /\ zn' = zn /\ zn[w] = 0 /\ puts' = puts /\ puts[w] = <<>>
      /\ scan' = scan /\ scan[w].cand = 0 /\ scan[w].diff = NOT_GOOD
  BY NoZone, NoCandidate DEF GetActiveIOZoneTokenIfAvailable, Ready, Goto, PcType
<1>1. CoreType'
  <2>1. PcType'
    BY DEF PcType, WriterPc, MigratorPc, GetActiveIOZoneTokenIfAvailable, Goto
  <2> QED BY <2>1 DEF ZoneType, ScanType, ZnType, PutsType, LostType,
      GetActiveIOZoneTokenIfAvailable
<1>2. LocalStep(w)
  BY DEF LocalStep, PcType, ScanType, ZnType, PutsType, GetActiveIOZoneTokenIfAvailable,
     Goto
<1>3. PlaceOK(w)'
  BY <1>a DEF PlaceOK, WriterPc
<1>4. OwnStep(w)
  BY <1>a, SameOwners
<1>5. HoldsOpen(w)' <=> HoldsOpen(w)
  BY <1>1, <1>a, Holding, Debts
<1>6. Quiet(w)
  BY <1>2, <1>5, <1>a DEF Quiet, GetActiveIOZoneTokenIfAvailable
<1> QED BY <1>1, <1>2, <1>3, <1>4, <1>6, StepKeeps

\* FinishCheapestIOZone keeps the invariant.
LEMMA FinishCheapestIOZoneKeeps ==
  ASSUME IInv, NEW w \in Writers, FinishCheapestIOZone(w)
  PROVE  IInv' /\ Quiet(w)
BY Consts, KeepOrSkip DEF FinishCheapestIOZone

\* FinishVictim keeps the invariant.
LEMMA FinishVictimKeeps ==
  ASSUME IInv, NEW w \in Writers, FinishVictim(w)
  PROVE  IInv' /\ Quiet(w)
<1> USE Consts DEF IInv, CoreType
<1> DEFINE v == scan[w].cand
<1>a. /\ pc[w] = "victim" /\ zn[w] = 0 /\ zn' = zn /\ v \in 0..NrZones /\ puts[w] = <<>>
      /\ Rewind(w)
  BY NoZone DEF FinishVictim, End, Ready, GiveUp, ScanType
<1>b. /\ DOMAIN zone' = Zones
      /\ \A y \in Zones : /\ "busy" \in DOMAIN zone'[y]
                          /\ zone'[y].busy = IF y = v THEN None ELSE zone[y].busy
  <2>1. CASE v = 0 /\ zone' = zone
    BY <2>1 DEF ZoneType, Zones
  <2>2. ASSUME v # 0, NEW r, r = Release(zone[v]) \/ r = Release(Finish(zone[v])),
               zone' = [zone EXCEPT ![v] = r]
        PROVE  <1>b!:
    <3>1. v \in Zones BY <2>2, <1>a, SMTT(20) DEF Zones
    <3>2. "busy" \in DOMAIN zone[v] BY <3>1 DEF ZoneType
    <3>3. "busy" \in DOMAIN Finish(zone[v]) BY <3>2, FinishBusy
    <3>4. "busy" \in DOMAIN r /\ r.busy = None BY <2>2, <3>2, <3>3, ReleaseBusy
    <3> QED BY <2>2, <3>1, <3>4, Update
  <2>3. \/ v = 0 /\ zone' = zone
        \/ v # 0 /\ zone' = [zone EXCEPT ![v] = Release(zone[v])]
        \/ v # 0 /\ zone' = [zone EXCEPT ![v] = Release(Finish(zone[v]))]
    BY DEF FinishVictim
  <2> QED BY <2>1, <2>2, <2>3
<1>c. ScanType' /\ scan'[w].cand = 0 /\ scan'[w].diff = NOT_GOOD
  BY <1>a, Rewound
<1>d. \/ pc'[w] = "active" /\ puts'[w] \in {<<>>, <<"active">>}
      \/ pc'[w] = "idle" /\ puts'[w] = <<"open">>
  BY <1>a DEF FinishVictim, GiveUp, Goto, PutBack, PcType, PutsType
<1>1. CoreType'
  <2>1. PcType'
    BY DEF PcType, WriterPc, MigratorPc, FinishVictim, Goto, GiveUp
  <2>2. ZoneType'
    BY <1>b DEF ZoneType
  <2>3. ScanType'
    BY <1>c
  <2>4. PutsType'
    BY DEF PutsType, TokenLists, FinishVictim, PutBack
  <2> QED BY <2>1, <2>2, <2>3, <2>4 DEF ZnType, LostType, FinishVictim
<1>2. LocalStep(w)
  BY DEF LocalStep, PcType, ScanType, ZnType, PutsType, FinishVictim, Goto, Rewind,
     PutBack, GiveUp
<1>3. PlaceOK(w)'
  BY <1>a, <1>c, <1>d DEF PlaceOK, WriterPc
<1>4. OwnStep(w)
  BY <1>a, <1>b, <1>c, Mine, SMTT(20) DEF OwnStep, Zones
<1>5. HoldsOpen(w)' <=> HoldsOpen(w)
  BY <1>1, <1>a, <1>d, Holding, Debts
<1>6. Quiet(w)
  BY <1>2, <1>5, <1>a, <1>d DEF Quiet, FinishVictim
<1> QED BY <1>1, <1>2, <1>3, <1>4, <1>6, StepKeeps

\* AllocateEmptyZone keeps the invariant.
LEMMA AllocateEmptyZoneKeeps ==
  ASSUME IInv, NEW w \in Writers, AllocateEmptyZone(w)
  PROVE  IInv' /\ Quiet(w)
<1> USE Consts DEF IInv, CoreType
<1> DEFINE z == scan[w].i
             r == Hint(Acquire(zone[z], w), Lifetime[w])
<1>a. /\ pc[w] = "empty" /\ zn[w] = 0 /\ scan[w].cand = 0 /\ scan[w].diff = NOT_GOOD
      /\ puts[w] = <<>> /\ puts' = puts /\ z \in Zones /\ zone[z].busy = None
  BY AtZone, NoZone, NoCandidate, SMTT(20) DEF AllocateEmptyZone
<1>b. \/ /\ zone' = [zone EXCEPT ![z] = r] /\ zn' = [zn EXCEPT ![w] = z]
         /\ pc'[w] \in {"idle", "append"} /\ Rewind(w)
      \/ /\ zone' = zone /\ zn' = zn /\ pc' = pc /\ Advance(w)
  BY DEF AllocateEmptyZone, Obtain, Goto, Skip, PcType
<1>c. /\ DOMAIN zone' = Zones
      /\ \A y \in Zones : /\ "busy" \in DOMAIN zone'[y]
                          /\ zone'[y].busy = IF y = zn'[w] THEN w ELSE zone[y].busy
  <2>1. CASE zone' = zone /\ zn' = zn
    BY <2>1, <1>a DEF ZoneType, Zones
  <2>2. CASE zone' = [zone EXCEPT ![z] = r] /\ zn' = [zn EXCEPT ![w] = z]
    <3>0. "busy" \in DOMAIN Acquire(zone[z], w) /\ Acquire(zone[z], w).busy = w
      BY <1>a, AcquireBusy DEF ZoneType
    <3>1. "busy" \in DOMAIN r /\ r.busy = w BY <3>0, HintBusy
    <3>2. zn'[w] = z BY <2>2 DEF ZnType
    <3> QED BY <2>2, <3>1, <3>2, <1>a, Update
  <2> QED BY <1>b, <2>1, <2>2
<1>d. ScanType' /\ scan'[w].cand = 0 /\ scan'[w].diff = NOT_GOOD
  BY <1>a, <1>b, Rewound, Advanced
<1>e. \/ zn'[w] = z /\ pc'[w] \in {"idle", "append"}
      \/ zn'[w] = 0 /\ pc'[w] = "empty"
  BY <1>a, <1>b DEF ZnType
<1>1. CoreType'
  <2>1. PcType'
    BY DEF PcType, WriterPc, MigratorPc, AllocateEmptyZone, Obtain, Goto
  <2>2. ZoneType'
    BY <1>c DEF ZoneType
  <2>3. ScanType'
    BY <1>d
  <2>4. ZnType'
    BY <1>a, <1>b, SMTT(20) DEF ZnType, Zones
  <2> QED BY <2>1, <2>2, <2>3, <2>4 DEF PutsType, LostType, AllocateEmptyZone
<1>2. LocalStep(w)
  BY DEF LocalStep, PcType, ScanType, ZnType, PutsType, AllocateEmptyZone, Obtain, Skip,
     Goto, Rewind, Advance
<1>3. PlaceOK(w)'
  BY <1>a, <1>d, <1>e DEF PlaceOK, WriterPc
<1>4. OwnStep(w)
  BY <1>a, <1>c, <1>d, <1>e DEF OwnStep
<1>5. HoldsOpen(w)' <=> HoldsOpen(w)
  BY <1>1, <1>a, <1>e, Holding
<1>6. Quiet(w)
  BY <1>2, <1>5, <1>a, <1>e DEF Quiet, AllocateEmptyZone
<1> QED BY <1>1, <1>2, <1>3, <1>4, <1>6, StepKeeps

\* NoEmptyZone keeps the invariant.
LEMMA NoEmptyZoneKeeps ==
  ASSUME IInv, NEW w \in Writers, NoEmptyZone(w)
  PROVE  IInv' /\ Quiet(w)
<1> USE Consts DEF IInv, CoreType
<1>a. /\ pc[w] = "empty" /\ pc'[w] = "idle"
      /\ zone' = zone /\ zn' = zn /\ zn[w] = 0
      /\ puts[w] = <<>> /\ puts'[w] = <<"active", "open">>
      /\ scan[w].cand = 0 /\ ScanType' /\ scan'[w].cand = 0 /\ scan'[w].diff = NOT_GOOD
  BY NoZone, NoCandidate, Rewound
  DEF NoEmptyZone, End, Ready, PutBack, GiveUp, Goto, PcType, PutsType
<1>1. CoreType'
  <2>1. PcType'
    BY DEF PcType, WriterPc, MigratorPc, NoEmptyZone, GiveUp, Goto
  <2>2. ScanType'
    BY <1>a
  <2>3. PutsType'
    BY DEF PutsType, TokenLists, NoEmptyZone, PutBack
  <2> QED BY <2>1, <2>2, <2>3 DEF ZoneType, ZnType, LostType, NoEmptyZone
<1>2. LocalStep(w)
  BY DEF LocalStep, PcType, ScanType, ZnType, PutsType, NoEmptyZone, PutBack, GiveUp,
     Goto, Rewind
<1>3. PlaceOK(w)'
  BY <1>a DEF PlaceOK, WriterPc
<1>4. OwnStep(w)
  BY <1>a, SameOwners
<1>5. HoldsOpen(w)' <=> HoldsOpen(w)
  BY <1>1, <1>a, Holding, Debts
<1>6. Quiet(w)
  BY <1>2, <1>5, <1>a DEF Quiet, NoEmptyZone
<1> QED BY <1>1, <1>2, <1>3, <1>4, <1>6, StepKeeps

\* StartAppend keeps the invariant.
LEMMA StartAppendKeeps ==
  ASSUME IInv, NEW w \in Writers, StartAppend(w)
  PROVE  IInv' /\ Quiet(w)
<1> USE Consts DEF IInv, CoreType
<1>a. /\ pc[w] = "idle" /\ pc'[w] \in {"append", "threshold", "wait"}
      /\ zn[w] # 0 => pc'[w] = "append"
      /\ zone' = zone /\ zn' = zn /\ puts' = puts /\ puts[w] = <<>>
      /\ scan' = scan /\ scan[w].cand = 0 /\ scan[w].diff = NOT_GOOD
  BY NoCandidate DEF StartAppend, StartAllocation, Ready, Goto, PcType
<1>1. CoreType'
  <2>1. PcType'
    BY DEF PcType, WriterPc, MigratorPc, StartAppend, StartAllocation, Goto
  <2> QED BY <2>1 DEF ZoneType, ScanType, ZnType, PutsType, LostType, StartAppend
<1>2. LocalStep(w)
  BY DEF LocalStep, PcType, ScanType, ZnType, PutsType, StartAppend, StartAllocation, Goto
<1>3. PlaceOK(w)'
  BY <1>a DEF PlaceOK, WriterPc
<1>4. OwnStep(w)
  BY <1>a, SameOwners
<1>5. HoldsOpen(w)' <=> HoldsOpen(w)
  BY <1>1, <1>a, Holding, Debts
<1>6. Quiet(w)
  BY <1>2, <1>5, <1>a DEF Quiet, StartAppend
<1> QED BY <1>1, <1>2, <1>3, <1>4, <1>6, StepKeeps

\* AppendDirectAtEnd keeps the invariant.
LEMMA AppendDirectAtEndKeeps ==
  ASSUME IInv, NEW w \in Writers, AppendDirectAtEnd(w)
  PROVE  IInv' /\ Quiet(w)
<1> USE Consts DEF IInv, CoreType
<1>0. /\ pc[w] = "append" /\ zn[w] \in Zones /\ zn[w] # 0 /\ puts[w] = <<>>
      /\ scan' = scan /\ scan[w].cand = 0 /\ scan[w].diff = NOT_GOOD
  BY NoCandidate, Mine DEF AppendDirectAtEnd, Ready
<1>a. /\ <1>0!:
      /\ pc'[w] \in {"threshold", "wait"} /\ zn'[w] = 0 /\ puts'[w] = <<"open", "active">>
  BY <1>0 DEF AppendDirectAtEnd, StartAllocation, Goto, PutBack, PcType, PutsType, ZnType
<1>b. /\ DOMAIN zone' = Zones
      /\ \A y \in Zones : /\ "busy" \in DOMAIN zone'[y]
                          /\ zone'[y].busy = IF y = zn[w] THEN None ELSE zone[y].busy
  <2>1. "busy" \in DOMAIN Release(PushedUsed(w)) /\ Release(PushedUsed(w)).busy = None
    <3>1. "busy" \in DOMAIN PushedUsed(w)
      BY <1>a, UseBusy DEF ZoneType, PushedUsed
    <3> QED BY <3>1, ReleaseBusy
  <2>2. zone' = [zone EXCEPT ![zn[w]] = Release(PushedUsed(w))]
    BY DEF AppendDirectAtEnd
  <2> QED BY <1>a, <2>1, <2>2, Update
<1>1. CoreType'
  <2>1. PcType'
    BY DEF PcType, WriterPc, MigratorPc, AppendDirectAtEnd, StartAllocation, Goto
  <2>2. ZoneType'
    BY <1>b DEF ZoneType
  <2>3. ZnType'
    BY SMTT(20) DEF ZnType, AppendDirectAtEnd
  <2>4. PutsType'
    BY DEF PutsType, TokenLists, AppendDirectAtEnd, PutBack
  <2> QED BY <2>1, <2>2, <2>3, <2>4 DEF ScanType, LostType, AppendDirectAtEnd
<1>2. LocalStep(w)
  BY DEF LocalStep, PcType, ScanType, ZnType, PutsType, AppendDirectAtEnd, PutBack,
     StartAllocation, Goto
<1>3. PlaceOK(w)'
  BY <1>a DEF PlaceOK, WriterPc
<1>4. OwnStep(w)
  BY <1>a, <1>b, LetsGo, SMTT(20)
<1>5. HoldsOpen(w)' <=> HoldsOpen(w)
  BY <1>1, <1>a, Holding, Debts
<1>6. Quiet(w)
  BY <1>2, <1>5, <1>a DEF Quiet, AppendDirectAtEnd
<1> QED BY <1>1, <1>2, <1>3, <1>4, <1>6, StepKeeps

\* AppendDirect keeps the invariant.
LEMMA AppendDirectKeeps ==
  ASSUME IInv, NEW w \in Writers, AppendDirect(w)
  PROVE  IInv' /\ Quiet(w)
<1> USE Consts DEF IInv, CoreType
<1>a. /\ pc[w] = "append" /\ pc'[w] \in {"append", "idle"}
      /\ zn' = zn /\ zn[w] \in Zones /\ zn[w] # 0 /\ puts' = puts /\ puts[w] = <<>>
      /\ scan' = scan /\ scan[w].cand = 0 /\ scan[w].diff = NOT_GOOD
  BY NoCandidate, Mine DEF AppendDirect, Ready, Goto, PcType
<1>b. /\ DOMAIN zone' = Zones
      /\ \A y \in Zones : "busy" \in DOMAIN zone'[y] /\ zone'[y].busy = zone[y].busy
  <2> DEFINE n == MinOf(left[w], zone[zn[w]].capacity)
  <2>1. zn[w] \in Zones /\ zone' = [zone EXCEPT ![zn[w]] = Append1(zone[zn[w]], n)]
    BY <1>a DEF AppendDirect, ZoneType
  <2>2. /\ "busy" \in DOMAIN Append1(zone[zn[w]], n)
        /\ Append1(zone[zn[w]], n).busy = zone[zn[w]].busy
    BY <2>1, AppendBusy DEF ZoneType
  <2> HIDE DEF n
  <2> QED BY <2>1, <2>2, Update
<1>1. CoreType'
  <2>1. PcType'
    BY DEF PcType, WriterPc, MigratorPc, AppendDirect, Goto
  <2>2. ZoneType'
    BY <1>b DEF ZoneType
  <2> QED BY <2>1, <2>2 DEF ScanType, ZnType, PutsType, LostType, AppendDirect
<1>2. LocalStep(w)
  BY DEF LocalStep, PcType, ScanType, ZnType, PutsType, AppendDirect, Goto
<1>3. PlaceOK(w)'
  BY <1>a DEF PlaceOK, WriterPc
<1>4. OwnStep(w)
  BY <1>a, <1>b, SameOwners
<1>5. HoldsOpen(w)' <=> HoldsOpen(w)
  BY <1>1, <1>a, Holding, Debts
<1>6. Quiet(w)
  BY <1>2, <1>5, <1>a DEF Quiet, AppendDirect
<1> QED BY <1>1, <1>2, <1>3, <1>4, <1>6, StepKeeps

\* BufferedAppend keeps the invariant.
LEMMA BufferedAppendKeeps ==
  ASSUME IInv, NEW w \in Writers, BufferedAppend(w)
  PROVE  IInv' /\ Quiet(w)
<1> USE Consts DEF IInv, CoreType
<1> DEFINE n == MinOf(left[w], zone[zn[w]].capacity)
             r == Use(Append1(zone[zn[w]], n), n)
<1>a. /\ pc[w] = "append" /\ zn[w] \in Zones /\ zn[w] # 0 /\ puts[w] = <<>>
      /\ scan' = scan /\ scan[w].cand = 0 /\ scan[w].diff = NOT_GOOD
  BY NoCandidate, Mine DEF BufferedAppend, Ready
<1>b. \/ zn' = [zn EXCEPT ![w] = 0] /\ zone' = [zone EXCEPT ![zn[w]] = Release(r)]
      \/ zn' = zn /\ zone' = [zone EXCEPT ![zn[w]] = r]
  BY DEF BufferedAppend
<1>c. "busy" \in DOMAIN r /\ r.busy = zone[zn[w]].busy
  <2>1. /\ "busy" \in DOMAIN Append1(zone[zn[w]], n)
        /\ Append1(zone[zn[w]], n).busy = zone[zn[w]].busy
    BY <1>a, AppendBusy DEF ZoneType
  <2> QED BY <2>1, UseBusy
<1>d. "busy" \in DOMAIN Release(r) /\ Release(r).busy = None
  BY <1>c, ReleaseBusy
<1> HIDE DEF r
<1>e. /\ DOMAIN zone' = Zones
      /\ \A y \in Zones :
           /\ "busy" \in DOMAIN zone'[y]
           /\ zone'[y].busy = IF y = zn[w] /\ zn'[w] = 0 THEN None ELSE zone[y].busy
  <2>1. CASE zn' = zn /\ zone' = [zone EXCEPT ![zn[w]] = r]
    <3>1. zn'[w] # 0 BY <2>1, <1>a
    <3>2. \A y \in Zones :
            /\ "busy" \in DOMAIN zone'[y]
            /\ zone'[y].busy = IF y = zn[w] THEN r.busy ELSE zone[y].busy
      BY <2>1, <1>a, <1>c, Update
    <3>3. DOMAIN zone' = Zones BY <2>1, <1>a, <1>c, Update
    <3> QED BY <3>1, <3>2, <3>3, <1>c
  <2>2. CASE zn' = [zn EXCEPT ![w] = 0] /\ zone' = [zone EXCEPT ![zn[w]] = Release(r)]
    <3>1. zn'[w] = 0 BY <2>2 DEF ZnType
    <3> HIDE DEF n
    <3> QED BY <2>2, <3>1, <1>a, <1>d, Update
  <2> QED BY <1>b, <2>1, <2>2
<1>f. \/ zn'[w] = 0 /\ pc'[w] \in {"threshold", "wait"} /\ puts'[w] = <<"open", "active">>
      \/ zn'[w] = zn[w] /\ pc'[w] = "idle" /\ puts'[w] = <<>>
  BY <1>a DEF BufferedAppend, StartAllocation, Goto, PutBack, PcType, ZnType, PutsType
<1>1. CoreType'
  <2>1. PcType'
    BY DEF PcType, WriterPc, MigratorPc, BufferedAppend, StartAllocation, Goto
  <2>2. ZoneType'
    BY <1>e DEF ZoneType
  <2>3. ZnType'
    <3>1. zn' = zn \/ zn' = [zn EXCEPT ![w] = 0]
      BY DEF BufferedAppend
    <3> QED BY <3>1, SMTT(20) DEF ZnType
  <2>4. PutsType'
    BY DEF PutsType, TokenLists, BufferedAppend, PutBack
  <2> QED BY <2>1, <2>2, <2>3, <2>4 DEF ScanType, LostType, BufferedAppend
<1>2. LocalStep(w)
  BY DEF LocalStep, PcType, ScanType, ZnType, PutsType, BufferedAppend, PutBack,
     StartAllocation, Goto
<1>3. PlaceOK(w)'
  BY <1>a, <1>f DEF PlaceOK, WriterPc
<1>4. OwnStep(w)
  <2>1. CASE zn'[w] = 0
    BY <2>1, <1>a, <1>e, LetsGo, SMTT(20)
  <2>2. CASE zn'[w] = zn[w]
    BY <2>2, <1>a, <1>e, SameOwners
  <2> QED BY <2>1, <2>2, <1>f
<1>5. HoldsOpen(w)' <=> HoldsOpen(w)
  BY <1>1, <1>a, <1>f, Holding, Debts
<1>6. Quiet(w)
  BY <1>2, <1>5, <1>a, <1>f DEF Quiet, BufferedAppend
<1> QED BY <1>1, <1>2, <1>3, <1>4, <1>6, StepKeeps

\* CloseFile keeps the invariant.
LEMMA CloseFileKeeps ==
  ASSUME IInv, NEW w \in Writers, CloseFile(w)
  PROVE  IInv' /\ Quiet(w)
<1> USE Consts DEF IInv, CoreType
<1>a. /\ pc[w] = "idle" /\ pc'[w] = "closed"
      /\ zone' = zone /\ zn' = zn /\ zn[w] = 0 /\ puts' = puts /\ puts[w] = <<>>
      /\ scan' = scan /\ scan[w].cand = 0 /\ scan[w].diff = NOT_GOOD
  BY NoCandidate DEF CloseFile, Ready, Goto, PcType
<1>1. CoreType'
  <2>1. PcType'
    BY DEF PcType, WriterPc, MigratorPc, CloseFile, Goto
  <2> QED BY <2>1 DEF ZoneType, ScanType, ZnType, PutsType, LostType, CloseFile
<1>2. LocalStep(w)
  BY DEF LocalStep, PcType, ScanType, ZnType, PutsType, CloseFile, Goto
<1>3. PlaceOK(w)'
  BY <1>a DEF PlaceOK, WriterPc
<1>4. OwnStep(w)
  BY <1>a, SameOwners
<1>5. HoldsOpen(w)' <=> HoldsOpen(w)
  BY <1>1, <1>a, Holding, Debts
<1>6. Quiet(w)
  BY <1>2, <1>5, <1>a DEF Quiet, CloseFile
<1> QED BY <1>1, <1>2, <1>3, <1>4, <1>6, StepKeeps

\* CloseWR keeps the invariant.
LEMMA CloseWRKeeps ==
  ASSUME IInv, NEW w \in Writers, CloseWR(w)
  PROVE  IInv' /\ LocalStep(w) /\ (Quiet(w) \/ LosesOpen(w))
<1> USE Consts DEF IInv, CoreType
<1>a. /\ pc[w] = "idle" /\ pc'[w] = "closed" /\ puts[w] = <<>>
      /\ zn[w] \in Zones /\ zn[w] # 0 /\ zn'[w] = 0
      /\ scan' = scan /\ scan[w].cand = 0 /\ scan[w].diff = NOT_GOOD
  BY NoCandidate, Mine DEF CloseWR, Ready, Goto, PcType, ZnType
<1>b. /\ DOMAIN zone' = Zones
      /\ \A y \in Zones : /\ "busy" \in DOMAIN zone'[y]
                          /\ zone'[y].busy = IF y = zn[w] THEN None ELSE zone[y].busy
  <2>1. "busy" \in DOMAIN Release(PushedUsed(w)) /\ Release(PushedUsed(w)).busy = None
    <3>1. "busy" \in DOMAIN PushedUsed(w)
      BY <1>a, UseBusy DEF ZoneType, PushedUsed
    <3> QED BY <3>1, ReleaseBusy
  <2>2. zone' = [zone EXCEPT ![zn[w]] = Release(PushedUsed(w))]
    BY DEF CloseWR
  <2> QED BY <1>a, <2>1, <2>2, Update
<1>1. CoreType'
  <2>1. PcType'
    BY DEF PcType, WriterPc, MigratorPc, CloseWR, Goto
  <2>2. ZoneType'
    BY <1>b DEF ZoneType
  <2>3. ZnType'
    BY SMTT(20) DEF ZnType, CloseWR
  <2>4. PutsType'
    BY DEF PutsType, TokenLists, CloseWR, PutBack
  <2>5. LostType'
    BY SMTT(20) DEF LostType, CloseWR
  <2> QED BY <2>1, <2>2, <2>3, <2>4, <2>5 DEF ScanType, CloseWR
<1>2. LocalStep(w)
  BY DEF LocalStep, PcType, ScanType, ZnType, PutsType, CloseWR, Goto, PutBack
<1>3. PlaceOK(w)'
  BY <1>a DEF PlaceOK, WriterPc
<1>4. OwnStep(w)
  BY <1>a, <1>b, LetsGo, SMTT(20)
<1>5. HoldsOpen(w)
  BY <1>1, <1>a, Holding
<1>6. ASSUME puts'[w] \in {<<"open">>, <<"open", "active">>}, lost'.open = lost.open
      PROVE  Quiet(w)
  <2>1. HoldsOpen(w)'
    BY <1>1, <1>6, Holding, Debts
  <2> QED BY <2>1, <1>2, <1>a, <1>5, <1>6 DEF Quiet, CloseWR
<1>7. ASSUME puts'[w] = puts[w], lost'.open = lost.open + 1
      PROVE  LosesOpen(w)
  <2>1. ~HoldsOpen(w)'
    BY <1>1, <1>a, <1>7, Holding, Debts
  <2> QED BY <2>1, <1>5, <1>7 DEF LosesOpen, CloseWR
<1>8. Quiet(w) \/ LosesOpen(w)
  BY <1>6, <1>7 DEF CloseWR, PutBack, PutsType, LostType
<1> QED BY <1>1, <1>2, <1>3, <1>4, <1>8, StepKeeps

\* DeleteFile keeps the invariant.
LEMMA DeleteFileKeeps ==
  ASSUME IInv, NEW w \in Writers, DeleteFile(w)
  PROVE  IInv' /\ Quiet(w)
<1> USE Consts DEF IInv, CoreType
<1>a. /\ pc[w] = "closed" /\ pc'[w] = "reset"
      /\ zn' = zn /\ zn[w] = 0 /\ puts' = puts /\ puts[w] = <<>>
      /\ scan' = scan /\ scan[w].cand = 0 /\ scan[w].diff = NOT_GOOD
  BY NoZone, NoCandidate DEF DeleteFile, Ready, Goto, PcType
<1>b. /\ DOMAIN zone' = Zones
      /\ \A y \in Zones : "busy" \in DOMAIN zone'[y] /\ zone'[y].busy = zone[y].busy
  <2>1. CASE zone' = zone BY <2>1 DEF ZoneType
  <2>2. CASE zone' = ClearExtents(w)
    <3>1. \A y \in Zones : zone'[y] = Use(zone[y], -ext[w][y]) /\ "busy" \in DOMAIN zone[y]
      BY <2>2 DEF ClearExtents, ZoneType
    <3>2. DOMAIN zone' = Zones BY <2>2 DEF ClearExtents
    <3> QED BY <3>1, <3>2, UseBusy, SMTT(20)
  <2> QED BY <2>1, <2>2 DEF DeleteFile
<1>1. CoreType'
  <2>1. PcType'
    BY DEF PcType, WriterPc, MigratorPc, DeleteFile, Goto
  <2>2. ZoneType'
    BY <1>b DEF ZoneType
  <2> QED BY <2>1, <2>2 DEF ScanType, ZnType, PutsType, LostType, DeleteFile
<1>2. LocalStep(w)
  BY DEF LocalStep, PcType, ScanType, ZnType, PutsType, DeleteFile, Goto
<1>3. PlaceOK(w)'
  BY <1>a DEF PlaceOK, WriterPc
<1>4. OwnStep(w)
  BY <1>a, <1>b, SameOwners
<1>5. HoldsOpen(w)' <=> HoldsOpen(w)
  BY <1>1, <1>a, Holding, Debts
<1>6. Quiet(w)
  BY <1>2, <1>5, <1>a DEF Quiet, DeleteFile
<1> QED BY <1>1, <1>2, <1>3, <1>4, <1>6, StepKeeps

\* ResetUnusedIOZones keeps the invariant.
LEMMA ResetUnusedIOZonesKeeps ==
  ASSUME IInv, NEW t \in Threads, ResetUnusedIOZones(t)
  PROVE  IInv' /\ Quiet(t)
<1> USE Consts DEF IInv, CoreType
<1> DEFINE z == scan[t].i
<1>a. /\ z \in Zones /\ pc[t] = "reset" /\ zn' = zn /\ zn[t] = 0 /\ puts[t] = <<>>
      /\ scan[t].cand = 0 /\ scan[t].diff = NOT_GOOD
  <2>1. At(t, "reset") /\ zn' = zn
    BY DEF ResetUnusedIOZones
  <2>2. z \in Zones /\ pc[t] = "reset" /\ puts[t] = <<>>
    BY <2>1, AtZone
  <2> QED BY <2>1, <2>2, NoZone, NoCandidate
<1>b. /\ DOMAIN zone' = Zones
      /\ \A y \in Zones : "busy" \in DOMAIN zone'[y] /\ zone'[y].busy = zone[y].busy
  <2>1. CASE zone' = zone BY <2>1 DEF ZoneType
  <2>2. CASE zone' = [zone EXCEPT ![z] = Reset(zone[z])]
    <3>1. "busy" \in DOMAIN Reset(zone[z]) /\ Reset(zone[z]).busy = zone[z].busy
      BY <1>a, ResetBusy DEF ZoneType
    <3> QED BY <1>a, <2>2, <3>1, Update
  <2> QED BY <2>1, <2>2 DEF ResetUnusedIOZones, Skip, ZoneType
<1>c. ScanType' /\ scan'[t].cand = 0 /\ scan'[t].diff = NOT_GOOD
  BY <1>a, Rewound, Advanced DEF ResetUnusedIOZones, Skip
<1>d. pc'[t] \in {"reset", Rest(t)} /\ puts'[t] \in {<<>>, <<"active">>}
  BY <1>a DEF ResetUnusedIOZones, Goto, PutBack, PcType, PutsType
<1>1. CoreType'
  <2>1. PcType'
    BY DEF PcType, WriterPc, MigratorPc, ResetUnusedIOZones, Goto, Rest
  <2>2. ZoneType'
    BY <1>b DEF ZoneType
  <2>3. ScanType'
    BY <1>c
  <2>4. PutsType'
    BY DEF PutsType, TokenLists, ResetUnusedIOZones, PutBack
  <2> QED BY <2>1, <2>2, <2>3, <2>4 DEF ZnType, LostType, ResetUnusedIOZones
<1>2. LocalStep(t)
  BY DEF LocalStep, PcType, ScanType, ZnType, PutsType, ResetUnusedIOZones, Skip, PutBack,
     Advance, Goto, Rewind
<1>3. PlaceOK(t)'
  BY <1>a, <1>c, <1>d DEF PlaceOK, WriterPc, MigratorPc, Rest
<1>4. OwnStep(t)
  BY <1>a, <1>b, <1>c, SameOwners
<1>5. HoldsOpen(t)' <=> HoldsOpen(t)
  BY <1>1, <1>a, <1>d, Holding, Debts DEF Rest
<1>6. Quiet(t)
  BY <1>2, <1>5, <1>a, <1>d DEF Quiet, ResetUnusedIOZones, Rest
<1> QED BY <1>1, <1>2, <1>3, <1>4, <1>6, StepKeeps

\* ResetDone keeps the invariant.
LEMMA ResetDoneKeeps ==
  ASSUME IInv, NEW t \in Threads, ResetDone(t)
  PROVE  IInv' /\ Quiet(t)
<1> USE Consts DEF IInv, CoreType
<1>a. /\ pc[t] = "reset" /\ pc'[t] = Rest(t)
      /\ zone' = zone /\ zn' = zn /\ zn[t] = 0 /\ puts' = puts /\ puts[t] = <<>>
      /\ scan[t].cand = 0 /\ ScanType' /\ scan'[t].cand = 0 /\ scan'[t].diff = NOT_GOOD
  BY NoZone, NoCandidate, Rewound DEF ResetDone, End, Ready, Goto, PcType
<1>1. CoreType'
  <2>1. PcType'
    BY DEF PcType, WriterPc, MigratorPc, ResetDone, Goto, Rest
  <2>2. ScanType'
    BY <1>a
  <2> QED BY <2>1, <2>2 DEF ZoneType, ZnType, PutsType, LostType, ResetDone
<1>2. LocalStep(t)
  BY DEF LocalStep, PcType, ScanType, ZnType, PutsType, ResetDone, Goto, Rewind
<1>3. PlaceOK(t)'
  BY <1>a DEF PlaceOK, WriterPc, MigratorPc, Rest
<1>4. OwnStep(t)
  BY <1>a, SameOwners
<1>5. HoldsOpen(t)' <=> HoldsOpen(t)
  BY <1>1, <1>a, Holding, Debts DEF Rest
<1>6. Quiet(t)
  BY <1>2, <1>5, <1>a DEF Quiet, ResetDone, Rest
<1> QED BY <1>1, <1>2, <1>3, <1>4, <1>6, StepKeeps

\* StartMigration keeps the invariant.
LEMMA StartMigrationKeeps ==
  ASSUME IInv, NEW m \in Migrators, StartMigration(m)
  PROVE  IInv' /\ Quiet(m)
<1> USE Consts DEF IInv, CoreType
<1>a. /\ pc[m] = "none" /\ pc'[m] = "take"
      /\ zone' = zone /\ zn' = zn /\ zn[m] = 0 /\ puts' = puts /\ puts[m] = <<>>
      /\ scan' = scan /\ scan[m].cand = 0 /\ scan[m].diff = NOT_GOOD
  BY NoZone, NoCandidate DEF StartMigration, Ready, Goto, PcType
<1>1. CoreType'
  <2>1. PcType'
    BY DEF PcType, WriterPc, MigratorPc, StartMigration, Goto
  <2> QED BY <2>1 DEF ZoneType, ScanType, ZnType, PutsType, LostType, StartMigration
<1>2. LocalStep(m)
  BY DEF LocalStep, PcType, ScanType, ZnType, PutsType, StartMigration, Goto
<1>3. PlaceOK(m)'
  BY <1>a DEF PlaceOK, MigratorPc
<1>4. OwnStep(m)
  BY <1>a, SameOwners
<1>5. HoldsOpen(m)' <=> HoldsOpen(m)
  BY <1>1, <1>a, Holding, Debts
<1>6. Quiet(m)
  BY <1>2, <1>5, <1>a DEF Quiet, StartMigration
<1> QED BY <1>1, <1>2, <1>3, <1>4, <1>6, StepKeeps

\* TakeMigrateZone keeps the invariant.
LEMMA TakeMigrateZoneKeeps ==
  ASSUME IInv, NEW m \in Migrators, TakeMigrateZone(m)
  PROVE  IInv' /\ Quiet(m)
<1> USE Consts DEF IInv, CoreType
<1>a. /\ pc[m] = "take" /\ pc'[m] = "match"
      /\ zone' = zone /\ zn' = zn /\ zn[m] = 0 /\ puts' = puts /\ puts[m] = <<>>
      /\ scan' = scan /\ scan[m].cand = 0 /\ scan[m].diff = NOT_GOOD
  BY NoZone, NoCandidate, NoDebt DEF TakeMigrateZone, Goto, PcType
<1>1. CoreType'
  <2>1. PcType'
    BY DEF PcType, WriterPc, MigratorPc, TakeMigrateZone, Goto
  <2> QED BY <2>1 DEF ZoneType, ScanType, ZnType, PutsType, LostType, TakeMigrateZone
<1>2. LocalStep(m)
  BY DEF LocalStep, PcType, ScanType, ZnType, PutsType, TakeMigrateZone, Goto
<1>3. PlaceOK(m)'
  BY <1>a DEF PlaceOK, MigratorPc
<1>4. OwnStep(m)
  BY <1>a, SameOwners
<1>5. HoldsOpen(m)' <=> HoldsOpen(m)
  BY <1>1, <1>a, Holding, Debts
<1>6. Quiet(m)
  BY <1>2, <1>5, <1>a DEF Quiet, TakeMigrateZone
<1> QED BY <1>1, <1>2, <1>3, <1>4, <1>6, StepKeeps

\* MigrateZoneTaken keeps the invariant.
LEMMA MigrateZoneTakenKeeps ==
  ASSUME IInv, NEW m \in Migrators, MigrateZoneTaken(m)
  PROVE  IInv' /\ Quiet(m)
<1> USE Consts DEF IInv, CoreType
<1>a. /\ pc[m] = "match" /\ zn[m] = 0 /\ zn'[m] = scan[m].cand
      /\ pc'[m] = IF scan[m].cand = 0 THEN "release" ELSE "copy"
      /\ zone' = zone /\ puts' = puts /\ puts[m] = <<>>
      /\ ScanType' /\ scan'[m].cand = 0 /\ scan'[m].diff = NOT_GOOD
  BY NoZone, Rewound DEF MigrateZoneTaken, End, Ready, Goto, PcType, ZnType
<1>1. CoreType'
  <2>1. PcType'
    BY DEF PcType, WriterPc, MigratorPc, MigrateZoneTaken, Goto
  <2>2. ScanType'
    BY <1>a
  <2>3. ZnType'
    BY DEF ZnType, ScanType, MigrateZoneTaken
  <2> QED BY <2>1, <2>2, <2>3 DEF ZoneType, PutsType, LostType, MigrateZoneTaken
<1>2. LocalStep(m)
  BY DEF LocalStep, PcType, ScanType, ZnType, PutsType, MigrateZoneTaken, Goto, Rewind
<1>3. PlaceOK(m)'
  BY <1>a DEF PlaceOK, MigratorPc, ScanType
<1>4. OwnStep(m)
  <2>1. CASE scan[m].cand = 0
    BY <1>a, <2>1 DEF OwnStep
  <2>2. CASE scan[m].cand # 0
    <3>1. zone[scan[m].cand].busy = m
      BY <2>2, Mine
    <3> QED BY <1>a, <3>1 DEF OwnStep
  <2> QED BY <2>1, <2>2
<1>5. HoldsOpen(m)' <=> HoldsOpen(m)
  BY <1>1, <1>a, Holding, Debts
<1>6. Quiet(m)
  BY <1>2, <1>5, <1>a DEF Quiet, MigrateZoneTaken
<1> QED BY <1>1, <1>2, <1>3, <1>4, <1>6, StepKeeps

\* MigrateData keeps the invariant.
LEMMA MigrateDataKeeps ==
  ASSUME IInv, NEW m \in Migrators, MigrateData(m)
  PROVE  IInv' /\ Quiet(m)
<1> USE Consts DEF IInv, CoreType
<1>a. /\ pc[m] = "copy" /\ pc'[m] = "release" /\ zn' = zn /\ zn[m] \in Zones
      /\ puts' = puts /\ puts[m] = <<>>
      /\ scan' = scan /\ scan[m].cand = 0 /\ scan[m].diff = NOT_GOOD
  BY NoCandidate, NoDebt, CopyHasZone DEF MigrateData, Goto, PcType
<1>b. /\ DOMAIN zone' = Zones
      /\ \A y \in Zones : "busy" \in DOMAIN zone'[y] /\ zone'[y].busy = zone[y].busy
  <2> DEFINE z == zn[m]
             copied == Append1(zone[z], job[m].len)
  <2>1. z \in Zones
    BY <1>a
  <2>2. ASSUME NEW r, r = copied \/ r = Use(copied, job[m].len),
               zone' = [zone EXCEPT ![z] = r]
        PROVE  <1>b!:
    <3>0. "busy" \in DOMAIN copied /\ copied.busy = zone[z].busy
      BY <2>1, AppendBusy DEF ZoneType
    <3>1. /\ "busy" \in DOMAIN Use(copied, job[m].len)
          /\ Use(copied, job[m].len).busy = copied.busy
      BY <3>0, UseBusy
    <3>2. "busy" \in DOMAIN r /\ r.busy = zone[z].busy
      BY <3>0, <3>1, <2>2
    <3> HIDE DEF copied
    <3> QED BY <2>1, <2>2, <3>2, Update
  <2>3. \/ zone' = [zone EXCEPT ![z] = copied]
        \/ zone' = [zone EXCEPT ![z] = Use(copied, job[m].len)]
    BY DEF MigrateData
  <2> QED BY <2>2, <2>3
<1>1. CoreType'
  <2>1. PcType'
    BY DEF PcType, WriterPc, MigratorPc, MigrateData, Goto
  <2>2. ZoneType'
    BY <1>b DEF ZoneType
  <2>3. LostType'
    BY DEF LostType, MigrateData
  <2> QED BY <2>1, <2>2, <2>3 DEF ScanType, ZnType, PutsType, MigrateData
<1>2. LocalStep(m)
  BY DEF LocalStep, PcType, ScanType, ZnType, PutsType, MigrateData, Goto
<1>3. PlaceOK(m)'
  BY <1>a DEF PlaceOK, MigratorPc
<1>4. OwnStep(m)
  BY <1>a, <1>b, SameOwners
<1>5. HoldsOpen(m)' <=> HoldsOpen(m)
  BY <1>1, <1>a, Holding, Debts
<1>6. Quiet(m)
  BY <1>2, <1>5, <1>a DEF Quiet, LostType, MigrateData
<1> QED BY <1>1, <1>2, <1>3, <1>4, <1>6, StepKeeps

\* ReleaseMigrateZone keeps the invariant.
LEMMA ReleaseMigrateZoneKeeps ==
  ASSUME IInv, NEW m \in Migrators, ReleaseMigrateZone(m)
  PROVE  IInv' /\ Quiet(m)
<1> USE Consts DEF IInv, CoreType
<1>a. /\ pc[m] = "release" /\ pc'[m] = "sync" /\ zn'[m] = 0 /\ zn[m] \in 0..NrZones
      /\ puts' = puts /\ puts[m] = <<>>
      /\ scan' = scan /\ scan[m].cand = 0 /\ scan[m].diff = NOT_GOOD
  BY NoCandidate, NoDebt DEF ReleaseMigrateZone, Goto, PcType, ZnType
<1>b. /\ DOMAIN zone' = Zones
      /\ \A y \in Zones : /\ "busy" \in DOMAIN zone'[y]
                          /\ zone'[y].busy = IF y = zn[m] THEN None ELSE zone[y].busy
  <2>1. CASE zn[m] = 0
    BY <2>1 DEF ReleaseMigrateZone, ZoneType, Zones
  <2>2. CASE zn[m] # 0
    <3>1. zn[m] \in Zones BY <2>2, <1>a, SMTT(20) DEF Zones
    <3>2. zone' = [zone EXCEPT ![zn[m]] = Release(zone[zn[m]])]
      BY <2>2 DEF ReleaseMigrateZone
    <3>3. "busy" \in DOMAIN Release(zone[zn[m]]) /\ Release(zone[zn[m]]).busy = None
      BY <3>1, ReleaseBusy DEF ZoneType
    <3> QED BY <3>1, <3>2, <3>3, Update
  <2> QED BY <2>1, <2>2
<1>1. CoreType'
  <2>1. PcType'
    BY DEF PcType, WriterPc, MigratorPc, ReleaseMigrateZone, Goto
  <2>2. ZoneType'
    BY <1>b DEF ZoneType
  <2>3. ZnType'
    BY SMTT(20) DEF ZnType, ReleaseMigrateZone
  <2> QED BY <2>1, <2>2, <2>3 DEF ScanType, PutsType, LostType, ReleaseMigrateZone
<1>2. LocalStep(m)
  BY DEF LocalStep, PcType, ScanType, ZnType, PutsType, ReleaseMigrateZone, Goto
<1>3. PlaceOK(m)'
  BY <1>a DEF PlaceOK, MigratorPc
<1>4. OwnStep(m)
  BY <1>a, <1>b, Mine, SMTT(20) DEF OwnStep, Zones
<1>5. HoldsOpen(m)' <=> HoldsOpen(m)
  BY <1>1, <1>a, Holding, Debts
<1>6. Quiet(m)
  BY <1>2, <1>5, <1>a DEF Quiet, ReleaseMigrateZone
<1> QED BY <1>1, <1>2, <1>3, <1>4, <1>6, StepKeeps

\* SyncFileExtents keeps the invariant.
LEMMA SyncFileExtentsKeeps ==
  ASSUME IInv, NEW m \in Migrators, SyncFileExtents(m)
  PROVE  IInv' /\ Quiet(m)
<1> USE Consts DEF IInv, CoreType
<1>a. /\ pc[m] = "sync" /\ pc'[m] = "reset" /\ zn' = zn /\ zn[m] = 0
      /\ puts' = puts /\ puts[m] = <<>>
      /\ scan' = scan /\ scan[m].cand = 0 /\ scan[m].diff = NOT_GOOD
  BY NoZone, NoCandidate, NoDebt DEF SyncFileExtents, Goto, PcType
<1>b. /\ DOMAIN zone' = Zones
      /\ \A y \in Zones : "busy" \in DOMAIN zone'[y] /\ zone'[y].busy = zone[y].busy
  <2>1. /\ DOMAIN zone' = Zones
        /\ \A y \in Zones : \E n : zone'[y] = Use(zone[y], n)
    BY DEF SyncFileExtents
  <2>2. ASSUME NEW y \in Zones PROVE "busy" \in DOMAIN zone'[y] /\ zone'[y].busy = zone[y].busy
    <3>1. PICK n : zone'[y] = Use(zone[y], n) BY <2>1
    <3>2. "busy" \in DOMAIN zone[y] BY DEF ZoneType
    <3> QED BY <3>1, <3>2, UseBusy
  <2> QED BY <2>1, <2>2
<1>1. CoreType'
  <2>1. PcType'
    BY DEF PcType, WriterPc, MigratorPc, SyncFileExtents, Goto
  <2>2. ZoneType'
    BY <1>b DEF ZoneType
  <2> QED BY <2>1, <2>2 DEF ScanType, ZnType, PutsType, LostType, SyncFileExtents
<1>2. LocalStep(m)
  BY DEF LocalStep, PcType, ScanType, ZnType, PutsType, SyncFileExtents, Goto
<1>3. PlaceOK(m)'
  BY <1>a DEF PlaceOK, MigratorPc
<1>4. OwnStep(m)
  BY <1>a, <1>b, SameOwners
<1>5. HoldsOpen(m)' <=> HoldsOpen(m)
  BY <1>1, <1>a, Holding, Debts
<1>6. Quiet(m)
  BY <1>2, <1>5, <1>a DEF Quiet, SyncFileExtents
<1> QED BY <1>1, <1>2, <1>3, <1>4, <1>6, StepKeeps

(***************************************************************************)
(* The data of the zones.  A second invariant, on top of the first: the    *)
(* fields of a zone add up, what is used of it was written, a candidate is *)
(* partly written and has the room that was asked for, and the file of a   *)
(* migration keeps the extent that is being moved.                         *)
(***************************************************************************)
ZoneRecs == [busy : Threads \union {None}, wp : Nat, capacity : Nat, used : Int,
             lifetime : 0..5]
Jobs     == [file : Threads \union {None}, owner : Writers \union {None},
             src : 0..NrZones, tgt : 0..NrZones, len : Nat]

ZoneData == zone \in [Zones -> ZoneRecs]
DataType == /\ ZoneData
            /\ left \in [Writers -> Nat] /\ pend \in [Writers -> Nat]
            /\ ext \in [Threads -> [Zones -> Nat]]
            /\ job \in [Migrators -> Jobs]
            /\ active_io_zones_ \in Int /\ lost.active \in Nat

Partly(z) == ~IsEmpty(z) /\ ~IsFull(z)

Sound(z)  == /\ zone[z].wp + zone[z].capacity = Capacity
             /\ zone[z].used <= zone[z].wp
Backed(w) == /\ zn[w] # 0 => zone[zn[w]].used + pend[w] <= zone[zn[w]].wp
             /\ zn[w] = 0 \/ w \in Buffered => pend[w] = 0
Ripe(t, z) == Partly(z) /\ (t \in Migrators => job[t].len <= zone[z].capacity)
Fit(t)    == /\ scan[t].cand # 0 => Ripe(t, scan[t].cand)
             /\ t \in Migrators /\ pc[t] = "copy" => Ripe(t, zn[t])
JobOK(m)  ==
  LET f == job[m].file
  IN /\ f \in Writers \union {m, None}
     /\ f = None <=> pc[m] \in {"none", "reset"}
     /\ job[m].tgt # 0 => pc[m] \in {"release", "sync"}
     /\ f # None => job[m].src \in Zones /\ job[m].len <= ext[f][job[m].src]
     /\ f \in Writers => pc[f] = "closed"
     /\ f # m => ext[m] = NoExtents
OneJob    == \A m, o \in Migrators :
               job[m].file \in Writers /\ job[m].file = job[o].file => m = o
JobsOK    == OneJob /\ \A m \in Migrators : JobOK(m)

DInv == /\ DataType
        /\ \A z \in Zones : Sound(z)
        /\ \A w \in Writers : Backed(w)
        /\ \A t \in Threads : Fit(t)
        /\ JobsOK

\* What a step may do to a zone that another thread has: count fewer blocks
\* of it as used.
Calm(z) == /\ zone'[z].wp = zone[z].wp /\ zone'[z].capacity = zone[z].capacity
           /\ zone'[z].used <= zone[z].used

Touches(t) ==
  /\ DataType'
  /\ \A z \in Zones : Calm(z) \/ (zone[z].busy \in {None, t} /\ Sound(z)')
  /\ \A w \in Writers \ {t} : pend'[w] = pend[w]
  /\ \A m \in Migrators \ {t} : job'[m].len = job[m].len
  /\ t \in Writers => Backed(t)'
  /\ Fit(t)'

\* A step of one thread keeps the data in order if it keeps that thread's.
LEMMA DataKept ==
  ASSUME IInv, IInv', DInv, NEW t \in Threads, LocalStep(t), Touches(t), JobsOK'
  PROVE  DInv'
<1> USE Consts DEF DInv, Touches
<1>1. ASSUME NEW z \in Zones PROVE Sound(z)'
  BY <1>1, SMTT(20) DEF Sound, Calm, DataType, ZoneData, ZoneRecs
<1>2. ASSUME NEW u \in Threads \ {t}, NEW z \in Zones, z \in {zn[u], scan[u].cand}
      PROVE  Calm(z)
  <2>1. z # 0 /\ u \in Threads
    OBVIOUS
  <2>2. /\ zn[u] # 0 => zone[zn[u]].busy = u
        /\ scan[u].cand # 0 => zone[scan[u].cand].busy = u
    BY <2>1, Mine
  <2>3. zone[z].busy = u
    <3>1. CASE z = zn[u] BY <3>1, <2>1, <2>2
    <3>2. CASE z = scan[u].cand BY <3>2, <2>1, <2>2
    <3> QED BY <1>2, <3>1, <3>2
  <2>4. u \notin {None, t}
    OBVIOUS
  <2> QED BY <2>3, <2>4
<1>3. ASSUME NEW w \in Writers \ {t} PROVE Backed(w)'
  <2>1. zn'[w] = zn[w] /\ pend'[w] = pend[w] /\ w \in Threads \ {t} /\ Backed(w)
    BY DEF LocalStep
  <2>2. CASE zn[w] = 0
    BY <2>1, <2>2 DEF Backed
  <2>3. CASE zn[w] # 0
    <3>1. zn[w] \in Zones /\ Calm(zn[w])
      BY <2>1, <2>3, <1>2, Mine
    <3> QED BY <2>1, <2>3, <3>1, SMTT(20) DEF Backed, Calm, DataType, ZoneData, ZoneRecs
  <2> QED BY <2>2, <2>3
<1>4. ASSUME NEW u \in Threads \ {t}, NEW z \in Zones, z \in {zn[u], scan[u].cand}, Ripe(u, z)
      PROVE  Ripe(u, z)'
  BY <1>2, <1>4 DEF Ripe, Calm, Partly, IsEmpty, IsFull
<1>5. ASSUME NEW u \in Threads \ {t} PROVE Fit(u)'
  <2>1. /\ zn'[u] = zn[u] /\ scan'[u] = scan[u] /\ Fit(u)
        /\ u \in Migrators /\ pc'[u] = "copy" => pc[u] = "copy"
    BY DEF LocalStep
  <2>2. scan[u].cand # 0 => scan[u].cand \in Zones
    BY Mine
  <2>3. u \in Migrators /\ pc[u] = "copy" => zn[u] \in Zones
    BY CopyHasZone
  <2> QED BY <2>1, <2>2, <2>3, <1>4 DEF Fit
<1> QED BY <1>1, <1>3, <1>5

\* A step that moves no extent of a closed file keeps the migrations in order.
LEMMA JobsKept ==
  ASSUME IInv, JobsOK, NEW t \in Threads, LocalStep(t), job' = job,
         \A u \in Threads : ext'[u] = ext[u] \/ (u = t /\ t \in Writers /\ pc[t] # "closed"),
         t \in Writers /\ pc[t] = "closed" => pc'[t] = "closed",
         t \in Migrators => /\ pc'[t] \in {"none", "reset"} <=> pc[t] \in {"none", "reset"}
                            /\ job[t].tgt # 0 => pc'[t] \in {"release", "sync"}
  PROVE  JobsOK'
<1> USE Consts DEF JobsOK
<1>1. OneJob'
  BY DEF OneJob
<1>2. ASSUME NEW f \in Writers, pc[f] = "closed" PROVE pc'[f] = "closed" /\ ext'[f] = ext[f]
  BY <1>2 DEF LocalStep
<1>3. ASSUME NEW m \in Migrators PROVE JobOK(m)'
  <2>1. JobOK(m) /\ job'[m] = job[m] /\ ext'[m] = ext[m]
    OBVIOUS
  <2>2. m # t => pc'[m] = pc[m]
    BY DEF LocalStep
  <2>3. /\ pc'[m] \in {"none", "reset"} <=> pc[m] \in {"none", "reset"}
        /\ job[m].tgt # 0 => pc'[m] \in {"release", "sync"}
    <3>1. job[m].tgt # 0 => pc[m] \in {"release", "sync"} BY <2>1 DEF JobOK
    <3>2. CASE m = t BY <3>2
    <3>3. CASE m # t BY <2>2, <3>1, <3>3
    <3> QED BY <3>2, <3>3
  <2>4. job[m].file # None => ext'[job[m].file] = ext[job[m].file]
    <3>1. /\ job[m].file \in Writers \union {m, None}
          /\ job[m].file \in Writers => pc[job[m].file] = "closed"
      BY <2>1 DEF JobOK
    <3>2. CASE job[m].file \in Writers BY <3>1, <3>2, <1>2
    <3>3. CASE job[m].file = m BY <2>1, <3>3
    <3> QED BY <3>1, <3>2, <3>3
  <2> QED BY <2>1, <2>3, <2>4, <1>2 DEF JobOK
<1> QED BY <1>1, <1>3

(***************************************************************************)
(* Active tokens.                                                          *)
(***************************************************************************)
ActiveLists == {<<"active">>, <<"open", "active">>, <<"active", "open">>}
Bit(b) == IF b THEN 1 ELSE 0

\* What a step of t does to the active tokens: at most one zone becomes partly
\* written or stops being so, only t gains or loses a token, and the counter
\* moves along.
Takes == active_io_zones_ < MaxActive /\ active_io_zones_' = active_io_zones_ + 1

ActiveStep(t) ==
  /\ \A u \in Threads \ {t} : HoldsActive(u)' <=> HoldsActive(u)
  /\ active_io_zones_' <= active_io_zones_ \/ Takes
  /\ \E y \in Zones :
       /\ \A z \in Zones \ {y} : Partly(z)' <=> Partly(z)
       /\ active_io_zones_' - lost'.active - Bit(Partly(y)') - Bit(HoldsActive(t)')
          = active_io_zones_ - lost.active - Bit(Partly(y)) - Bit(HoldsActive(t))

\* A thread owes an active token if its list has one.
LEMMA OwingActive ==
  ASSUME NEW p \in TokenLists
  PROVE  (\E i \in 1..Len(p) : p[i] = "active") <=> p \in ActiveLists
<1>1. CASE p = <<>>
  BY <1>1, SMTT(20) DEF ActiveLists
<1>2. CASE p = <<"open">>
  BY <1>2, SMTT(20) DEF ActiveLists
<1>3. CASE p = <<"active">>
  BY <1>3, SMTT(20) DEF ActiveLists
<1>4. CASE p = <<"open", "active">>
  BY <1>4, SMTT(20) DEF ActiveLists
<1>5. CASE p = <<"active", "open">>
  BY <1>5, SMTT(20) DEF ActiveLists
<1> QED BY <1>1, <1>2, <1>3, <1>4, <1>5 DEF TokenLists

\* Which lists have one.
LEMMA ActiveDebts ==
  /\ {<<>>, <<"open">>} \intersect ActiveLists = {}
  /\ {<<"active">>, <<"open", "active">>, <<"active", "open">>} \subseteq ActiveLists
BY SMTT(20) DEF ActiveLists

\* HoldsActive, in terms of the lists.
LEMMA HoldingActive ==
  ASSUME PutsType, PutsType', NEW t \in Threads
  PROVE  /\ HoldsActive(t) <=>
              \/ pc[t] = "empty"
              \/ t \in Writers /\ zn[t] # 0 /\ ~Partly(zn[t])
              \/ puts[t] \in ActiveLists
         /\ HoldsActive(t)' <=>
              \/ pc'[t] = "empty"
              \/ t \in Writers /\ zn'[t] # 0 /\ ~Partly(zn[t])'
              \/ puts'[t] \in ActiveLists
BY OwingActive DEF HoldsActive, Owes, PutsType, Partly, IsEmpty, IsFull

\* A step of one thread takes and gives no other thread's active token.
LEMMA OthersHoldActive ==
  ASSUME IInv, IInv', NEW t \in Threads, LocalStep(t), Touches(t), NEW u \in Threads \ {t}
  PROVE  HoldsActive(u)' <=> HoldsActive(u)
<1>1. zn'[u] = zn[u] /\ puts'[u] = puts[u] /\ (pc'[u] = "empty" <=> pc[u] = "empty")
  BY DEF LocalStep
<1>2. zn[u] # 0 => Calm(zn[u])
  <2>1. zn[u] # 0 => zn[u] \in Zones /\ zone[zn[u]].busy = u
    BY Mine
  <2>2. u \notin {None, t}
    BY Consts
  <2> QED BY <2>1, <2>2 DEF Touches
<1>3. zn[u] # 0 => (Partly(zn[u])' <=> Partly(zn[u]))
  BY <1>1, <1>2 DEF Calm, Partly, IsEmpty, IsFull
<1> QED BY <1>1, <1>3, HoldingActive DEF IInv, CoreType
(***************************************************************************)
(* What the operations on a zone do to its data.                           *)
(***************************************************************************)
LEMMA BusyRec ==
  ASSUME NEW r \in ZoneRecs, NEW t \in Threads, NEW l \in 0..5,
         NEW s \in {Acquire(r, t), Release(r), Hint(r, l)}
  PROVE  s \in ZoneRecs /\ s.wp = r.wp /\ s.capacity = r.capacity /\ s.used = r.used
<1>1. CASE s = Acquire(r, t)
  BY <1>1, SMTT(20) DEF ZoneRecs, Acquire
<1>2. CASE s = Release(r)
  BY <1>2, SMTT(20) DEF ZoneRecs, Release
<1>3. CASE s = Hint(r, l)
  BY <1>3, SMTT(20) DEF ZoneRecs, Hint
<1> QED BY <1>1, <1>2, <1>3

\* used_capacity_ alone changes.
LEMMA UseRec ==
  ASSUME NEW r \in ZoneRecs, NEW n \in Int
  PROVE  /\ Use(r, n) \in ZoneRecs /\ Use(r, n).used = r.used + n
         /\ Use(r, n).wp = r.wp /\ Use(r, n).capacity = r.capacity
BY SMTT(20) DEF ZoneRecs, Use

\* A finished zone is full.
LEMMA FinishRec ==
  ASSUME NEW r \in ZoneRecs
  PROVE  /\ Finish(r) \in ZoneRecs /\ Finish(r).used = r.used
         /\ Finish(r).wp = Capacity /\ Finish(r).capacity = 0
<1> DEFINE a == [r EXCEPT !.capacity = 0]
           b == [a EXCEPT !.wp = Capacity]
<1>1. Capacity \in Nat BY AllocatorAssumption
<1>2. Finish(r) = b BY DEF Finish
<1>3. a \in ZoneRecs /\ a.used = r.used /\ a.capacity = 0 BY SMTT(20) DEF ZoneRecs
<1> HIDE DEF a
<1>4. b \in ZoneRecs /\ b.used = a.used /\ b.capacity = a.capacity /\ b.wp = Capacity
  BY <1>1, <1>3, SMTT(20) DEF ZoneRecs
<1> HIDE DEF b
<1> QED BY <1>2, <1>3, <1>4

\* A zone that was reset is empty.
LEMMA ResetRec ==
  ASSUME NEW r \in ZoneRecs
  PROVE  /\ Reset(r) \in ZoneRecs /\ Reset(r).used = r.used
         /\ Reset(r).wp = 0 /\ Reset(r).capacity = Capacity
<1> DEFINE a == [r EXCEPT !.capacity = Capacity]
           b == [a EXCEPT !.wp = 0]
           c == [b EXCEPT !.lifetime = NOT_SET]
<1>1. Capacity \in Nat BY AllocatorAssumption
<1>2. Reset(r) = c BY DEF Reset
<1>3. a \in ZoneRecs /\ a.used = r.used /\ a.capacity = Capacity
  BY <1>1, SMTT(20) DEF ZoneRecs
<1> HIDE DEF a
<1>4. b \in ZoneRecs /\ b.used = a.used /\ b.capacity = a.capacity /\ b.wp = 0
  BY <1>3, SMTT(20) DEF ZoneRecs
<1> HIDE DEF b
<1>5. c \in ZoneRecs /\ c.used = b.used /\ c.capacity = b.capacity /\ c.wp = b.wp
  BY <1>4, SMTT(20) DEF ZoneRecs, NOT_SET
<1> HIDE DEF c
<1> QED BY <1>2, <1>3, <1>4, <1>5

\* Append moves the write pointer into the room that is left.
LEMMA AppendRec ==
  ASSUME NEW r \in ZoneRecs, NEW n \in Nat, n <= r.capacity
  PROVE  /\ Append1(r, n) \in ZoneRecs /\ Append1(r, n).used = r.used
         /\ Append1(r, n).wp = r.wp + n /\ Append1(r, n).capacity = r.capacity - n
<1> DEFINE a == [r EXCEPT !.wp = r.wp + n]
           b == [a EXCEPT !.capacity = r.capacity - n]
<1>1. r.wp + n \in Nat /\ r.capacity - n \in Nat BY SMTT(20) DEF ZoneRecs
<1>2. Append1(r, n) = b BY DEF Append1
<1>3. a \in ZoneRecs /\ a.used = r.used /\ a.wp = r.wp + n
  BY <1>1, SMTT(20) DEF ZoneRecs
<1> HIDE DEF a
<1>4. /\ b \in ZoneRecs /\ b.used = a.used /\ b.capacity = r.capacity - n
      /\ b.wp = a.wp
  BY <1>1, <1>3, SMTT(20) DEF ZoneRecs
<1> HIDE DEF b
<1> QED BY <1>2, <1>3, <1>4

\* The zone at z becomes r.
LEMMA UpdateRec ==
  ASSUME ZoneData, NEW z \in Zones, NEW r \in ZoneRecs, zone' = [zone EXCEPT ![z] = r]
  PROVE  ZoneData' /\ zone'[z] = r /\ \A y \in Zones \ {z} : zone'[y] = zone[y]
BY DEF ZoneData

(***************************************************************************)
(* What a step books: the blocks by which the file objects grow or shrink, *)
(* copies included, are the ones that used_capacity_ changes by.           *)
(***************************************************************************)
CopiedBy(t, z) == IF t \in Migrators /\ job[t].tgt = z THEN job[t].len ELSE 0

\* Only the extents of u and the copy of m change.
Books(u, m) ==
  /\ \A x \in Threads \ {u} : ext'[x] = ext[x]
  /\ \A z \in Zones :
       /\ \A x \in Threads \ {m} : CopiedBy(x, z)' = CopiedBy(x, z)
       /\ zone'[z].used - ext'[u][z] - CopiedBy(m, z)'
          = zone[z].used - ext[u][z] - CopiedBy(m, z)

\* The extents of w become m's.
Disowns(w, m) ==
  /\ w # m /\ ext[m] = NoExtents /\ ext'[m] = ext[w] /\ ext'[w] = NoExtents
  /\ \A x \in Threads \ {w, m} : ext'[x] = ext[x]
  /\ \A z \in Zones : /\ zone'[z].used = zone[z].used
                      /\ \A x \in Threads : CopiedBy(x, z)' = CopiedBy(x, z)

Ledger == \E u, m \in Threads : Books(u, m) \/ Disowns(u, m)

\* A step that moves no extent and uses no block books nothing.
LEMMA SameBooks ==
  ASSUME NEW t \in Threads, ext' = ext, job' = job,
         \A z \in Zones : zone'[z].used = zone[z].used
  PROVE  Ledger
<1>1. \A x \in Threads, z \in Zones : CopiedBy(x, z)' = CopiedBy(x, z)
  BY DEF CopiedBy
<1>2. Books(t, t) BY <1>1 DEF Books
<1> QED BY <1>2 DEF Ledger

\* Copies are counted in blocks.
LEMMA CopiedNat ==
  ASSUME job \in [Migrators -> Jobs], NEW t \in Threads, NEW z \in Zones
  PROVE  CopiedBy(t, z) \in Nat
<1>1. t \in Migrators => job[t].len \in Nat BY SMTT(20) DEF Jobs
<1> QED BY <1>1, SMTT(20) DEF CopiedBy

\* A step that leaves the data alone and moves at most one active token.
Still(z) == /\ zone'[z].wp = zone[z].wp /\ zone'[z].capacity = zone[z].capacity
            /\ zone'[z].used = zone[z].used

TokenStep(t) ==
  \/ (HoldsActive(t)' <=> HoldsActive(t)) /\ active_io_zones_' = active_io_zones_
  \/ ~HoldsActive(t) /\ HoldsActive(t)' /\ Takes
  \/ /\ HoldsActive(t) /\ ~HoldsActive(t)'
     /\ active_io_zones_' = active_io_zones_ - 1

\* Such a step keeps the data in order, whatever token it moves.
LEMMA StillStep ==
  ASSUME IInv, IInv', DInv, NEW t \in Threads, LocalStep(t), ZoneData',
         \A z \in Zones : Still(z),
         pend' = pend, ext' = ext, job' = job, lost' = lost, left' \in [Writers -> Nat],
         Fit(t)', TokenStep(t),
         t \in Writers => /\ zn[t] \in {0, zn'[t]}
                          /\ pc[t] = "closed" => pc'[t] = "closed",
         t \in Migrators => /\ pc'[t] \in {"none", "reset"} <=> pc[t] \in {"none", "reset"}
                            /\ job[t].tgt # 0 => pc'[t] \in {"release", "sync"}
  PROVE  DInv' /\ ActiveStep(t) /\ Ledger
<1> USE Consts
<1>0. DataType /\ JobsOK /\ Touches(t)
  <2>1. DataType /\ JobsOK BY DEF DInv
  <2>2. active_io_zones_' \in Int
    BY <2>1, SMTT(20) DEF TokenStep, Takes, DataType
  <2>3. DataType'
    BY <2>1, <2>2 DEF DataType
  <2>4. \A z \in Zones : Calm(z)
    BY <2>1, SMTT(20) DEF Calm, Still, DataType, ZoneData, ZoneRecs
  <2>5. t \in Writers => Backed(t)'
    <3> SUFFICES ASSUME t \in Writers PROVE Backed(t)'
      OBVIOUS
    <3>1. Backed(t) BY DEF DInv
    <3>2. CASE zn'[t] = 0
      <4>1. zn[t] = 0 BY <3>2
      <4> QED BY <3>1, <3>2, <4>1 DEF Backed
    <3>3. CASE zn'[t] # 0
      <4>1. zn'[t] \in Zones BY <3>3, Mine, SMTT(20) DEF IInv, CoreType, ZnType, Zones
      <4>2. /\ zone[zn'[t]].used <= zone[zn'[t]].wp
            /\ {zone[zn'[t]].used, zone[zn'[t]].wp} \subseteq Int
        BY <2>1, <4>1, SMTT(20) DEF DInv, Sound, DataType, ZoneData, ZoneRecs
      <4>3. zone'[zn'[t]].used = zone[zn'[t]].used /\ zone'[zn'[t]].wp = zone[zn'[t]].wp
        BY <4>1 DEF Still
      <4>4. CASE zn[t] = 0
        <5>1. pend[t] = 0 BY <3>1, <4>4 DEF Backed
        <5>2. zone[zn'[t]].used + pend[t] <= zone[zn'[t]].wp BY <4>2, <5>1, SMTT(20)
        <5> QED BY <3>3, <4>3, <5>1, <5>2 DEF Backed
      <4>5. CASE zn[t] = zn'[t]
        BY <3>1, <3>3, <4>3, <4>5 DEF Backed
      <4> QED BY <4>4, <4>5
    <3> QED BY <3>2, <3>3
  <2> QED BY <2>1, <2>3, <2>4, <2>5 DEF Touches
<1>1. JobsOK'
  BY <1>0, JobsKept
<1>2. DInv'
  BY <1>0, <1>1, DataKept
<1>3. \A z \in Zones : Partly(z)' <=> Partly(z)
  BY DEF Still, Partly, IsEmpty, IsFull
<1>4. ActiveStep(t)
  <2>1. \A u \in Threads \ {t} : HoldsActive(u)' <=> HoldsActive(u)
    BY <1>0, OthersHoldActive
  <2>2. 1 \in Zones BY SMTT(20) DEF Zones
  <2>3. active_io_zones_ \in Int /\ lost.active \in Nat BY <1>0 DEF DataType
  <2>4. active_io_zones_' <= active_io_zones_ \/ Takes
    BY <2>3, SMTT(20) DEF TokenStep
  <2>5. active_io_zones_' - lost'.active - Bit(Partly(1)') - Bit(HoldsActive(t)')
          = active_io_zones_ - lost.active - Bit(Partly(1)) - Bit(HoldsActive(t))
    <3>1. Bit(Partly(1)') = Bit(Partly(1)) /\ Bit(Partly(1)) \in Int
      BY <1>3, <2>2, SMTT(20) DEF Bit
    <3>2. active_io_zones_' - Bit(HoldsActive(t)') = active_io_zones_ - Bit(HoldsActive(t))
      BY <2>3, SMTT(20) DEF TokenStep, Takes, Bit
    <3>3. active_io_zones_' \in Int /\ Bit(HoldsActive(t)) \in Int /\ Bit(HoldsActive(t)') \in Int
      BY <2>3, SMTT(20) DEF TokenStep, Takes, Bit
    <3> HIDE DEF Bit
    <3> QED BY <2>3, <3>1, <3>2, <3>3, SMTT(20)
  <2> QED BY <1>3, <2>1, <2>2, <2>4, <2>5 DEF ActiveStep
<1>5. Ledger
  BY SameBooks DEF Still
<1> QED BY <1>2, <1>4, <1>5

\* A step that changes at most one zone, of its own or free, and hands an
\* active token on between that zone and its thread, or loses it.
HandsOver(t, z) ==
  /\ active_io_zones_' = active_io_zones_
  /\ \/ /\ lost'.active = lost.active
        /\ \/ (Partly(z) <=> ~HoldsActive(t)) /\ (Partly(z)' <=> ~HoldsActive(t)')
           \/ (Partly(z)' <=> Partly(z)) /\ (HoldsActive(t)' <=> HoldsActive(t))
     \/ /\ lost'.active = lost.active + 1
        /\ \/ HoldsActive(t) /\ ~HoldsActive(t)' /\ (Partly(z)' <=> Partly(z))
           \/ Partly(z) /\ ~Partly(z)' /\ (HoldsActive(t)' <=> HoldsActive(t))

\* Such a step keeps the data in order, and the active tokens add up.
LEMMA TouchStep ==
  ASSUME IInv, IInv', DInv, NEW t \in Threads, LocalStep(t), DataType', JobsOK',
         NEW z \in Zones, \A y \in Zones \ {z} : Calm(y),
         Calm(z) \/ (zone[z].busy \in {None, t} /\ Sound(z)'),
         \A w \in Writers \ {t} : pend'[w] = pend[w],
         \A m \in Migrators \ {t} : job'[m].len = job[m].len,
         t \in Writers => Backed(t)', Fit(t)', HandsOver(t, z)
  PROVE  DInv' /\ ActiveStep(t)
<1> USE Consts
<1>0. DataType BY DEF DInv
<1>1. Touches(t)
  BY DEF Touches
<1>2. DInv'
  BY <1>1, DataKept
<1>3. \A y \in Zones \ {z} : Partly(y)' <=> Partly(y)
  BY DEF Calm, Partly, IsEmpty, IsFull
<1>4. \A u \in Threads \ {t} : HoldsActive(u)' <=> HoldsActive(u)
  BY <1>1, OthersHoldActive
<1>5. active_io_zones_ \in Int /\ active_io_zones_' = active_io_zones_ /\ lost.active \in Int
  BY <1>0, SMTT(20) DEF DataType, HandsOver
<1>6. active_io_zones_' - lost'.active - Bit(Partly(z)') - Bit(HoldsActive(t)')
        = active_io_zones_ - lost.active - Bit(Partly(z)) - Bit(HoldsActive(t))
  <2> DEFINE a == Partly(z)
             b == Partly(z)'
             c == HoldsActive(t)
             d == HoldsActive(t)'
  <2>1. HandsOver(t, z) OBVIOUS
  <2>2. \/ lost'.active = lost.active /\ Bit(b) + Bit(d) = Bit(a) + Bit(c)
        \/ lost'.active = lost.active + 1 /\ Bit(b) + Bit(d) = Bit(a) + Bit(c) - 1
    <3>1. \/ /\ lost'.active = lost.active
             /\ ((a <=> ~c) /\ (b <=> ~d)) \/ ((b <=> a) /\ (d <=> c))
          \/ /\ lost'.active = lost.active + 1
             /\ (c /\ ~d /\ (b <=> a)) \/ (a /\ ~b /\ (d <=> c))
      BY <2>1 DEF HandsOver
    <3> HIDE DEF a, b, c, d
    <3> QED BY <3>1, SMTT(20) DEF Bit
  <2>3. {Bit(a), Bit(b), Bit(c), Bit(d)} \subseteq Int
    BY SMTT(20) DEF Bit
  <2> HIDE DEF a, b, c, d
  <2>4. active_io_zones_' - lost'.active - Bit(b) - Bit(d)
          = active_io_zones_ - lost.active - Bit(a) - Bit(c)
    BY <2>2, <2>3, <1>5, SMTT(20)
  <2> QED BY <2>4 DEF a, b, c, d
<1>7. active_io_zones_' <= active_io_zones_
  BY <1>5, SMTT(20)
<1>8. ActiveStep(t)
  BY <1>3, <1>4, <1>6, <1>7 DEF ActiveStep
<1> QED BY <1>2, <1>8

(***************************************************************************)
(* Facts that the steps share.                                             *)
(***************************************************************************)
LEMMA SameZones ==
  ASSUME DInv, zone' = zone
  PROVE  ZoneData' /\ \A z \in Zones : Still(z)
BY DEF DInv, DataType, ZoneData, Still

\* A thread without a candidate that is not about to copy needs no room.
LEMMA NoNeed ==
  ASSUME NEW t \in Threads, scan'[t].cand = 0, t \in Writers \/ pc'[t] # "copy"
  PROVE  Fit(t)'
BY Consts DEF Fit

\* Only a copy has a target.
LEMMA NoTarget ==
  ASSUME DInv, NEW m \in Migrators, pc[m] \notin {"release", "sync"}
  PROVE  job[m].tgt = 0
BY DEF DInv, JobsOK, JobOK

\* Releasing a zone leaves its data alone.
LEMMA ReleasedStill ==
  ASSUME DInv, NEW z \in Zones, zone' = [zone EXCEPT ![z] = Release(zone[z])]
  PROVE  ZoneData' /\ \A y \in Zones : Still(y)
<1> DEFINE r == Release(zone[z])
<1>1. ZoneData /\ zone[z] \in ZoneRecs BY DEF DInv, DataType, ZoneData
<1>2. /\ r \in ZoneRecs /\ r.wp = zone[z].wp /\ r.capacity = zone[z].capacity
      /\ r.used = zone[z].used
  BY <1>1, SMTT(20) DEF ZoneRecs, Release
<1> HIDE DEF r
<1>3. zone' = [zone EXCEPT ![z] = r] BY DEF r
<1>4. ZoneData' /\ zone'[z] = r /\ \A y \in Zones \ {z} : zone'[y] = zone[y]
  BY <1>1, <1>2, <1>3, UpdateRec
<1> QED BY <1>2, <1>4 DEF Still

(***************************************************************************)
(* The data after every step.                                              *)
(***************************************************************************)
\* AcquireFails keeps the data in order.
LEMMA AcquireFailsData ==
  ASSUME IInv, DInv, NEW t \in Threads, AcquireFails(t)
  PROVE  DInv' /\ ActiveStep(t) /\ Ledger
<1> USE Consts
<1>1. IInv' /\ LocalStep(t) BY AcquireFailsKeeps DEF Quiet
<1>2. /\ UNCHANGED <<zone, active_io_zones_, pc, zn, puts, left, pend, ext, job, lost>>
      /\ scan'[t].cand = scan[t].cand
  BY Advanced DEF AcquireFails, IInv, CoreType
<1>3. Fit(t)'
  BY <1>2 DEF DInv, Fit, Ripe, Partly, IsEmpty, IsFull
<1>4. TokenStep(t)
  BY <1>2 DEF TokenStep, HoldsActive, Owes, IsEmpty, IsFull
<1>5. t \in Migrators => (job[t].tgt # 0 => pc[t] \in {"release", "sync"})
  BY NoTarget
<1>6. left \in [Writers -> Nat] BY DEF DInv, DataType
<1> QED BY <1>1, <1>2, <1>3, <1>4, <1>5, <1>6, SameZones, StillStep

\* WaitForOpenIOZoneToken keeps the data in order.
LEMMA WaitForOpenIOZoneTokenData ==
  ASSUME IInv, DInv, NEW w \in Writers, WaitForOpenIOZoneToken(w)
  PROVE  DInv' /\ ActiveStep(w) /\ Ledger
<1> USE Consts
<1>1. IInv' /\ LocalStep(w) BY WaitForOpenIOZoneTokenKeeps
<1>2. /\ UNCHANGED <<zone, active_io_zones_, zn, puts, left, pend, ext, job, lost>>
      /\ scan'[w].cand = 0 /\ pc[w] \in {"wait", "threshold"}
      /\ pc'[w] \in {"match", "asleep"}
  BY Rewound DEF WaitForOpenIOZoneToken, Waiting, End, Goto, IInv, CoreType, PcType
<1>3. zn[w] = 0 BY <1>2, NoZone
<1>4. Fit(w)' BY <1>2, NoNeed
<1>5. TokenStep(w)
  BY <1>1, <1>2, <1>3, HoldingActive DEF TokenStep, IInv, CoreType
<1>6. left \in [Writers -> Nat] BY DEF DInv, DataType
<1> QED BY <1>1, <1>2, <1>3, <1>4, <1>5, <1>6, SameZones, StillStep

\* A walk keeps a zone that is partly written and has the room, or goes on.
LEMMA KeepOrSkipData ==
  ASSUME IInv, DInv, IInv', NEW t \in Threads, LocalStep(t), NEW d,
         At(t, "match") \/ At(t, "victim"),
         (Keep(t, scan[t].i, d) /\ Ripe(t, scan[t].i)) \/ Skip(t),
         UNCHANGED <<active_io_zones_, pc, zn, puts, left, pend, ext, job, lost>>
  PROVE  DInv' /\ ActiveStep(t) /\ Ledger
<1> USE Consts
<1> DEFINE z == scan[t].i
<1>1. z \in Zones /\ pc[t] \in {"match", "victim"} /\ zn[t] = 0
  <2>1. z \in Zones /\ pc[t] \in {"match", "victim"} BY AtZone
  <2> QED BY <2>1, NoZone
<1>2. left \in [Writers -> Nat] /\ ZoneData BY DEF DInv, DataType
<1>3. t \in Migrators => job[t].tgt = 0
  BY <1>1, NoTarget
<1>4. ZoneData' /\ \A y \in Zones : Still(y)
  <2>1. CASE Skip(t)
    BY <2>1, SameZones DEF Skip
  <2>2. CASE Keep(t, z, d)
    <3>1. /\ DOMAIN zone' = Zones
          /\ zone' = [y \in Zones |-> zone'[y]]
          /\ \A y \in Zones : zone'[y] \in {Acquire(zone[y], t), Release(zone[y]), zone[y]}
      BY <2>2 DEF Keep
    <3>2. \A y \in Zones : zone[y] \in ZoneRecs
      BY <1>2 DEF ZoneData
    <3>3. ASSUME NEW y \in Zones PROVE zone'[y] \in ZoneRecs /\ Still(y)
      <4>1. CASE zone'[y] = zone[y]
        BY <4>1, <3>2 DEF Still
      <4>2. CASE zone'[y] = Acquire(zone[y], t)
        BY <4>2, <3>2, SMTT(20) DEF Still, ZoneRecs, Acquire
      <4>3. CASE zone'[y] = Release(zone[y])
        BY <4>3, <3>2, SMTT(20) DEF Still, ZoneRecs, Release
      <4> QED BY <3>1, <4>1, <4>2, <4>3
    <3> QED BY <3>1, <3>3 DEF ZoneData
  <2> QED BY <2>1, <2>2
<1>5. Fit(t)'
  <2>1. ASSUME NEW c \in Zones, Ripe(t, c), scan'[t].cand = c PROVE Fit(t)'
    <3>1. Ripe(t, c)'
      BY <2>1, <1>4 DEF Ripe, Partly, IsEmpty, IsFull, Still
    <3> QED BY <2>1, <3>1, <1>1 DEF Fit
  <2>2. CASE Skip(t)
    <3>1. scan'[t].cand = scan[t].cand
      BY <2>2, Advanced DEF Skip, IInv, CoreType
    <3>2. CASE scan[t].cand = 0
      BY <3>1, <3>2, <1>1, NoNeed
    <3>3. CASE scan[t].cand # 0
      <4>1. scan[t].cand \in Zones /\ Ripe(t, scan[t].cand)
        BY <3>3, Mine DEF DInv, Fit
      <4> QED BY <3>1, <4>1, <2>1
    <3> QED BY <3>2, <3>3
  <2>3. CASE Keep(t, z, d) /\ Ripe(t, z)
    <3>1. scan'[t].cand = z
      BY <2>3, SMTT(20) DEF Keep, Kept, IInv, CoreType, ScanType
    <3> QED BY <3>1, <2>1, <2>3, <1>1
  <2> QED BY <2>2, <2>3
<1>6. TokenStep(t)
  BY <1>1, HoldingActive DEF TokenStep, IInv, CoreType
<1> QED BY <1>1, <1>2, <1>3, <1>4, <1>5, <1>6, StillStep

\* GetBestOpenZoneMatch keeps the data in order: a zone with used blocks was
\* written to.
LEMMA GetBestOpenZoneMatchData ==
  ASSUME IInv, DInv, NEW t \in Threads, GetBestOpenZoneMatch(t)
  PROVE  DInv' /\ ActiveStep(t) /\ Ledger
<1> USE Consts
<1> DEFINE z == scan[t].i
           d == GetLifeTimeDiff(zone[z].lifetime, Lifetime[FileOf(t)])
<1>1. IInv' /\ LocalStep(t) BY GetBestOpenZoneMatchKeeps DEF Quiet
<1>2. At(t, "match") /\ z \in Zones BY AtZone DEF GetBestOpenZoneMatch
<1>3. IsUsed(z) /\ ~IsFull(z) /\ zone[z].capacity >= MinCapacity(t) => Ripe(t, z)
  <2>1. Sound(z) /\ zone[z] \in ZoneRecs /\ (t \in Migrators => job[t] \in Jobs)
    BY <1>2 DEF DInv, DataType, ZoneData
  <2>2. IsUsed(z) => ~IsEmpty(z)
    BY <2>1, SMTT(20) DEF Sound, ZoneRecs, IsUsed, IsEmpty
  <2>3. t \in Migrators /\ zone[z].capacity >= MinCapacity(t) => job[t].len <= zone[z].capacity
    BY <2>1, SMTT(20) DEF MinCapacity, ZoneRecs, Jobs
  <2> QED BY <2>2, <2>3 DEF Ripe, Partly
<1>4. (Keep(t, z, d) /\ Ripe(t, z)) \/ Skip(t)
  BY <1>3 DEF GetBestOpenZoneMatch
<1>5. UNCHANGED <<active_io_zones_, pc, zn, puts, left, pend, ext, job, lost>>
  BY DEF GetBestOpenZoneMatch
<1> HIDE DEF d
<1> QED BY <1>1, <1>2, <1>4, <1>5, KeepOrSkipData

\* FinishCheapestIOZone keeps the data in order.
LEMMA FinishCheapestIOZoneData ==
  ASSUME IInv, DInv, NEW w \in Writers, FinishCheapestIOZone(w)
  PROVE  DInv' /\ ActiveStep(w) /\ Ledger
<1> USE Consts
<1>1. IInv' /\ LocalStep(w) BY FinishCheapestIOZoneKeeps DEF Quiet
<1>2. (Keep(w, scan[w].i, NOT_GOOD) /\ Ripe(w, scan[w].i)) \/ Skip(w)
  BY DEF FinishCheapestIOZone, Ripe, Partly
<1>3. /\ At(w, "victim")
      /\ UNCHANGED <<active_io_zones_, pc, zn, puts, left, pend, ext, job, lost>>
  BY DEF FinishCheapestIOZone
<1> QED BY <1>1, <1>2, <1>3, KeepOrSkipData

\* A step that finishes a partly written zone, its own or free, and owes its
\* token.
LEMMA FinishData ==
  ASSUME IInv, IInv', DInv, NEW w \in Writers, LocalStep(w), NEW z \in Zones,
         zone[z].busy \in {None, w}, Partly(z), NEW r,
         r = Finish(zone[z]) \/ r = Release(Finish(zone[z])),
         zone' = [zone EXCEPT ![z] = r],
         UNCHANGED <<active_io_zones_, left, pend, ext, job, lost>>,
         zn[w] = 0, zn'[w] = 0, scan'[w].cand = 0, pc[w] \notin {"empty", "closed"},
         puts[w] = <<>>, puts'[w] = <<"active">>
  PROVE  DInv' /\ ActiveStep(w) /\ Ledger
<1> USE Consts
<1>1. DataType /\ ZoneData /\ zone[z] \in ZoneRecs /\ Sound(z) /\ Backed(w) /\ JobsOK
  BY DEF DInv, DataType, ZoneData
<1>2. r \in ZoneRecs /\ r.wp = Capacity /\ r.capacity = 0 /\ r.used = zone[z].used
  <2>1. Finish(zone[z]) \in ZoneRecs BY <1>1, FinishRec
  <2>2. /\ Release(Finish(zone[z])) \in ZoneRecs
        /\ Release(Finish(zone[z])).wp = Finish(zone[z]).wp
        /\ Release(Finish(zone[z])).capacity = Finish(zone[z]).capacity
        /\ Release(Finish(zone[z])).used = Finish(zone[z]).used
    BY <2>1, SMTT(20) DEF Release, ZoneRecs
  <2> QED BY <1>1, <2>2, FinishRec
<1>3. ZoneData' /\ zone'[z] = r /\ \A y \in Zones \ {z} : zone'[y] = zone[y]
  BY <1>1, <1>2, UpdateRec
<1>4. DataType'
  BY <1>1, <1>3 DEF DataType
<1>5. \A y \in Zones \ {z} : Calm(y)
  BY <1>1, <1>3, SMTT(20) DEF Calm, ZoneData, ZoneRecs
<1>6. Sound(z)'
  BY <1>1, <1>2, <1>3, AllocatorAssumption, SMTT(20) DEF Sound, ZoneRecs
<1>7. Backed(w)'
  BY <1>1 DEF Backed
<1>8. JobsOK'
  BY <1>1, JobsKept
<1>9. HandsOver(w, z)
  <2>1. ~Partly(z)' BY <1>2, <1>3 DEF Partly, IsFull
  <2>2. HoldsActive(w)' /\ ~HoldsActive(w)
    BY HoldingActive, ActiveDebts DEF IInv, CoreType
  <2> QED BY <2>1, <2>2 DEF HandsOver
<1>10. Ledger BY <1>2, <1>3, SameBooks
<1> QED BY <1>4, <1>5, <1>6, <1>7, <1>8, <1>9, <1>10, NoNeed, TouchStep

\* ApplyFinishThreshold keeps the data in order.
LEMMA ApplyFinishThresholdData ==
  ASSUME IInv, DInv, NEW w \in Writers, ApplyFinishThreshold(w)
  PROVE  DInv' /\ ActiveStep(w) /\ Ledger
<1> USE Consts
<1> DEFINE z == scan[w].i
<1>1. IInv' /\ LocalStep(w) BY ApplyFinishThresholdKeeps DEF Quiet
<1>2. /\ z \in Zones /\ zone[z].busy = None /\ pc[w] = "threshold" /\ puts[w] = <<>>
      /\ zn[w] = 0 /\ scan[w].cand = 0
  <2>1. At(w, "threshold") BY DEF ApplyFinishThreshold
  <2>2. z \in Zones /\ zone[z].busy = None /\ pc[w] = "threshold" /\ puts[w] = <<>>
    BY <2>1, AtZone
  <2> QED BY <2>2, NoZone, NoCandidate
<1>3. /\ UNCHANGED <<active_io_zones_, zn, pend, ext, job, lost>> /\ scan'[w].cand = 0
  BY <1>2, Rewound, Advanced DEF ApplyFinishThreshold, Skip, GiveUp, IInv, CoreType
<1>4. left \in [Writers -> Nat] BY DEF DInv, DataType
<1>5. CASE zone' = zone /\ puts' = puts
  <2>1. pc'[w] \in {"threshold", "idle"} /\ left' \in [Writers -> Nat]
    <3>1. (pc' = pc /\ left' = left) \/ GiveUp(w) BY DEF ApplyFinishThreshold
    <3>2. CASE pc' = pc /\ left' = left BY <1>2, <1>4, <3>2
    <3>3. CASE GiveUp(w)
      <4>1. pc'[w] = "idle" BY <3>3 DEF GiveUp, Goto, IInv, CoreType, PcType
      <4>2. left' = [left EXCEPT ![w] = 0] /\ 0 \in Nat BY <3>3, SMTT(20) DEF GiveUp
      <4> QED BY <4>1, <4>2, <1>4
    <3> QED BY <3>1, <3>2, <3>3
  <2>2. TokenStep(w)
    BY <1>1, <1>2, <1>3, <1>5, <2>1, HoldingActive DEF TokenStep, IInv, CoreType
  <2> QED BY <1>1, <1>2, <1>3, <1>5, <2>1, <2>2, NoNeed, SameZones, StillStep
<1>6. CASE /\ zone' = [zone EXCEPT ![z] = Finish(zone[z])] /\ Partly(z) /\ left' = left
           /\ puts' = [puts EXCEPT ![w] = <<"active">>]
  <2>1. puts'[w] = <<"active">> BY <1>6 DEF IInv, CoreType, PutsType
  <2> QED BY <1>1, <1>2, <1>3, <1>6, <2>1, FinishData
<1> QED BY <1>5, <1>6 DEF ApplyFinishThreshold, Skip, Partly, PutBack

\* MatchedIOZone keeps the data in order.
LEMMA MatchedIOZoneData ==
  ASSUME IInv, DInv, NEW w \in Writers, MatchedIOZone(w)
  PROVE  DInv' /\ ActiveStep(w) /\ Ledger
<1> USE Consts
<1> DEFINE z == scan[w].cand
<1>1. IInv' /\ LocalStep(w) BY MatchedIOZoneKeeps DEF Quiet
<1>2. /\ pc[w] = "match" /\ zn[w] = 0 /\ puts[w] = <<>> /\ Rewind(w)
      /\ UNCHANGED <<puts, left, pend, ext, job, lost>>
  BY NoZone DEF MatchedIOZone, End, Ready, Obtain
<1>3. scan'[w].cand = 0
  BY <1>2, Rewound DEF IInv, CoreType
<1>4. /\ left \in [Writers -> Nat] /\ ~HoldsActive(w)
      /\ HoldsActive(w)' <=> pc'[w] = "empty" \/ (zn'[w] # 0 /\ ~Partly(zn[w])')
  BY <1>1, <1>2, HoldingActive, ActiveDebts DEF DInv, DataType, IInv, CoreType
<1>5. CASE /\ zone' = zone /\ active_io_zones_' = active_io_zones_ /\ z # 0
           /\ zn' = [zn EXCEPT ![w] = z] /\ pc'[w] \in {"idle", "append"}
  <2>1. zn'[w] = z BY <1>5 DEF IInv, CoreType, ZnType
  <2>2. Partly(z) BY <1>5 DEF DInv, Fit, Ripe
  <2>3. Partly(zn[w])' BY <2>1, <2>2, <1>5 DEF Partly, IsEmpty, IsFull
  <2>4. TokenStep(w) BY <1>4, <1>5, <2>3 DEF TokenStep
  <2> QED BY <1>1, <1>2, <1>3, <1>4, <1>5, <2>4, NoNeed, SameZones, StillStep
<1>6. CASE /\ zone' = IF z = 0 THEN zone ELSE [zone EXCEPT ![z] = Release(zone[z])]
           /\ zn' = zn
           /\ \/ Takes /\ pc'[w] = "empty"
              \/ active_io_zones_' = active_io_zones_ /\ pc'[w] = "active"
  <2>1. ZoneData' /\ \A y \in Zones : Still(y)
    <3>1. CASE z = 0 BY <3>1, <1>6, SameZones
    <3>2. CASE z # 0
      <4>1. z \in Zones BY <3>2, Mine
      <4> QED BY <3>2, <4>1, <1>6, ReleasedStill
    <3> QED BY <3>1, <3>2
  <2>2. TokenStep(w) BY <1>2, <1>4, <1>6 DEF TokenStep
  <2> QED BY <1>1, <1>2, <1>3, <1>4, <1>6, <2>1, <2>2, NoNeed, StillStep
<1>7. z = 0 => scan[w].diff = NOT_GOOD
  BY DEF IInv, Places, PlaceOK
<1>8. \/ /\ zone' = zone /\ active_io_zones_' = active_io_zones_ /\ z # 0
         /\ zn' = [zn EXCEPT ![w] = z] /\ pc'[w] \in {"idle", "append"}
      \/ /\ zone' = IF z = 0 THEN zone ELSE [zone EXCEPT ![z] = Release(zone[z])]
         /\ zn' = zn
         /\ \/ Takes /\ pc'[w] = "empty"
            \/ active_io_zones_' = active_io_zones_ /\ pc'[w] = "active"
  BY <1>2, <1>7, SMTT(20) DEF MatchedIOZone, Obtain, Goto, Takes, IInv, CoreType, PcType,
     NOT_GOOD, COULD_BE_WORSE
<1> QED BY <1>5, <1>6, <1>8

\* GetActiveIOZoneTokenIfAvailable keeps the data in order.
LEMMA GetActiveIOZoneTokenIfAvailableData ==
  ASSUME IInv, DInv, NEW w \in Writers, GetActiveIOZoneTokenIfAvailable(w)
  PROVE  DInv' /\ ActiveStep(w) /\ Ledger
<1> USE Consts
<1>1. IInv' /\ LocalStep(w) BY GetActiveIOZoneTokenIfAvailableKeeps DEF Quiet
<1>2. /\ pc[w] = "active" /\ zn[w] = 0 /\ puts[w] = <<>> /\ scan'[w].cand = 0
      /\ UNCHANGED <<zone, zn, puts, left, pend, ext, job, lost>>
  BY NoZone, NoCandidate DEF GetActiveIOZoneTokenIfAvailable, Ready
<1>3. \/ Takes /\ pc'[w] = "empty"
      \/ active_io_zones_' = active_io_zones_ /\ pc'[w] = "victim"
  BY DEF GetActiveIOZoneTokenIfAvailable, Takes, Goto, IInv, CoreType, PcType
<1>4. /\ left \in [Writers -> Nat] /\ ~HoldsActive(w) /\ (HoldsActive(w)' <=> pc'[w] = "empty")
  BY <1>1, <1>2, HoldingActive, ActiveDebts DEF DInv, DataType, IInv, CoreType
<1>5. TokenStep(w) BY <1>3, <1>4 DEF TokenStep
<1> QED BY <1>1, <1>2, <1>4, <1>5, NoNeed, SameZones, StillStep

\* FinishVictim keeps the data in order.
LEMMA FinishVictimData ==
  ASSUME IInv, DInv, NEW w \in Writers, FinishVictim(w)
  PROVE  DInv' /\ ActiveStep(w) /\ Ledger
<1> USE Consts
<1> DEFINE v == scan[w].cand
<1>1. IInv' /\ LocalStep(w) BY FinishVictimKeeps DEF Quiet
<1>2. /\ pc[w] = "victim" /\ zn[w] = 0 /\ puts[w] = <<>> /\ Rewind(w)
      /\ UNCHANGED <<active_io_zones_, zn, pend, ext, job, lost>>
  BY NoZone DEF FinishVictim, End, Ready, GiveUp
<1>3. scan'[w].cand = 0 /\ left \in [Writers -> Nat]
  BY <1>2, Rewound DEF DInv, DataType, IInv, CoreType
<1>4. v # 0 => v \in Zones /\ zone[v].busy = w /\ Partly(v)
  BY Mine DEF DInv, Fit, Ripe
<1>5. CASE /\ zone' = zone \/ (v # 0 /\ zone' = [zone EXCEPT ![v] = Release(zone[v])])
           /\ pc'[w] \in {"active", "idle"} /\ left' \in [Writers -> Nat]
           /\ puts'[w] \in {<<>>, <<"open">>}
  <2>1. ZoneData' /\ \A y \in Zones : Still(y)
    BY <1>4, <1>5, SameZones, ReleasedStill
  <2>2. TokenStep(w)
    <3>1. ~HoldsActive(w) /\ ~HoldsActive(w)'
      BY <1>1, <1>2, <1>5, HoldingActive, ActiveDebts DEF IInv, CoreType
    <3> QED BY <1>2, <3>1 DEF TokenStep
  <2> QED BY <1>1, <1>2, <1>3, <1>5, <2>1, <2>2, NoNeed, StillStep
<1>6. CASE /\ v # 0 /\ zone' = [zone EXCEPT ![v] = Release(Finish(zone[v]))]
           /\ puts'[w] = <<"active">> /\ left' = left
  BY <1>1, <1>2, <1>3, <1>4, <1>6, FinishData
<1>7. pc \in [Threads -> WriterPc \union MigratorPc] /\ puts \in [Threads -> TokenLists]
      /\ 0 \in Nat
  BY SMTT(20) DEF IInv, CoreType, PcType, PutsType
<1>8. CASE v = 0 /\ zone' = zone /\ Goto(w, "active") /\ UNCHANGED <<puts, left>>
  BY <1>2, <1>3, <1>5, <1>7, <1>8 DEF Goto
<1>9. CASE /\ v # 0 /\ zone' = [zone EXCEPT ![v] = Release(zone[v])]
           /\ PutBack(w, <<"open">>) /\ GiveUp(w)
  <2>1. pc'[w] = "idle" /\ puts'[w] = <<"open">> BY <1>7, <1>9 DEF GiveUp, Goto, PutBack
  <2>2. left' \in [Writers -> Nat] BY <1>3, <1>7, <1>9 DEF GiveUp
  <2> QED BY <1>5, <1>9, <2>1, <2>2
<1>10. CASE /\ v # 0 /\ zone' = [zone EXCEPT ![v] = Release(Finish(zone[v]))]
            /\ PutBack(w, <<"active">>) /\ left' = left
  <2>1. puts'[w] = <<"active">> BY <1>7, <1>10 DEF PutBack
  <2> QED BY <1>6, <1>10, <2>1
<1> QED BY <1>8, <1>9, <1>10 DEF FinishVictim

\* AllocateEmptyZone keeps the data in order: the token stays with the thread
\* until its zone is written.
LEMMA AllocateEmptyZoneData ==
  ASSUME IInv, DInv, NEW w \in Writers, AllocateEmptyZone(w)
  PROVE  DInv' /\ ActiveStep(w) /\ Ledger
<1> USE Consts
<1> DEFINE z == scan[w].i
           r == Hint(Acquire(zone[z], w), Lifetime[w])
<1>1. IInv' /\ LocalStep(w) BY AllocateEmptyZoneKeeps DEF Quiet
<1>2. /\ pc[w] = "empty" /\ zn[w] = 0 /\ z \in Zones /\ scan[w].cand = 0
      /\ UNCHANGED <<active_io_zones_, puts, left, pend, ext, job, lost>>
  <2>1. At(w, "empty") /\ UNCHANGED <<active_io_zones_, puts, left, pend, ext, job, lost>>
    BY DEF AllocateEmptyZone
  <2>2. pc[w] = "empty" /\ z \in Zones BY <2>1, AtZone
  <2> QED BY <2>1, <2>2, NoZone, NoCandidate
<1>3. ZoneData /\ left \in [Writers -> Nat] BY DEF DInv, DataType
<1>4. scan'[w].cand = 0
  BY <1>2, Rewound, Advanced DEF AllocateEmptyZone, Obtain, Skip, IInv, CoreType
<1>5. HoldsActive(w) BY <1>2 DEF HoldsActive
<1>6. CASE zone' = zone /\ pc' = pc /\ zn' = zn
  <2>1. TokenStep(w) BY <1>2, <1>5, <1>6 DEF TokenStep, HoldsActive
  <2> QED BY <1>1, <1>2, <1>3, <1>4, <1>6, <2>1, NoNeed, SameZones, StillStep
<1>7. CASE zone' = [zone EXCEPT ![z] = r] /\ zn' = [zn EXCEPT ![w] = z] /\ IsEmpty(z)
  <2>0. zone[z] \in ZoneRecs /\ Lifetime[w] \in 0..5
    BY <1>2, <1>3, AllocatorAssumption DEF ZoneData
  <2>1. /\ r \in ZoneRecs /\ r.wp = zone[z].wp /\ r.capacity = zone[z].capacity
        /\ r.used = zone[z].used
    <3> DEFINE a == Acquire(zone[z], w)
    <3>1. /\ a \in ZoneRecs /\ a.wp = zone[z].wp /\ a.capacity = zone[z].capacity
          /\ a.used = zone[z].used
      BY <2>0, BusyRec
    <3> HIDE DEF a
    <3>2. LET s == Hint(a, Lifetime[w]) IN
            s \in ZoneRecs /\ s.wp = a.wp /\ s.capacity = a.capacity /\ s.used = a.used
      BY <2>0, <3>1, BusyRec
    <3> QED BY <3>1, <3>2 DEF a
  <2>2. ZoneData' /\ zone'[z] = r /\ \A y \in Zones \ {z} : zone'[y] = zone[y]
    <3> HIDE DEF r
    <3> QED BY <1>2, <1>3, <1>7, <2>1, UpdateRec
  <2>3. \A y \in Zones : Still(y)
    <3> HIDE DEF r
    <3> QED BY <2>1, <2>2 DEF Still
  <2>4. zn'[w] = z /\ z # 0 BY <1>2, <1>7 DEF IInv, CoreType, ZnType
  <2>5. HoldsActive(w)'
    BY <1>2, <1>7, <2>3, <2>4 DEF HoldsActive, IsEmpty, Still
  <2>6. TokenStep(w) BY <1>2, <1>5, <2>5 DEF TokenStep
  <2> QED BY <1>1, <1>2, <1>3, <1>4, <2>2, <2>3, <2>6, NoNeed, StillStep
<1> QED BY <1>6, <1>7 DEF AllocateEmptyZone, Skip, Obtain

\* NoEmptyZone keeps the data in order.
LEMMA NoEmptyZoneData ==
  ASSUME IInv, DInv, NEW w \in Writers, NoEmptyZone(w)
  PROVE  DInv' /\ ActiveStep(w) /\ Ledger
<1> USE Consts
<1>1. IInv' /\ LocalStep(w) BY NoEmptyZoneKeeps DEF Quiet
<1>2. /\ pc[w] = "empty" /\ zn[w] = 0 /\ puts'[w] = <<"active", "open">> /\ Rewind(w)
      /\ UNCHANGED <<zone, active_io_zones_, zn, pend, ext, job, lost>>
      /\ left' = [left EXCEPT ![w] = 0]
  BY NoZone DEF NoEmptyZone, End, GiveUp, PutBack, IInv, CoreType, PutsType
<1>3. scan'[w].cand = 0 /\ left' \in [Writers -> Nat]
  BY <1>2, Rewound DEF DInv, DataType, IInv, CoreType
<1>4. HoldsActive(w) /\ HoldsActive(w)'
  BY <1>1, <1>2, HoldingActive, ActiveDebts DEF IInv, CoreType
<1>5. TokenStep(w) BY <1>2, <1>4 DEF TokenStep
<1> QED BY <1>1, <1>2, <1>3, <1>5, NoNeed, SameZones, StillStep

\* StartAppend keeps the data in order.
LEMMA StartAppendData ==
  ASSUME IInv, DInv, NEW w \in Writers, StartAppend(w)
  PROVE  DInv' /\ ActiveStep(w) /\ Ledger
<1> USE Consts
<1>1. IInv' /\ LocalStep(w) BY StartAppendKeeps DEF Quiet
<1>2. /\ pc[w] = "idle" /\ pc'[w] \in {"append", "threshold", "wait"} /\ scan'[w].cand = 0
      /\ UNCHANGED <<zone, active_io_zones_, zn, puts, pend, ext, job, lost>>
  BY NoCandidate DEF StartAppend, StartAllocation, Goto, IInv, CoreType, PcType
<1>3. left' \in [Writers -> Nat]
  <2>1. left \in [Writers -> Nat] BY DEF DInv, DataType
  <2>2. \A n \in 1..MaxAppend : n \in Nat BY AllocatorAssumption, SMTT(20)
  <2> QED BY <2>1, <2>2 DEF StartAppend
<1>4. TokenStep(w)
  <2>1. HoldsActive(w)' <=> HoldsActive(w)
    BY <1>1, <1>2, HoldingActive DEF IInv, CoreType, Partly, IsEmpty, IsFull
  <2> QED BY <1>2, <2>1 DEF TokenStep
<1> QED BY <1>1, <1>2, <1>3, <1>4, NoNeed, SameZones, StillStep

\* CloseFile keeps the data in order.
LEMMA CloseFileData ==
  ASSUME IInv, DInv, NEW w \in Writers, CloseFile(w)
  PROVE  DInv' /\ ActiveStep(w) /\ Ledger
<1> USE Consts
<1>1. IInv' /\ LocalStep(w) BY CloseFileKeeps DEF Quiet
<1>2. /\ pc[w] = "idle" /\ pc'[w] = "closed" /\ scan'[w].cand = 0 /\ zn[w] = 0
      /\ UNCHANGED <<zone, active_io_zones_, zn, puts, left, pend, ext, job, lost>>
  BY NoCandidate DEF CloseFile, Goto, IInv, CoreType, PcType
<1>3. left \in [Writers -> Nat] BY DEF DInv, DataType
<1>4. TokenStep(w)
  BY <1>1, <1>2, HoldingActive DEF TokenStep, IInv, CoreType
<1> QED BY <1>1, <1>2, <1>3, <1>4, NoNeed, SameZones, StillStep

\* ResetDone keeps the data in order.
LEMMA ResetDoneData ==
  ASSUME IInv, DInv, NEW t \in Threads, ResetDone(t)
  PROVE  DInv' /\ ActiveStep(t) /\ Ledger
<1> USE Consts
<1>1. IInv' /\ LocalStep(t) BY ResetDoneKeeps DEF Quiet
<1>2. /\ pc[t] = "reset" /\ pc'[t] = Rest(t) /\ zn[t] = 0 /\ Rewind(t)
      /\ UNCHANGED <<zone, active_io_zones_, zn, puts, left, pend, ext, job, lost>>
  BY NoZone DEF ResetDone, End, Goto, IInv, CoreType, PcType
<1>3. left \in [Writers -> Nat] /\ scan'[t].cand = 0
  BY <1>2, Rewound DEF DInv, DataType, IInv, CoreType
<1>4. TokenStep(t)
  BY <1>1, <1>2, HoldingActive DEF TokenStep, IInv, CoreType, Rest
<1>5. t \in Migrators => job[t].tgt = 0
  BY <1>2, NoTarget
<1>6. Fit(t)' BY <1>2, <1>3, NoNeed DEF Rest
<1>7. t \in Migrators => pc'[t] = "none" BY <1>2 DEF Rest
<1> QED BY <1>1, <1>2, <1>3, <1>4, <1>5, <1>6, <1>7, SameZones, StillStep

\* TakeMigrateZone keeps the data in order.
LEMMA TakeMigrateZoneData ==
  ASSUME IInv, DInv, NEW m \in Migrators, TakeMigrateZone(m)
  PROVE  DInv' /\ ActiveStep(m) /\ Ledger
<1> USE Consts
<1>1. IInv' /\ LocalStep(m) BY TakeMigrateZoneKeeps DEF Quiet
<1>2. /\ pc[m] = "take" /\ pc'[m] = "match" /\ scan'[m].cand = 0
      /\ UNCHANGED <<zone, active_io_zones_, zn, puts, left, pend, ext, job, lost>>
  BY NoCandidate DEF TakeMigrateZone, Goto, IInv, CoreType, PcType
<1>3. left \in [Writers -> Nat] /\ job[m].tgt = 0
  BY <1>2, NoTarget DEF DInv, DataType
<1>4. TokenStep(m)
  BY <1>1, <1>2, HoldingActive DEF TokenStep, IInv, CoreType
<1> QED BY <1>1, <1>2, <1>3, <1>4, NoNeed, SameZones, StillStep

\* MigrateZoneTaken keeps the data in order: the target has the room.
LEMMA MigrateZoneTakenData ==
  ASSUME IInv, DInv, NEW m \in Migrators, MigrateZoneTaken(m)
  PROVE  DInv' /\ ActiveStep(m) /\ Ledger
<1> USE Consts
<1>1. IInv' /\ LocalStep(m) BY MigrateZoneTakenKeeps DEF Quiet
<1>2. /\ pc[m] = "match" /\ pc'[m] = (IF scan[m].cand = 0 THEN "release" ELSE "copy")
      /\ zn'[m] = scan[m].cand /\ Rewind(m)
      /\ UNCHANGED <<zone, active_io_zones_, puts, left, pend, ext, job, lost>>
  BY DEF MigrateZoneTaken, End, Goto, IInv, CoreType, PcType, ZnType
<1>3. left \in [Writers -> Nat] /\ job[m].tgt = 0 /\ scan'[m].cand = 0
  BY <1>2, NoTarget, Rewound DEF DInv, DataType, IInv, CoreType
<1>4. TokenStep(m)
  BY <1>1, <1>2, HoldingActive DEF TokenStep, IInv, CoreType
<1>5. Fit(m)'
  <2>1. scan[m].cand # 0 => Ripe(m, scan[m].cand) BY DEF DInv, Fit
  <2> QED BY <1>2, <1>3, <2>1 DEF Fit, Ripe, Partly, IsEmpty, IsFull
<1> QED BY <1>1, <1>2, <1>3, <1>4, <1>5, SameZones, StillStep

\* ReleaseMigrateZone keeps the data in order.
LEMMA ReleaseMigrateZoneData ==
  ASSUME IInv, DInv, NEW m \in Migrators, ReleaseMigrateZone(m)
  PROVE  DInv' /\ ActiveStep(m) /\ Ledger
<1> USE Consts
<1>1. IInv' /\ LocalStep(m) BY ReleaseMigrateZoneKeeps DEF Quiet
<1>2. /\ pc[m] = "release" /\ pc'[m] = "sync" /\ scan'[m].cand = 0
      /\ UNCHANGED <<active_io_zones_, puts, left, pend, ext, job, lost>>
  BY NoCandidate DEF ReleaseMigrateZone, Goto, IInv, CoreType, PcType
<1>3. left \in [Writers -> Nat] BY DEF DInv, DataType
<1>4. TokenStep(m)
  BY <1>1, <1>2, HoldingActive DEF TokenStep, IInv, CoreType
<1>5. ZoneData' /\ \A y \in Zones : Still(y)
  <2>1. CASE zn[m] = 0 BY <2>1, SameZones DEF ReleaseMigrateZone
  <2>2. CASE zn[m] # 0
    <3>1. zn[m] \in Zones BY <2>2, Mine
    <3>2. zone' = [zone EXCEPT ![zn[m]] = Release(zone[zn[m]])]
      BY <2>2 DEF ReleaseMigrateZone
    <3> QED BY <3>1, <3>2, ReleasedStill
  <2> QED BY <2>1, <2>2
<1> QED BY <1>1, <1>2, <1>3, <1>4, <1>5, NoNeed, StillStep

(***************************************************************************)
(* The steps that write, count, clear or move data.                        *)
(***************************************************************************)
Grows(w, z, n) ==
  /\ ext' \in [Threads -> [Zones -> Nat]]
  /\ \A u \in Threads \ {w} : ext'[u] = ext[u]
  /\ \A y \in Zones : ext'[w][y] = ext[w][y] + (IF y = z THEN n ELSE 0)

\* PushExtent adds one extent.
LEMMA ExtentGrows ==
  ASSUME ext \in [Threads -> [Zones -> Nat]], NEW w \in Threads, NEW z \in Zones,
         NEW n \in Nat, ext' = [ext EXCEPT ![w][z] = @ + n]
  PROVE  Grows(w, z, n)
<1> DEFINE g == [ext[w] EXCEPT ![z] = ext[w][z] + n]
<1>1. ext[w] \in [Zones -> Nat] /\ ext[w][z] \in Nat OBVIOUS
<1>2. g \in [Zones -> Nat] BY <1>1, SMTT(20)
<1>3. \A y \in Zones : g[y] = ext[w][y] + (IF y = z THEN n ELSE 0)
  BY <1>1, SMTT(20)
<1>4. ext' = [ext EXCEPT ![w] = g] OBVIOUS
<1> HIDE DEF g
<1> QED BY <1>2, <1>3, <1>4 DEF Grows

\* The blocks of the new extent are used.
LEMMA GrowsBooks ==
  ASSUME DInv, NEW w \in Threads, NEW z \in Zones, NEW n \in Nat, Grows(w, z, n), job' = job,
         zone'[z].used = zone[z].used + n, \A y \in Zones \ {z} : zone'[y] = zone[y]
  PROVE  Ledger
<1>1. \A x \in Threads, y \in Zones : CopiedBy(x, y)' = CopiedBy(x, y)
  BY DEF CopiedBy
<1>2. ASSUME NEW y \in Zones
      PROVE  zone'[y].used - ext'[w][y] - CopiedBy(w, y)
             = zone[y].used - ext[w][y] - CopiedBy(w, y)
  <2>1. zone[y].used \in Int /\ CopiedBy(w, y) \in Int
    BY CopiedNat, SMTT(20) DEF DInv, DataType, ZoneData, ZoneRecs
  <2>2. ext[w][y] \in Nat BY DEF DInv, DataType
  <2>3. CASE y = z
    <3>1. ext'[w][y] = ext[w][y] + n BY <2>3 DEF Grows
    <3> QED BY <2>1, <2>2, <2>3, <3>1, SMTT(20)
  <2>4. CASE y # z
    <3>1. ext'[w][y] = ext[w][y] + 0 BY <2>4 DEF Grows
    <3>2. zone'[y].used = zone[y].used BY <2>4
    <3> QED BY <2>1, <2>2, <3>1, <3>2, SMTT(20)
  <2> QED BY <2>3, <2>4
<1>3. Books(w, w) BY <1>1, <1>2 DEF Books, Grows
<1> QED BY <1>3 DEF Ledger

\* The blocks that no extent covers become one.
LEMMA PushData ==
  ASSUME IInv, DInv, NEW w \in Writers, NEW z \in Zones, zn[w] = z,
         zone' = [zone EXCEPT ![z] = Release(PushedUsed(w))], ext' = Pushed(w)
  PROVE  /\ ZoneData' /\ Grows(w, z, pend[w]) /\ Sound(z)'
         /\ zone'[z].wp = zone[z].wp /\ zone'[z].capacity = zone[z].capacity
         /\ zone'[z].used = zone[z].used + pend[w]
         /\ \A y \in Zones \ {z} : zone'[y] = zone[y]
<1> USE Consts
<1> DEFINE r == Release(PushedUsed(w))
<1>1. /\ ZoneData /\ zone[z] \in ZoneRecs /\ pend[w] \in Nat /\ Sound(z) /\ Backed(w)
      /\ ext \in [Threads -> [Zones -> Nat]] /\ z # 0
  BY DEF DInv, DataType, ZoneData
<1>2. /\ PushedUsed(w) \in ZoneRecs /\ PushedUsed(w).used = zone[z].used + pend[w]
      /\ PushedUsed(w).wp = zone[z].wp /\ PushedUsed(w).capacity = zone[z].capacity
  <2>1. pend[w] \in Int BY <1>1, SMTT(20)
  <2> QED BY <1>1, <2>1, UseRec DEF PushedUsed
<1>3. /\ r \in ZoneRecs /\ r.used = zone[z].used + pend[w]
      /\ r.wp = zone[z].wp /\ r.capacity = zone[z].capacity
  <2>1. r.used = PushedUsed(w).used /\ r.wp = PushedUsed(w).wp
        /\ r.capacity = PushedUsed(w).capacity /\ r \in ZoneRecs
    BY <1>2, SMTT(20) DEF Release, ZoneRecs
  <2> QED BY <2>1, <1>2
<1> HIDE DEF r
<1>4. ZoneData' /\ zone'[z] = r /\ \A y \in Zones \ {z} : zone'[y] = zone[y]
  <2>1. zone' = [zone EXCEPT ![z] = r] BY DEF r
  <2> QED BY <1>1, <1>3, <2>1, UpdateRec
<1>5. Grows(w, z, pend[w])
  BY <1>1, ExtentGrows DEF Pushed
<1>6. Sound(z)'
  BY <1>1, <1>3, <1>4, SMTT(20) DEF Sound, Backed
<1> QED BY <1>3, <1>4, <1>5, <1>6

\* Zones that a step leaves as they are are calm.
LEMMA CalmOthers ==
  ASSUME ZoneData, NEW z, \A y \in Zones \ {z} : zone'[y] = zone[y]
  PROVE  \A y \in Zones \ {z} : Calm(y)
BY SMTT(20) DEF Calm, ZoneData, ZoneRecs

\* AppendDirectAtEnd keeps the data in order.
LEMMA AppendDirectAtEndData ==
  ASSUME IInv, DInv, NEW w \in Writers, AppendDirectAtEnd(w)
  PROVE  DInv' /\ ActiveStep(w) /\ Ledger
<1> USE Consts
<1>0. PICK z \in Zones : z = zn[w]
  BY Mine DEF AppendDirectAtEnd
<1>1. IInv' /\ LocalStep(w) BY AppendDirectAtEndKeeps DEF Quiet
<1>2. /\ pc[w] = "append" /\ z # 0 /\ zone[z].busy = w /\ IsFull(z)
      /\ scan'[w].cand = 0 /\ zn'[w] = 0 /\ puts'[w] = <<"open", "active">>
      /\ UNCHANGED <<active_io_zones_, left, job, lost>>
      /\ pend' = [pend EXCEPT ![w] = 0]
      /\ zone' = [zone EXCEPT ![z] = Release(PushedUsed(w))] /\ ext' = Pushed(w)
  BY <1>0, Mine, NoCandidate DEF AppendDirectAtEnd, PutBack, IInv, CoreType, PutsType, ZnType
<1>3. DataType /\ JobsOK BY DEF DInv
<1>4. /\ ZoneData' /\ Grows(w, z, pend[w]) /\ Sound(z)'
      /\ zone'[z].wp = zone[z].wp /\ zone'[z].capacity = zone[z].capacity
      /\ zone'[z].used = zone[z].used + pend[w]
      /\ \A y \in Zones \ {z} : zone'[y] = zone[y]
  BY <1>0, <1>2, PushData
<1>5. DataType' /\ \A u \in Writers \ {w} : pend'[u] = pend[u]
  BY <1>2, <1>3, <1>4 DEF DataType, Grows
<1>6. Backed(w)'
  BY <1>2, <1>3 DEF Backed, DataType
<1>7. JobsOK'
  <2>1. \A u \in Threads : ext'[u] = ext[u] \/ u = w BY <1>4 DEF Grows
  <2>2. w \in Threads /\ w \notin Migrators /\ pc[w] # "closed" BY <1>2
  <2> QED BY <1>1, <1>2, <1>3, <2>1, <2>2, JobsKept
<1>8. HandsOver(w, z)
  <2>1. ~Partly(z) /\ ~Partly(z)' BY <1>2, <1>4 DEF Partly, IsFull
  <2>2. HoldsActive(w) BY <1>0, <1>2 DEF HoldsActive
  <2>3. HoldsActive(w)'
    BY <1>1, <1>2, HoldingActive, ActiveDebts DEF IInv, CoreType
  <2> QED BY <1>2, <2>1, <2>2, <2>3 DEF HandsOver
<1>9. \A y \in Zones \ {z} : Calm(y) BY <1>3, <1>4, CalmOthers DEF DataType
<1>10. Ledger
  <2>1. pend[w] \in Nat BY <1>3 DEF DataType
  <2> QED BY <1>2, <1>4, <2>1, GrowsBooks
<1> QED BY <1>1, <1>2, <1>4, <1>5, <1>6, <1>7, <1>8, <1>9, <1>10, NoNeed, TouchStep

\* The write that AppendDirect or BufferedAppend does in a zone.
LEMMA WriteData ==
  ASSUME DInv, NEW w \in Writers, NEW z \in Zones
  PROVE  LET n == MinOf(left[w], zone[z].capacity)
             r == Append1(zone[z], n)
         IN /\ n \in Nat /\ n <= zone[z].capacity /\ left[w] - n \in Nat
            /\ r \in ZoneRecs /\ r.used = zone[z].used
            /\ r.wp = zone[z].wp + n /\ r.capacity = zone[z].capacity - n
<1> DEFINE n == MinOf(left[w], zone[z].capacity)
<1>1. zone[z] \in ZoneRecs /\ left[w] \in Nat /\ zone[z].capacity \in Nat
  BY SMTT(20) DEF DInv, DataType, ZoneData, ZoneRecs
<1>2. n \in Nat /\ n <= zone[z].capacity /\ left[w] - n \in Nat
  BY <1>1, SMTT(20) DEF MinOf
<1> HIDE DEF n
<1> QED BY <1>1, <1>2, AppendRec DEF n

\* AppendDirect keeps the data in order.
LEMMA AppendDirectData ==
  ASSUME IInv, DInv, NEW w \in Writers, AppendDirect(w)
  PROVE  DInv' /\ ActiveStep(w) /\ Ledger
<1> USE Consts
<1>0. PICK z \in Zones : z = zn[w]
  BY Mine DEF AppendDirect
<1> DEFINE n == MinOf(left[w], zone[z].capacity)
           r == Append1(zone[z], n)
<1>1. IInv' /\ LocalStep(w) BY AppendDirectKeeps DEF Quiet
<1>2. /\ pc[w] = "append" /\ z # 0 /\ zone[z].busy = w /\ w \notin Buffered
      /\ scan'[w].cand = 0 /\ zn'[w] = z /\ puts' = puts /\ puts[w] = <<>>
      /\ pc'[w] \in {"idle", "append"}
      /\ UNCHANGED <<active_io_zones_, ext, job, lost>>
      /\ pend' = [pend EXCEPT ![w] = pend[w] + n]
      /\ left' = [left EXCEPT ![w] = left[w] - n]
      /\ zone' = [zone EXCEPT ![z] = r]
  BY <1>0, Mine, NoCandidate DEF AppendDirect, Ready, Goto, IInv, CoreType, PcType
<1>3. DataType /\ JobsOK /\ Sound(z) /\ Backed(w) /\ zone[z] \in ZoneRecs
  BY DEF DInv, DataType, ZoneData
<1>4. /\ n \in Nat /\ n <= zone[z].capacity /\ left[w] - n \in Nat
      /\ r \in ZoneRecs /\ r.used = zone[z].used
      /\ r.wp = zone[z].wp + n /\ r.capacity = zone[z].capacity - n
  BY WriteData
<1> HIDE DEF n, r
<1>5. ZoneData' /\ zone'[z] = r /\ \A y \in Zones \ {z} : zone'[y] = zone[y]
  BY <1>2, <1>3, <1>4, UpdateRec DEF DataType
<1>6. pend[w] \in Nat /\ pend[w] + n \in Nat
  BY <1>3, <1>4, SMTT(20) DEF DataType
<1>7. /\ DataType' /\ pend'[w] = pend[w] + n
      /\ \A u \in Writers \ {w} : pend'[u] = pend[u]
  BY <1>2, <1>3, <1>4, <1>5, <1>6 DEF DataType
<1>8. Sound(z)'
  BY <1>3, <1>4, <1>5, SMTT(20) DEF Sound, ZoneRecs
<1>9. Backed(w)'
  <2>1. zone'[z].used + pend'[w] <= zone'[z].wp
    <3>1. zone[z].used + pend[w] <= zone[z].wp BY <1>0, <1>2, <1>3 DEF Backed
    <3> QED BY <1>3, <1>4, <1>5, <1>6, <1>7, <3>1, SMTT(20) DEF ZoneRecs
  <2> QED BY <1>2, <2>1 DEF Backed
<1>10. JobsOK'
  BY <1>1, <1>2, <1>3, JobsKept
<1>11. HandsOver(w, z)
  <2>1. (Partly(z) <=> ~HoldsActive(w)) /\ (Partly(zn[w])' <=> ~HoldsActive(w)')
    BY <1>0, <1>1, <1>2, HoldingActive, ActiveDebts DEF IInv, CoreType
  <2>2. Partly(zn[w])' <=> Partly(z)'
    BY <1>2 DEF Partly, IsEmpty, IsFull
  <2> QED BY <1>2, <2>1, <2>2 DEF HandsOver
<1>12. \A y \in Zones \ {z} : Calm(y) BY <1>3, <1>5, CalmOthers DEF DataType
<1>13. \A m \in Migrators : job'[m].len = job[m].len BY <1>2
<1>14. Ledger BY <1>2, <1>4, <1>5, SameBooks
<1> QED BY <1>1, <1>2, <1>7, <1>8, <1>9, <1>10, <1>11, <1>12, <1>13, <1>14, NoNeed, TouchStep

\* BufferedAppend keeps the data in order.
LEMMA BufferedAppendData ==
  ASSUME IInv, DInv, NEW w \in Writers, BufferedAppend(w)
  PROVE  DInv' /\ ActiveStep(w) /\ Ledger
<1> USE Consts
<1>0. PICK z \in Zones : z = zn[w]
  BY Mine DEF BufferedAppend
<1> DEFINE n == MinOf(left[w], zone[z].capacity)
           a == Append1(zone[z], n)
           u == Use(a, n)
           r == IF u.capacity = 0 THEN Release(u) ELSE u
<1>1. IInv' /\ LocalStep(w) BY BufferedAppendKeeps DEF Quiet
<1>2. /\ pc[w] = "append" /\ z # 0 /\ zone[z].busy = w /\ w \in Buffered /\ puts[w] = <<>>
      /\ scan'[w].cand = 0
      /\ UNCHANGED <<active_io_zones_, pend, job, lost>>
      /\ ext' = [ext EXCEPT ![w][z] = @ + n]
      /\ left' = [left EXCEPT ![w] = left[w] - n]
      /\ zone' = [zone EXCEPT ![z] = r]
  BY <1>0, Mine, NoCandidate DEF BufferedAppend, Ready
<1>2b. \/ /\ u.capacity = 0 /\ zn'[w] = 0 /\ puts'[w] = <<"open", "active">>
       \/ /\ u.capacity # 0 /\ zn'[w] = z /\ puts'[w] = <<>> /\ pc'[w] = "idle"
  BY <1>0, <1>2 DEF BufferedAppend, PutBack, Goto, IInv, CoreType, ZnType, PutsType, PcType
<1>3. DataType /\ JobsOK /\ Sound(z) /\ Backed(w) /\ zone[z] \in ZoneRecs
  BY DEF DInv, DataType, ZoneData
<1>4. /\ n \in Nat /\ n <= zone[z].capacity /\ left[w] - n \in Nat
      /\ a \in ZoneRecs /\ a.used = zone[z].used
      /\ a.wp = zone[z].wp + n /\ a.capacity = zone[z].capacity - n
  BY WriteData
<1> HIDE DEF n, a
<1>5. /\ u \in ZoneRecs /\ u.used = zone[z].used + n
      /\ u.wp = zone[z].wp + n /\ u.capacity = zone[z].capacity - n
  <2>1. n \in Int BY <1>4, SMTT(20)
  <2>2. /\ Use(a, n) \in ZoneRecs /\ Use(a, n).used = a.used + n
        /\ Use(a, n).wp = a.wp /\ Use(a, n).capacity = a.capacity
    BY <1>4, <2>1, UseRec
  <2> QED BY <1>4, <2>2
<1> HIDE DEF u
<1>6. r \in ZoneRecs /\ r.used = u.used /\ r.wp = u.wp /\ r.capacity = u.capacity
  <2>1. CASE u.capacity = 0 BY <1>5, <2>1, SMTT(20) DEF Release, ZoneRecs
  <2>2. CASE u.capacity # 0 BY <1>5, <2>2
  <2> QED BY <2>1, <2>2
<1> HIDE DEF r
<1>7. ZoneData' /\ zone'[z] = r /\ \A y \in Zones \ {z} : zone'[y] = zone[y]
  BY <1>2, <1>3, <1>6, UpdateRec DEF DataType
<1>8. Grows(w, z, n)
  BY <1>2, <1>3, <1>4, ExtentGrows DEF DataType
<1>9. DataType'
  BY <1>2, <1>3, <1>4, <1>7, <1>8 DEF DataType, Grows
<1>10. Sound(z)'
  BY <1>3, <1>4, <1>5, <1>6, <1>7, SMTT(20) DEF Sound, ZoneRecs
<1>11. Backed(w)'
  <2>1. pend[w] = 0 /\ pend'[w] = 0 BY <1>2, <1>3 DEF Backed
  <2>2. zone'[z].used + 0 <= zone'[z].wp
    BY <1>6, <1>7, <1>10, SMTT(20) DEF Sound, ZoneRecs
  <2> QED BY <1>2, <1>2b, <2>1, <2>2 DEF Backed
<1>12. JobsOK'
  BY <1>1, <1>2, <1>3, <1>8, JobsKept DEF Grows
<1>13. HandsOver(w, z)
  <2>1. Partly(z) <=> ~HoldsActive(w)
    BY <1>0, <1>1, <1>2, HoldingActive, ActiveDebts DEF IInv, CoreType
  <2>2. CASE u.capacity = 0
    <3>1. ~Partly(z)' BY <2>2, <1>6, <1>7 DEF Partly, IsFull
    <3>2. HoldsActive(w)'
      BY <1>1, <1>2b, <2>2, HoldingActive, ActiveDebts DEF IInv, CoreType
    <3> QED BY <1>2, <2>1, <3>1, <3>2 DEF HandsOver
  <2>3. CASE u.capacity # 0
    <3>1. Partly(zn[w])' <=> ~HoldsActive(w)'
      BY <1>1, <1>2, <1>2b, <2>3, HoldingActive, ActiveDebts DEF IInv, CoreType
    <3>2. Partly(zn[w])' <=> Partly(z)'
      BY <1>2b, <2>3 DEF Partly, IsEmpty, IsFull
    <3> QED BY <1>2, <2>1, <3>1, <3>2 DEF HandsOver
  <2> QED BY <2>2, <2>3
<1>14. \A y \in Zones \ {z} : Calm(y) BY <1>3, <1>7, CalmOthers DEF DataType
<1>15. \A m \in Migrators : job'[m].len = job[m].len BY <1>2
<1>16. Ledger
  <2>1. zone'[z].used = zone[z].used + n BY <1>5, <1>6, <1>7
  <2> QED BY <1>2, <1>4, <1>7, <1>8, <2>1, GrowsBooks
<1> QED BY <1>1, <1>2, <1>9, <1>10, <1>11, <1>12, <1>13, <1>14, <1>15, <1>16, NoNeed, TouchStep

\* CloseWR keeps the data in order; the token of an empty zone is lost.
LEMMA CloseWRData ==
  ASSUME IInv, DInv, NEW w \in Writers, CloseWR(w)
  PROVE  DInv' /\ ActiveStep(w) /\ Ledger
<1> USE Consts
<1>0. PICK z \in Zones : z = zn[w]
  BY Mine DEF CloseWR
<1>1. IInv' /\ LocalStep(w) BY CloseWRKeeps
<1>2. /\ pc[w] = "idle" /\ z # 0 /\ zone[z].busy = w /\ puts[w] = <<>>
      /\ scan'[w].cand = 0 /\ zn'[w] = 0 /\ pc'[w] = "closed"
      /\ UNCHANGED <<active_io_zones_, left, job>>
      /\ pend' = [pend EXCEPT ![w] = 0]
      /\ zone' = [zone EXCEPT ![z] = Release(PushedUsed(w))] /\ ext' = Pushed(w)
  BY <1>0, Mine, NoCandidate DEF CloseWR, Ready, Goto, IInv, CoreType, PcType, ZnType
<1>3. DataType /\ JobsOK /\ Sound(z) /\ zone[z] \in ZoneRecs
  BY DEF DInv, DataType, ZoneData
<1>4. /\ ZoneData' /\ Grows(w, z, pend[w]) /\ Sound(z)'
      /\ zone'[z].wp = zone[z].wp /\ zone'[z].capacity = zone[z].capacity
      /\ zone'[z].used = zone[z].used + pend[w]
      /\ \A y \in Zones \ {z} : zone'[y] = zone[y]
  BY <1>0, <1>2, PushData
<1>5. \/ /\ IsFull(z) /\ ~IsEmpty(z) /\ puts'[w] = <<"open", "active">>
         /\ lost'.active = lost.active
      \/ /\ ~IsFull(z) /\ ~IsEmpty(z) /\ puts'[w] \in {<<>>, <<"open">>}
         /\ lost'.active = lost.active
      \/ /\ ~IsFull(z) /\ IsEmpty(z) /\ puts'[w] = <<"open">>
         /\ lost'.active = lost.active + 1
  <2>1. ~(IsFull(z) /\ IsEmpty(z))
    BY <1>3, AllocatorAssumption, SMTT(20) DEF IsFull, IsEmpty, Sound
  <2>2. \/ /\ puts'[w] = IF IsFull(z) THEN <<"open", "active">> ELSE <<"open">>
           /\ lost'.active = IF IsEmpty(z) THEN lost.active + 1 ELSE lost.active
        \/ /\ ~IsEmpty(z) /\ ~IsFull(z) /\ puts'[w] = <<>> /\ lost'.active = lost.active
    BY <1>0, <1>2 DEF CloseWR, PutBack, IInv, CoreType, PutsType, LostType
  <2> QED BY <2>1, <2>2
<1>6. lost'.active \in Nat
  BY <1>3, <1>5, SMTT(20) DEF DataType
<1>7. DataType' /\ \A u \in Writers \ {w} : pend'[u] = pend[u]
  BY <1>2, <1>3, <1>4, <1>6 DEF DataType, Grows
<1>8. Backed(w)'
  BY <1>2, <1>3 DEF Backed, DataType
<1>9. JobsOK'
  <2>1. \A u \in Threads : ext'[u] = ext[u] \/ u = w BY <1>4 DEF Grows
  <2>2. w \in Threads /\ w \notin Migrators /\ pc[w] # "closed" BY <1>2
  <2> QED BY <1>1, <1>2, <1>3, <2>1, <2>2, JobsKept
<1>10. HandsOver(w, z)
  <2>1. Partly(z)' <=> Partly(z) BY <1>4 DEF Partly, IsFull, IsEmpty
  <2>2. HoldsActive(w) <=> ~Partly(z)
    BY <1>0, <1>1, <1>2, HoldingActive, ActiveDebts DEF IInv, CoreType
  <2>3. HoldsActive(w)' <=> puts'[w] = <<"open", "active">>
    BY <1>1, <1>2, <1>5, HoldingActive, ActiveDebts DEF IInv, CoreType
  <2>4. <<"open", "active">> \notin {<<>>, <<"open">>} BY ActiveDebts
  <2> QED BY <1>2, <1>5, <2>1, <2>2, <2>3, <2>4 DEF HandsOver, Partly
<1>11. \A y \in Zones \ {z} : Calm(y) BY <1>3, <1>4, CalmOthers DEF DataType
<1>12. \A m \in Migrators : job'[m].len = job[m].len BY <1>2
<1>13. Ledger
  <2>1. pend[w] \in Nat BY <1>3 DEF DataType
  <2> QED BY <1>2, <1>4, <2>1, GrowsBooks
<1> QED BY <1>1, <1>2, <1>4, <1>7, <1>8, <1>9, <1>10, <1>11, <1>12, <1>13, NoNeed, TouchStep

\* ResetUnusedIOZones keeps the data in order: nothing used is reset.
LEMMA ResetUnusedIOZonesData ==
  ASSUME IInv, DInv, NEW t \in Threads, ResetUnusedIOZones(t)
  PROVE  DInv' /\ ActiveStep(t) /\ Ledger
<1> USE Consts
<1>0. At(t, "reset") BY DEF ResetUnusedIOZones
<1>1. IInv' /\ LocalStep(t) BY ResetUnusedIOZonesKeeps DEF Quiet
<1>2. PICK z \in Zones : z = scan[t].i BY <1>0, AtZone
<1>3. /\ zone[z].busy = None /\ pc[t] = "reset" /\ puts[t] = <<>> /\ zn[t] = 0
      /\ scan[t].cand = 0
  <2>1. zone[z].busy = None /\ pc[t] = "reset" /\ puts[t] = <<>> BY <1>0, <1>2, AtZone
  <2> QED BY <2>1, NoZone, NoCandidate
<1>4. /\ UNCHANGED <<active_io_zones_, zn, left, pend, ext, job, lost>>
      /\ scan'[t].cand = 0
  BY <1>3, Rewound, Advanced DEF ResetUnusedIOZones, Skip, IInv, CoreType
<1>5. /\ DataType /\ JobsOK /\ Sound(z) /\ zone[z] \in ZoneRecs /\ left \in [Writers -> Nat]
      /\ t \in Writers => Backed(t)
  BY DEF DInv, DataType, ZoneData
<1>6. t \in Migrators => job[t].tgt = 0
  BY <1>3, NoTarget
<1>7. CASE zone' = zone /\ puts' = puts /\ pc'[t] \in {"reset", Rest(t)}
  <2>1. /\ t \in Writers => pc'[t] \in {"reset", "idle"}
        /\ t \in Migrators => pc'[t] \in {"reset", "none"}
    BY <1>7 DEF Rest
  <2>2. pc'[t] # "empty" /\ pc'[t] # "copy" BY <2>1 DEF Threads
  <2>3. TokenStep(t)
    BY <1>1, <1>3, <1>4, <1>7, <2>2, HoldingActive DEF TokenStep, IInv, CoreType
  <2> QED BY <1>1, <1>3, <1>4, <1>5, <1>6, <1>7, <2>1, <2>2, <2>3, NoNeed, SameZones, StillStep
<1>8. CASE /\ ~IsEmpty(z) /\ ~IsUsed(z) /\ zone' = [zone EXCEPT ![z] = Reset(zone[z])]
           /\ puts'[t] = IF IsFull(z) THEN <<>> ELSE <<"active">>
           /\ pc' = pc
  <2> DEFINE r == Reset(zone[z])
  <2>1. r \in ZoneRecs /\ r.used = zone[z].used /\ r.wp = 0 /\ r.capacity = Capacity
    BY <1>5, ResetRec
  <2>2. zone' = [zone EXCEPT ![z] = r] BY <1>8
  <2> HIDE DEF r
  <2>3. ZoneData' /\ zone'[z] = r /\ \A y \in Zones \ {z} : zone'[y] = zone[y]
    BY <1>5, <2>1, <2>2, UpdateRec DEF DataType
  <2>4. DataType' BY <1>4, <1>5, <2>3 DEF DataType
  <2>5. Sound(z)'
    BY <1>5, <1>8, <2>1, <2>3, AllocatorAssumption, SMTT(20) DEF Sound, IsUsed, ZoneRecs
  <2>6. t \in Writers => Backed(t)' BY <1>3, <1>4, <1>5 DEF Backed
  <2>7. JobsOK' BY <1>1, <1>3, <1>4, <1>5, <1>6, <1>8, JobsKept
  <2>8. HandsOver(t, z)
    <3>1. ~Partly(z)' BY <2>1, <2>3 DEF Partly, IsEmpty
    <3>2. Partly(z) <=> ~IsFull(z) BY <1>8 DEF Partly
    <3>3. ~HoldsActive(t)
      BY <1>1, <1>3, HoldingActive, ActiveDebts DEF IInv, CoreType
    <3>4. HoldsActive(t)' <=> ~IsFull(z)
      BY <1>1, <1>3, <1>4, <1>8, HoldingActive, ActiveDebts DEF IInv, CoreType
    <3> QED BY <1>4, <3>1, <3>2, <3>3, <3>4 DEF HandsOver
  <2>9. \A y \in Zones \ {z} : Calm(y) BY <1>5, <2>3, CalmOthers DEF DataType
  <2>10. Fit(t)' BY <1>3, <1>4, <1>8, NoNeed
  <2>11. /\ \A m \in Migrators : job'[m].len = job[m].len
         /\ \A w \in Writers : pend'[w] = pend[w]
    BY <1>4
  <2>12. Ledger BY <1>4, <2>1, <2>3, SameBooks
  <2> QED BY <1>1, <1>3, <2>4, <2>5, <2>6, <2>7, <2>8, <2>9, <2>10, <2>11, <2>12, TouchStep
<1> QED BY <1>2, <1>3, <1>7, <1>8
    DEF ResetUnusedIOZones, Skip, PutBack, Goto, IInv, CoreType, PcType, PutsType

\* A step that only counts fewer blocks as used, and moves no token.
LEMMA FreeStep ==
  ASSUME IInv, IInv', DInv, NEW t \in Threads, LocalStep(t), DataType', JobsOK',
         \A z \in Zones : Calm(z), pend' = pend,
         \A m \in Migrators : job'[m].len = job[m].len,
         UNCHANGED <<active_io_zones_, lost>>,
         zn[t] = 0, zn'[t] = 0, scan'[t].cand = 0, puts' = puts,
         pc[t] # "empty", pc'[t] \notin {"empty", "copy"}
  PROVE  DInv' /\ ActiveStep(t)
<1> USE Consts
<1>1. PICK z \in Zones : TRUE
  <2>1. 1 \in Zones BY SMTT(20) DEF Zones
  <2> QED BY <2>1
<1>2. t \in Writers => Backed(t)'
  BY DEF DInv, Backed
<1>3. HandsOver(t, z)
  <2>1. Partly(z)' <=> Partly(z) BY DEF Calm, Partly, IsEmpty, IsFull
  <2>2. HoldsActive(t)' <=> HoldsActive(t)
    BY HoldingActive DEF IInv, CoreType
  <2> QED BY <2>1, <2>2 DEF HandsOver
<1> QED BY <1>2, <1>3, NoNeed, TouchStep

\* DeleteFile keeps the data in order: a migrator that has the file keeps its
\* extents.
LEMMA DeleteFileData ==
  ASSUME IInv, DInv, NEW w \in Writers, DeleteFile(w)
  PROVE  DInv' /\ ActiveStep(w) /\ Ledger
<1> USE Consts
<1>1. IInv' /\ LocalStep(w) BY DeleteFileKeeps DEF Quiet
<1>2. /\ pc[w] = "closed" /\ pc'[w] = "reset" /\ zn[w] = 0 /\ zn' = zn /\ scan'[w].cand = 0
      /\ UNCHANGED <<active_io_zones_, puts, left, pend, lost>>
  BY NoZone, NoCandidate DEF DeleteFile, Goto, IInv, CoreType, PcType
<1>3. /\ DataType /\ OneJob /\ ext \in [Threads -> [Zones -> Nat]]
      /\ \A m \in Migrators : JobOK(m) /\ job[m] \in Jobs
  BY DEF DInv, DataType, JobsOK
<1>4. NoExtents \in [Zones -> Nat] BY SMTT(20) DEF NoExtents
<1>5. \A u \in Threads \ {w} : pc'[u] = pc[u] \/ (pc[u] = "asleep" /\ pc'[u] = "wait")
  BY <1>1 DEF LocalStep
<1>6. \A m \in Migrators : pc'[m] = pc[m]
  BY <1>1 DEF LocalStep
<1>7. CASE /\ \A m \in Migrators : job[m].file # w
           /\ zone' = ClearExtents(w) /\ ext' = [ext EXCEPT ![w] = NoExtents] /\ job' = job
  <2>1. ASSUME NEW z \in Zones
        PROVE  /\ zone'[z] \in ZoneRecs /\ Calm(z)
               /\ zone'[z].used = zone[z].used + (-ext[w][z])
    <3>1. zone'[z] = Use(zone[z], -ext[w][z]) BY <1>7 DEF ClearExtents
    <3>2. zone[z] \in ZoneRecs /\ ext[w][z] \in Nat
      <4>1. ext[w] \in [Zones -> Nat] BY <1>3
      <4>2. zone \in [Zones -> ZoneRecs] BY <1>3 DEF DataType, ZoneData
      <4> QED BY <4>1, <4>2
    <3>3. -ext[w][z] \in Int BY <3>2, SMTT(20)
    <3>4. /\ Use(zone[z], -ext[w][z]) \in ZoneRecs
          /\ Use(zone[z], -ext[w][z]).used = zone[z].used + (-ext[w][z])
          /\ Use(zone[z], -ext[w][z]).wp = zone[z].wp
          /\ Use(zone[z], -ext[w][z]).capacity = zone[z].capacity
      BY <3>2, <3>3, UseRec
    <3>5. zone[z].used + (-ext[w][z]) <= zone[z].used
      BY <3>2, SMTT(20) DEF ZoneRecs
    <3> QED BY <3>1, <3>4, <3>5 DEF Calm
  <2>2. ZoneData' BY <2>1, <1>7 DEF ZoneData, ClearExtents
  <2>3. /\ ext' \in [Threads -> [Zones -> Nat]] /\ \A u \in Threads \ {w} : ext'[u] = ext[u]
    BY <1>3, <1>4, <1>7
  <2>4. DataType' BY <1>2, <1>3, <1>7, <2>2, <2>3 DEF DataType
  <2>5. ASSUME NEW m \in Migrators PROVE JobOK(m)'
    <3>1. JobOK(m) /\ job'[m] = job[m] /\ pc'[m] = pc[m] /\ ext'[m] = ext[m]
          /\ job[m].file # w
      BY <1>3, <1>6, <1>7, <2>3
    <3>2. job[m].file # None => ext'[job[m].file] = ext[job[m].file]
      BY <3>1, <2>3 DEF JobOK
    <3>3. job[m].file \in Writers => pc'[job[m].file] = pc[job[m].file]
      BY <3>1, <1>5 DEF JobOK
    <3> QED BY <3>1, <3>2, <3>3 DEF JobOK
  <2>6. JobsOK' BY <1>3, <1>7, <2>5 DEF JobsOK, OneJob
  <2>7. Ledger
    <3>1. \A x \in Threads, z \in Zones : CopiedBy(x, z)' = CopiedBy(x, z)
      BY <1>7 DEF CopiedBy
    <3>2. ASSUME NEW z \in Zones
          PROVE  zone'[z].used - ext'[w][z] - CopiedBy(w, z)
                 = zone[z].used - ext[w][z] - CopiedBy(w, z)
      <4>1. ext'[w][z] = 0 BY <1>3, <1>7 DEF NoExtents
      <4>2. zone[z].used \in Int BY <1>3, SMTT(20) DEF DataType, ZoneData, ZoneRecs
      <4>3. ext[w] \in [Zones -> Nat] BY <1>3
      <4>4. ext[w][z] \in Nat /\ CopiedBy(w, z) \in Nat BY <1>3, <4>3, CopiedNat DEF DataType
      <4> QED BY <2>1, <4>1, <4>2, <4>4, SMTT(20)
    <3>3. Books(w, w) BY <2>3, <3>1, <3>2 DEF Books
    <3> QED BY <3>3 DEF Ledger
  <2> QED BY <1>1, <1>2, <1>7, <2>1, <2>4, <2>6, <2>7, FreeStep
<1>8. ASSUME NEW m \in Migrators, job[m].file = w, zone' = zone,
             ext' = [ext EXCEPT ![m] = ext[w], ![w] = NoExtents],
             job' = [job EXCEPT ![m] = Orphan(job[m], m)]
      PROVE  DInv' /\ ActiveStep(w) /\ Ledger
  <2>1. \A z \in Zones : Calm(z)
    BY <1>3, <1>8, SMTT(20) DEF Calm, DataType, ZoneData, ZoneRecs
  <2>2. /\ ext' \in [Threads -> [Zones -> Nat]] /\ ext'[m] = ext[w]
        /\ \A u \in Threads \ {w, m} : ext'[u] = ext[u]
    BY <1>3, <1>4, <1>8
  <2>3. /\ Orphan(job[m], m) \in Jobs /\ Orphan(job[m], m).file = m
        /\ Orphan(job[m], m).src = job[m].src /\ Orphan(job[m], m).tgt = job[m].tgt
        /\ Orphan(job[m], m).len = job[m].len
    BY <1>3, SMTT(20) DEF Jobs, Orphan
  <2>4. /\ job' \in [Migrators -> Jobs] /\ job'[m] = Orphan(job[m], m)
        /\ \A o \in Migrators \ {m} : job'[o] = job[o]
    BY <1>3, <1>8, <2>3 DEF DataType
  <2>5. DataType' BY <1>2, <1>3, <1>8, <2>2, <2>4 DEF DataType, ZoneData
  <2>6. \A o \in Migrators : job'[o].len = job[o].len BY <2>3, <2>4
  <2>7. ASSUME NEW o \in Migrators \ {m} PROVE JobOK(o)'
    <3>1. JobOK(o) /\ job'[o] = job[o] /\ pc'[o] = pc[o] /\ ext'[o] = ext[o]
          /\ job[o].file # w
      <4>1. o \in Threads \ {w, m} BY Consts
      <4>2. ext'[o] = ext[o] BY <2>2, <4>1
      <4>3. job[o].file # w BY <1>3, <1>8 DEF OneJob
      <4> QED BY <1>3, <1>6, <2>4, <4>2, <4>3
    <3>2. job[o].file \in Threads => job[o].file \in Threads \ {w, m}
      BY <3>1 DEF JobOK
    <3>3. job[o].file # None => ext'[job[o].file] = ext[job[o].file]
      BY <3>1, <3>2, <2>2 DEF JobOK
    <3>4. job[o].file \in Writers => pc'[job[o].file] = pc[job[o].file]
      BY <3>1, <3>2, <1>5 DEF JobOK
    <3> QED BY <3>1, <3>3, <3>4 DEF JobOK
  <2>8. JobOK(m)'
    <3>1. JobOK(m) /\ job[m].file # None /\ pc'[m] = pc[m] BY <1>3, <1>6, <1>8
    <3>2. /\ job'[m].file = m /\ job'[m].src = job[m].src /\ job'[m].tgt = job[m].tgt
          /\ job'[m].len = job[m].len
      BY <2>3, <2>4
    <3>3. job[m].src \in Zones /\ job[m].len <= ext'[m][job[m].src]
      BY <3>1, <1>8, <2>2 DEF JobOK
    <3> QED BY <3>1, <3>2, <3>3 DEF JobOK
  <2>9. OneJob'
    <3>1. \A o \in Migrators : job'[o].file \in Writers => job'[o] = job[o]
      BY <2>3, <2>4
    <3> QED BY <3>1, <1>3 DEF OneJob
  <2>10. JobsOK' BY <2>7, <2>8, <2>9 DEF JobsOK
  <2>11. Ledger
    <3>1. \A o \in Migrators : job'[o].tgt = job[o].tgt /\ job'[o].len = job[o].len
      BY <2>3, <2>4
    <3>2. \A x \in Threads, z \in Zones : CopiedBy(x, z)' = CopiedBy(x, z)
      BY <3>1 DEF CopiedBy
    <3>3. ext[m] = NoExtents
      <4>1. job[m].file # m => ext[m] = NoExtents BY <1>3 DEF JobOK
      <4> QED BY <1>8, <4>1
    <3>4. ext'[w] = NoExtents /\ w # m BY <1>3, <1>8
    <3>5. ext'[m] = ext[w] /\ \A x \in Threads \ {w, m} : ext'[x] = ext[x] BY <2>2
    <3>6. \A z \in Zones : zone'[z].used = zone[z].used BY <1>8
    <3>7. Disowns(w, m) BY <3>2, <3>3, <3>4, <3>5, <3>6 DEF Disowns
    <3> QED BY <3>7 DEF Ledger
  <2> QED BY <1>1, <1>2, <2>1, <2>5, <2>6, <2>10, <2>11, FreeStep
<1> QED BY <1>7, <1>8 DEF DeleteFile

\* StartMigration keeps the data in order.
LEMMA StartMigrationData ==
  ASSUME IInv, DInv, NEW m \in Migrators, StartMigration(m)
  PROVE  DInv' /\ ActiveStep(m) /\ Ledger
<1> USE Consts
<1>1. IInv' /\ LocalStep(m) BY StartMigrationKeeps DEF Quiet
<1>2. /\ pc[m] = "none" /\ pc'[m] = "take" /\ zn[m] = 0 /\ zn' = zn /\ scan'[m].cand = 0
      /\ \A u \in Threads \ {m} : pc'[u] = pc[u]
      /\ UNCHANGED <<zone, active_io_zones_, puts, left, pend, ext, lost>>
  BY NoZone, NoCandidate DEF StartMigration, Goto, IInv, CoreType, PcType
<1>3. PICK f \in Writers, z \in Zones :
        /\ pc[f] = "closed" /\ \A o \in Migrators : job[o].file # f
        /\ job' = [job EXCEPT ![m] = Move(f, z)]
  BY DEF StartMigration
<1>4. DataType /\ OneJob /\ \A o \in Migrators : JobOK(o)
  BY DEF DInv, JobsOK
<1>5. /\ Move(f, z) \in Jobs /\ Move(f, z).file = f /\ Move(f, z).src = z
      /\ Move(f, z).tgt = 0 /\ Move(f, z).len = ext[f][z] /\ ext[f][z] \in Nat
  <2>1. ext[f][z] \in Nat
    <3>1. ext \in [Threads -> [Zones -> Nat]] BY <1>4 DEF DataType
    <3>2. ext[f] \in [Zones -> Nat] BY <3>1
    <3> QED BY <3>2
  <2>2. z \in 0..NrZones BY SMTT(20) DEF Zones
  <2> QED BY <2>1, <2>2, SMTT(20) DEF Move, Jobs
<1>6. /\ job' \in [Migrators -> Jobs] /\ job'[m] = Move(f, z)
      /\ \A o \in Migrators \ {m} : job'[o] = job[o]
  BY <1>3, <1>4, <1>5 DEF DataType
<1>7. DataType' BY <1>2, <1>4, <1>6 DEF DataType, ZoneData
<1>8. ASSUME NEW o \in Migrators \ {m} PROVE JobOK(o)'
  <2>1. JobOK(o) /\ job'[o] = job[o] /\ pc'[o] = pc[o] BY <1>2, <1>4, <1>6
  <2>2. job[o].file \in Writers => pc'[job[o].file] = pc[job[o].file] BY <1>2
  <2> QED BY <2>1, <2>2, <1>2 DEF JobOK
<1>9. JobOK(m)'
  <2>0. JobOK(m) /\ m # None BY <1>4
  <2>1. ext[m] = NoExtents
    <3>1. job[m].file = None BY <1>2, <2>0 DEF JobOK
    <3>2. job[m].file # m => ext[m] = NoExtents BY <2>0 DEF JobOK
    <3> QED BY <2>0, <3>1, <3>2
  <2>2. ext[f][z] <= ext[f][z] BY <1>5, SMTT(20)
  <2>3. pc'[f] = "closed" BY <1>2, <1>3
  <2> QED BY <1>2, <1>5, <1>6, <2>1, <2>2, <2>3 DEF JobOK
<1>10. OneJob'
  BY <1>3, <1>4, <1>5, <1>6 DEF OneJob
<1>11. JobsOK' BY <1>8, <1>9, <1>10 DEF JobsOK
<1>12. PICK y \in Zones : y = z OBVIOUS
<1>13. \A x \in Zones : Calm(x)
  BY <1>2, <1>4, SMTT(20) DEF Calm, DataType, ZoneData, ZoneRecs
<1>14. HandsOver(m, y)
  <2>1. Partly(y)' <=> Partly(y) BY <1>2 DEF Partly, IsEmpty, IsFull
  <2>2. HoldsActive(m)' <=> HoldsActive(m)
    BY <1>1, <1>2, HoldingActive DEF IInv, CoreType
  <2> QED BY <1>2, <2>1, <2>2 DEF HandsOver
<1>15. /\ \A o \in Migrators \ {m} : job'[o].len = job[o].len
       /\ \A w \in Writers : pend'[w] = pend[w]
  BY <1>2, <1>6
<1>16. Ledger
  <2>1. job[m].tgt = 0 BY <1>2, NoTarget
  <2>2. \A u \in Threads, x \in Zones : CopiedBy(u, x)' = CopiedBy(u, x)
    BY <1>5, <1>6, <2>1 DEF CopiedBy
  <2>3. Books(m, m) BY <1>2, <2>2 DEF Books
  <2> QED BY <2>3 DEF Ledger
<1> QED BY <1>1, <1>2, <1>7, <1>11, <1>13, <1>14, <1>15, <1>16, NoNeed, TouchStep

\* MigrateData keeps the data in order; the token of a zone it fills is lost.
LEMMA MigrateDataData ==
  ASSUME IInv, DInv, NEW m \in Migrators, MigrateData(m)
  PROVE  DInv' /\ ActiveStep(m) /\ Ledger
<1> USE Consts
<1>0. pc[m] = "copy" /\ zn[m] \in Zones BY CopyHasZone DEF MigrateData
<1>1. PICK z \in Zones : z = zn[m] BY <1>0
<1> DEFINE n == job[m].len
           a == Append1(zone[z], n)
           r == IF job[m].file # m THEN Use(a, n) ELSE a
           j == Copy(job[m], IF job[m].file # m THEN z ELSE 0)
<1>2. IInv' /\ LocalStep(m) BY MigrateDataKeeps DEF Quiet
<1>3. /\ pc'[m] = "release" /\ zone[z].busy = m /\ z # 0 /\ zn' = zn /\ scan'[m].cand = 0
      /\ UNCHANGED <<active_io_zones_, puts, left, pend, ext>> /\ puts[m] = <<>>
      /\ zone' = [zone EXCEPT ![z] = r] /\ job' = [job EXCEPT ![m] = j]
      /\ lost'.active = IF a.capacity = 0 THEN lost.active + 1 ELSE lost.active
      /\ \A u \in Threads \ {m} : pc'[u] = pc[u]
  BY <1>0, <1>1, Mine, NoCandidate, NoDebt
  DEF MigrateData, Goto, IInv, CoreType, PcType, LostType
<1>4. /\ DataType /\ OneJob /\ Sound(z) /\ zone[z] \in ZoneRecs /\ job[m] \in Jobs
      /\ Ripe(m, z) /\ \A o \in Migrators : JobOK(o)
  BY <1>0, <1>1 DEF DInv, DataType, ZoneData, JobsOK, Fit
<1>5. n \in Nat /\ n \in Int /\ n <= zone[z].capacity
  BY <1>4, SMTT(20) DEF Jobs, Ripe
<1>6. /\ a \in ZoneRecs /\ a.used = zone[z].used
      /\ a.wp = zone[z].wp + n /\ a.capacity = zone[z].capacity - n
  BY <1>4, <1>5, AppendRec
<1>7. /\ j \in Jobs /\ j.file = job[m].file /\ j.src = job[m].src /\ j.len = n
      /\ j.tgt = IF job[m].file # m THEN z ELSE 0
  <2>1. z \in 0..NrZones /\ 0 \in 0..NrZones BY SMTT(20) DEF Zones
  <2> DEFINE y == IF job[m].file # m THEN z ELSE 0
  <2>2. y \in 0..NrZones BY <2>1
  <2> HIDE DEF y
  <2>3. /\ Copy(job[m], y) \in Jobs /\ Copy(job[m], y).file = job[m].file
        /\ Copy(job[m], y).src = job[m].src /\ Copy(job[m], y).len = job[m].len
        /\ Copy(job[m], y).tgt = y
    BY <1>4, <2>2, SMTT(20) DEF Jobs, Copy
  <2> QED BY <2>3 DEF y
<1> HIDE DEF a, j
<1>8. /\ r \in ZoneRecs /\ r.wp = a.wp /\ r.capacity = a.capacity
      /\ r.used = a.used \/ r.used = a.used + n
      /\ r.used = IF job[m].file # m THEN a.used + n ELSE a.used
  BY <1>5, <1>6, UseRec
<1> HIDE DEF r
<1>9. ZoneData' /\ zone'[z] = r /\ \A y \in Zones \ {z} : zone'[y] = zone[y]
  BY <1>3, <1>4, <1>8, UpdateRec DEF DataType
<1>10. /\ job' \in [Migrators -> Jobs] /\ job'[m] = j
       /\ \A o \in Migrators \ {m} : job'[o] = job[o]
  BY <1>3, <1>4, <1>7 DEF DataType
<1>11. lost'.active \in Nat BY <1>3, <1>4, SMTT(20) DEF DataType
<1>12. DataType' BY <1>3, <1>4, <1>9, <1>10, <1>11 DEF DataType
<1>13. Sound(z)'
  <2> HIDE DEF n
  <2> QED BY <1>4, <1>5, <1>6, <1>8, <1>9, SMTT(20) DEF Sound, ZoneRecs
<1>14. ASSUME NEW o \in Migrators \ {m} PROVE JobOK(o)'
  <2>1. JobOK(o) /\ job'[o] = job[o] /\ pc'[o] = pc[o] BY <1>3, <1>4, <1>10
  <2>2. job[o].file \in Writers => pc'[job[o].file] = pc[job[o].file] BY <1>3
  <2> QED BY <2>1, <2>2, <1>3 DEF JobOK
<1>15. JobOK(m)'
  <2>1. JobOK(m) BY <1>4
  <2>2. job[m].file \in Writers => pc'[job[m].file] = pc[job[m].file] BY <1>3
  <2> QED BY <1>0, <1>3, <1>7, <1>10, <2>1, <2>2 DEF JobOK
<1>16. OneJob'
  <2>1. \A o \in Migrators : job'[o].file = job[o].file BY <1>7, <1>10
  <2> QED BY <1>4, <2>1 DEF OneJob
<1>17. JobsOK' BY <1>14, <1>15, <1>16 DEF JobsOK
<1>18. HandsOver(m, z)
  <2>1. Partly(z) BY <1>4 DEF Ripe
  <2>2. HoldsActive(m)' <=> HoldsActive(m)
    BY <1>0, <1>2, <1>3, HoldingActive DEF IInv, CoreType
  <2>3. Partly(z)' <=> a.capacity # 0
    <3>1. zone'[z].wp # 0
      <4> HIDE DEF n
      <4> QED BY <1>4, <1>5, <1>6, <1>8, <1>9, <2>1, SMTT(20) DEF Partly, IsEmpty, ZoneRecs
    <3> QED BY <3>1, <1>8, <1>9 DEF Partly, IsEmpty, IsFull
  <2> QED BY <1>3, <2>1, <2>2, <2>3 DEF HandsOver
<1>19. \A y \in Zones \ {z} : Calm(y) BY <1>4, <1>9, CalmOthers DEF DataType
<1>20. /\ \A o \in Migrators \ {m} : job'[o].len = job[o].len
       /\ \A w \in Writers : pend'[w] = pend[w]
  BY <1>3, <1>10
<1>21. Ledger
  <2>1. job[m].tgt = 0 BY <1>0, NoTarget
  <2>2. ASSUME NEW y \in Zones
        PROVE  /\ CopiedBy(m, y) = 0
               /\ CopiedBy(m, y)' = IF job[m].file # m /\ y = z THEN n ELSE 0
    BY <1>7, <1>10, <2>1 DEF CopiedBy
  <2>3. \A x \in Threads \ {m}, y \in Zones : CopiedBy(x, y)' = CopiedBy(x, y)
    BY <1>10 DEF CopiedBy
  <2>4. ASSUME NEW y \in Zones
        PROVE  zone'[y].used - ext'[m][y] - CopiedBy(m, y)'
               = zone[y].used - ext[m][y] - CopiedBy(m, y)
    <3>1. zone[y].used \in Int BY <1>4, SMTT(20) DEF DataType, ZoneData, ZoneRecs
    <3>2. ext[m][y] \in Nat /\ ext' = ext
      <4>1. ext[m] \in [Zones -> Nat] BY <1>4 DEF DataType
      <4> QED BY <1>3, <4>1
    <3>3. zone'[y].used = zone[y].used + (IF job[m].file # m /\ y = z THEN n ELSE 0)
      <4> HIDE DEF n
      <4>1. CASE y = z BY <1>6, <1>8, <1>9, <3>1, <4>1, SMTT(20)
      <4>2. CASE y # z BY <1>9, <3>1, <4>2, SMTT(20)
      <4> QED BY <4>1, <4>2
    <3> HIDE DEF n
    <3> QED BY <1>5, <2>2, <3>1, <3>2, <3>3, SMTT(20)
  <2>5. Books(m, m) BY <1>3, <2>3, <2>4 DEF Books
  <2> QED BY <2>5 DEF Ledger
<1> QED BY <1>2, <1>3, <1>12, <1>13, <1>17, <1>18, <1>19, <1>20, <1>21, NoNeed, TouchStep

\* What SyncFileExtents leaves of the file's blocks in a zone, and how many
\* blocks it stops counting there.
Exchanged(m, z) ==
  LET j == job[m]
  IN IF j.tgt = 0 THEN ext[j.file][z]
     ELSE ext[j.file][z] + (IF z = j.tgt THEN j.len ELSE 0) - (IF z = j.src THEN j.len ELSE 0)
Freed(m, z) ==
  (IF job[m].tgt # 0 /\ z = job[m].src THEN job[m].len ELSE 0)
  + (IF job[m].file = m THEN Exchanged(m, z) ELSE 0)

\* SyncFileExtents, zone by zone.
LEMMA SyncData ==
  ASSUME IInv, DInv, NEW m \in Migrators, SyncFileExtents(m)
  PROVE  /\ job[m].file \in Writers \union {m} /\ job[m].file \in Threads
         /\ \A z \in Zones : /\ Exchanged(m, z) \in Nat /\ Freed(m, z) \in Nat
                             /\ zone'[z] \in ZoneRecs
                             /\ zone'[z].used = zone[z].used - Freed(m, z)
                             /\ zone'[z].wp = zone[z].wp
                             /\ zone'[z].capacity = zone[z].capacity
         /\ ZoneData' /\ ext' \in [Threads -> [Zones -> Nat]]
         /\ \A u \in Threads \ {job[m].file} : ext'[u] = ext[u]
         /\ job[m].file = m => ext'[m] = NoExtents
         /\ job[m].file # m => \A z \in Zones : ext'[job[m].file][z] = Exchanged(m, z)
<1> USE Consts
<1> DEFINE f == job[m].file
           moved == [z \in Zones |-> Exchanged(m, z)]
<1>1. /\ DataType /\ ext \in [Threads -> [Zones -> Nat]] /\ JobOK(m) /\ job[m] \in Jobs
      /\ pc[m] = "sync"
  BY DEF DInv, JobsOK, DataType, SyncFileExtents
<1>2. /\ f \in Writers \union {m} /\ f \in Threads /\ job[m].src \in Zones
      /\ job[m].len <= ext[f][job[m].src] /\ job[m].len \in Nat
  <2>1. job[m].len \in Nat BY <1>1, SMTT(20) DEF Jobs
  <2> QED BY <1>1, <2>1 DEF JobOK
<1>3. ASSUME NEW z \in Zones PROVE Exchanged(m, z) \in Nat /\ Freed(m, z) \in Nat
  <2>1. ext[f][z] \in Nat BY <1>1, <1>2
  <2>2. Exchanged(m, z) \in Nat
    <3>1. CASE z = job[m].src
      BY <3>1, <2>1, <1>2, SMTT(20) DEF Exchanged
    <3>2. CASE z # job[m].src
      BY <3>2, <2>1, <1>2, SMTT(20) DEF Exchanged
    <3> QED BY <3>1, <3>2
  <2> QED BY <2>2, <1>2, SMTT(20) DEF Freed
<1>4. /\ zone' = [z \in Zones |-> Use(zone[z], -Freed(m, z))]
      /\ ext' = [ext EXCEPT ![f] = IF f = m THEN NoExtents ELSE moved]
  <2> DEFINE g == IF job[m].tgt = 0 THEN ext[f]
                  ELSE [z \in Zones |-> ext[f][z]
                       + (IF z = job[m].tgt THEN job[m].len ELSE 0)
                       - (IF z = job[m].src THEN job[m].len ELSE 0)]
             h == [z \in Zones |->
                     (IF job[m].tgt # 0 /\ z = job[m].src THEN job[m].len ELSE 0)
                     + (IF f = m THEN g[z] ELSE 0)]
  <2>1. /\ zone' = [z \in Zones |-> Use(zone[z], -h[z])]
        /\ ext' = [ext EXCEPT ![f] = IF f = m THEN NoExtents ELSE g]
    BY DEF SyncFileExtents
  <2>2. ext[f] = [z \in Zones |-> ext[f][z]] BY <1>1, <1>2
  <2>3. g = moved BY <2>2 DEF Exchanged
  <2>4. ASSUME NEW z \in Zones PROVE h[z] = Freed(m, z)
    <3>1. g[z] = Exchanged(m, z) BY <2>3
    <3> HIDE DEF g
    <3> QED BY <3>1 DEF Freed
  <2> HIDE DEF g, h
  <2> QED BY <2>1, <2>3, <2>4
<1>5. ASSUME NEW z \in Zones
      PROVE  /\ zone'[z] \in ZoneRecs /\ zone'[z].used = zone[z].used - Freed(m, z)
             /\ zone'[z].wp = zone[z].wp /\ zone'[z].capacity = zone[z].capacity
  <2>1. zone[z] \in ZoneRecs /\ Freed(m, z) \in Nat BY <1>1, <1>3 DEF DataType, ZoneData
  <2>2. -Freed(m, z) \in Int BY <2>1, SMTT(20)
  <2>3. zone'[z] = Use(zone[z], -Freed(m, z)) BY <1>4
  <2>4. zone[z].used + (-Freed(m, z)) = zone[z].used - Freed(m, z)
    BY <2>1, SMTT(20) DEF ZoneRecs
  <2>5. LET s == Use(zone[z], -Freed(m, z)) IN
          /\ s \in ZoneRecs /\ s.used = zone[z].used + (-Freed(m, z))
          /\ s.wp = zone[z].wp /\ s.capacity = zone[z].capacity
    BY <2>1, <2>2, UseRec
  <2> QED BY <2>3, <2>4, <2>5
<1>6. ZoneData' BY <1>4, <1>5 DEF ZoneData
<1>7. /\ moved \in [Zones -> Nat] /\ NoExtents \in [Zones -> Nat]
      /\ \A z \in Zones : moved[z] = Exchanged(m, z)
  BY <1>3, SMTT(20) DEF NoExtents
<1> HIDE DEF moved
<1>8. /\ ext' \in [Threads -> [Zones -> Nat]]
      /\ \A u \in Threads \ {f} : ext'[u] = ext[u]
      /\ f = m => ext'[m] = NoExtents
      /\ f # m => ext'[f] = moved
  BY <1>1, <1>2, <1>4, <1>7
<1> QED BY <1>2, <1>3, <1>5, <1>6, <1>7, <1>8

\* SyncFileExtents keeps the data in order.
LEMMA SyncFileExtentsData ==
  ASSUME IInv, DInv, NEW m \in Migrators, SyncFileExtents(m)
  PROVE  DInv' /\ ActiveStep(m) /\ Ledger
<1> USE Consts
<1>1. IInv' /\ LocalStep(m) BY SyncFileExtentsKeeps DEF Quiet
<1>2. /\ pc[m] = "sync" /\ pc'[m] = "reset" /\ zn[m] = 0 /\ zn' = zn /\ scan'[m].cand = 0
      /\ UNCHANGED <<active_io_zones_, puts, left, pend, lost>>
      /\ job' = [job EXCEPT ![m] = NoJob]
      /\ \A u \in Threads \ {m} : pc'[u] = pc[u]
  BY NoZone, NoCandidate DEF SyncFileExtents, Goto, IInv, CoreType, PcType
<1>3. DataType /\ OneJob /\ \A o \in Migrators : JobOK(o)
  BY DEF DInv, JobsOK
<1>4. /\ job[m].file \in Writers \union {m}
      /\ ZoneData' /\ ext' \in [Threads -> [Zones -> Nat]]
      /\ \A u \in Threads \ {job[m].file} : ext'[u] = ext[u]
      /\ job[m].file = m => ext'[m] = NoExtents
  <2> USE SyncData
  <2>1. job[m].file \in Writers \union {m} OBVIOUS
  <2>2. ZoneData' /\ ext' \in [Threads -> [Zones -> Nat]] OBVIOUS
  <2>3. \A u \in Threads \ {job[m].file} : ext'[u] = ext[u] OBVIOUS
  <2>4. job[m].file = m => ext'[m] = NoExtents OBVIOUS
  <2> QED BY <2>1, <2>2, <2>3, <2>4
<1>5. ASSUME NEW z \in Zones PROVE Calm(z)
  <2>1. /\ zone'[z].used = zone[z].used - Freed(m, z) /\ Freed(m, z) \in Nat
        /\ zone'[z].wp = zone[z].wp /\ zone'[z].capacity = zone[z].capacity
    BY SyncData
  <2>2. zone[z].used \in Int BY <1>3, SMTT(20) DEF DataType, ZoneData, ZoneRecs
  <2>3. zone'[z].used <= zone[z].used BY <2>1, <2>2, SMTT(20)
  <2> QED BY <2>1, <2>3 DEF Calm
<1>6. /\ NoJob \in Jobs /\ NoJob.file = None /\ NoJob.tgt = 0
  BY SMTT(20) DEF NoJob, Jobs
<1>7. /\ job' \in [Migrators -> Jobs] /\ job'[m] = NoJob
      /\ \A o \in Migrators \ {m} : job'[o] = job[o]
  BY <1>2, <1>3, <1>6 DEF DataType
<1>8. DataType' BY <1>2, <1>3, <1>4, <1>7 DEF DataType
<1>9. ASSUME NEW o \in Migrators \ {m} PROVE JobOK(o)'
  <2>1. /\ JobOK(o) /\ job'[o] = job[o] /\ pc'[o] = pc[o] /\ ext'[o] = ext[o]
    <3>1. o \in Threads \ {job[m].file} BY <1>4
    <3> QED BY <1>2, <1>3, <1>4, <1>7, <3>1
  <2>2. job[o].file \in Writers => pc'[job[o].file] = pc[job[o].file] BY <1>2
  <2>3. job[o].file # None => job[o].file \in Threads \ {job[m].file}
    <3>1. job[o].file \in Writers \union {o, None} BY <2>1 DEF JobOK
    <3>2. job[o].file \in Writers => job[o].file # job[m].file BY <1>3 DEF OneJob
    <3>3. o # job[m].file BY <1>4
    <3> QED BY <3>1, <3>2, <3>3
  <2> QED BY <1>4, <2>1, <2>2, <2>3 DEF JobOK
<1>10. JobOK(m)'
  <2>1. ext'[m] = NoExtents
    <3>1. job[m].file # m => ext[m] = NoExtents BY <1>3 DEF JobOK
    <3>2. job[m].file # m => ext'[m] = ext[m] BY <1>4
    <3> QED BY <1>4, <3>1, <3>2
  <2> QED BY <1>2, <1>6, <1>7, <2>1 DEF JobOK
<1>11. OneJob' BY <1>3, <1>6, <1>7 DEF OneJob
<1>12. JobsOK' BY <1>9, <1>10, <1>11 DEF JobsOK
<1>13. PICK z \in Zones : TRUE
  <2>1. 1 \in Zones BY SMTT(20) DEF Zones
  <2> QED BY <2>1
<1>14. HandsOver(m, z)
  <2>1. Partly(z)' <=> Partly(z) BY <1>5 DEF Calm, Partly, IsEmpty, IsFull
  <2>2. HoldsActive(m)' <=> HoldsActive(m)
    BY <1>1, <1>2, HoldingActive DEF IInv, CoreType
  <2> QED BY <1>2, <2>1, <2>2 DEF HandsOver
<1>15. /\ \A o \in Migrators \ {m} : job'[o].len = job[o].len
       /\ \A w \in Writers : pend'[w] = pend[w]
  BY <1>2, <1>7
<1>16. Ledger
  <2>1. PICK f \in Threads : f = job[m].file BY SyncData
  <2>2. ASSUME NEW y \in Zones PROVE CopiedBy(m, y)' = 0
    BY <1>6, <1>7 DEF CopiedBy
  <2>3. \A x \in Threads \ {m}, y \in Zones : CopiedBy(x, y)' = CopiedBy(x, y)
    BY <1>7 DEF CopiedBy
  <2>4. ASSUME NEW y \in Zones
        PROVE  zone'[y].used - ext'[f][y] - CopiedBy(m, y)'
               = zone[y].used - ext[f][y] - CopiedBy(m, y)
    <3> DEFINE j == job[m]
               u == zone[y].used
               e == ext[f][y]
               l == job[m].len
               c == CopiedBy(m, y)
               s == IF j.tgt # 0 /\ y = j.src THEN l ELSE 0
               x == Exchanged(m, y)
    <3>1. /\ u \in Int /\ e \in Nat /\ l \in Nat
      <4>1. ext[f] \in [Zones -> Nat] /\ job[m] \in Jobs BY <1>3 DEF DataType
      <4> QED BY <1>3, <4>1, SMTT(20) DEF DataType, ZoneData, ZoneRecs, Jobs
    <3>2. c \in Nat /\ s \in Nat BY <1>3, <3>1, CopiedNat, SMTT(20) DEF DataType
    <3>3. x = e + c - s
      <4>1. CASE j.tgt = 0
        <5>1. c = 0 /\ s = 0 /\ x = e BY <2>1, <4>1 DEF CopiedBy, Exchanged
        <5> QED BY <3>1, <5>1, SMTT(20)
      <4>2. CASE j.tgt # 0
        BY <2>1, <3>1, <4>2, SMTT(20) DEF CopiedBy, Exchanged
      <4> QED BY <4>1, <4>2
    <3>4. zone'[y].used = u - Freed(m, y) BY SyncData
    <3>5. CASE f = m
      <4>1. ext'[f][y] = 0 BY <1>4, <2>1, <3>5 DEF NoExtents
      <4>2. Freed(m, y) = s + x BY <2>1, <3>5 DEF Freed
      <4> HIDE DEF j, u, e, l, c, s, x
      <4>3. zone'[y].used - 0 - 0 = u - e - c
        BY <3>1, <3>2, <3>3, <3>4, <4>2, SMTT(20)
      <4> QED BY <2>2, <4>1, <4>3 DEF u, e, c
    <3>6. CASE f # m
      <4>1. ext'[f][y] = x BY <2>1, <3>6, SyncData
      <4>2. Freed(m, y) = s + 0 BY <2>1, <3>6 DEF Freed
      <4> HIDE DEF j, u, e, l, c, s, x
      <4>3. zone'[y].used - x - 0 = u - e - c
        BY <3>1, <3>2, <3>3, <3>4, <4>2, SMTT(20)
      <4> QED BY <2>2, <4>1, <4>3 DEF u, e, c, x
    <3> QED BY <3>5, <3>6
  <2>5. Books(f, m) BY <1>4, <2>1, <2>3, <2>4 DEF Books
  <2> QED BY <2>5 DEF Ledger
<1> QED BY <1>1, <1>2, <1>5, <1>8, <1>12, <1>14, <1>15, <1>16, NoNeed, TouchStep
=============================================================================
