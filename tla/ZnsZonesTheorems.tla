-------------------------- MODULE ZnsZonesTheorems --------------------------
(***************************************************************************)
(* The invariants of ZnsZones, for any geometry and any limits: the lists, *)
(* the counters and the zone states agree (ZnsZonesHandlers), the shutdown *)
(* loops stay inside their lists, and the write pointers agree with the    *)
(* states.                                                                 *)
(***************************************************************************)
EXTENDS ZnsZonesHandlers

\* Leaves are for Zenon, the ones with arithmetic or records name SMT.
USE ZenonT(20)

\* What the properties say of the pointers of device d.
PointersOK(d) ==
  \A z \in Zones :
    /\ d.zs[z] = "FULL" <=> d.wp[z] = ZoneCap
    /\ d.wp[z] <= d.w_ptr[z]
    /\ ~DmaMayFail => d.wp[z] = d.w_ptr[z]
    /\ ~DmaMayFail /\ d.zs[z] = "EMPTY" => d.w_ptr[z] = 0
    /\ ~AppendMayOverrun => d.w_ptr[z] <= ZoneCap

\* The inductive invariant.
IInv ==
  /\ Good(dev) /\ PointersOK(dev) /\ ShutdownProgress
  /\ status \in Statuses /\ phase \in {"run"} \cup ActiveStates /\ left \in Nat

-----------------------------------------------------------------------------
(* The pointers of one device after a step.                                *)

\* Zone y keeps its pointers and becomes or stays neither FULL nor EMPTY, or
\* is emptied, or is filled, or is left alone.
Follows(d, e, y) ==
  \/ /\ e.zs[y] = d.zs[y] /\ e.wp[y] = d.wp[y] /\ e.w_ptr[y] = d.w_ptr[y]
  \/ /\ e.wp[y] = d.wp[y] /\ e.w_ptr[y] = d.w_ptr[y]
     /\ d.zs[y] # "FULL" /\ e.zs[y] \notin {"FULL", "EMPTY"}
  \/ e.zs[y] = "EMPTY" /\ e.wp[y] = 0 /\ e.w_ptr[y] = 0
  \/ e.zs[y] = "FULL" /\ e.wp[y] = ZoneCap /\ e.w_ptr[y] = ZoneCap

\* All commands but writes move the pointers like that.
LEMMA PointersFollow ==
  ASSUME NEW d, PointersOK(d), NEW e, \A y \in Zones : Follows(d, e, y)
  PROVE  PointersOK(e)
<1> SUFFICES ASSUME NEW y \in Zones
             PROVE  /\ e.zs[y] = "FULL" <=> e.wp[y] = ZoneCap
                    /\ e.wp[y] <= e.w_ptr[y]
                    /\ ~DmaMayFail => e.wp[y] = e.w_ptr[y]
                    /\ ~DmaMayFail /\ e.zs[y] = "EMPTY" => e.w_ptr[y] = 0
                    /\ ~AppendMayOverrun => e.w_ptr[y] <= ZoneCap
  BY DEF PointersOK
<1>1. /\ d.zs[y] = "FULL" <=> d.wp[y] = ZoneCap
      /\ d.wp[y] <= d.w_ptr[y]
      /\ ~DmaMayFail => d.wp[y] = d.w_ptr[y]
      /\ ~DmaMayFail /\ d.zs[y] = "EMPTY" => d.w_ptr[y] = 0
      /\ ~AppendMayOverrun => d.w_ptr[y] <= ZoneCap
  BY DEF PointersOK
<1>2. ZoneCap \in Nat /\ ZoneCap # 0 /\ 0 <= ZoneCap
  BY GeometryAssumption, SMTT(20)
<1> QED BY <1>1, <1>2, SMTT(20) DEF Follows

\* A zone changes state, the pointers stay.
LEMMA TransitFollows ==
  ASSUME NEW d, Good(d), NEW e, NEW z \in Zones, NEW s,
         Transits(d, e, z, s), s \notin {"FULL", "EMPTY"}, d.zs[z] # "FULL"
  PROVE  \A y \in Zones : Follows(d, e, y)
<1>1. d.zs \in [Zones -> ZoneState]
  BY Limits, Fields
<1> QED BY <1>1 DEF Transits, Follows

\* A zone ends empty or full.
LEMMA EndFollows ==
  ASSUME NEW d, Good(d), NEW e, NEW z \in Zones, NEW s, NEW p,
         Ends(d, e, z, s, p),
         (s = "EMPTY" /\ p = 0) \/ (s = "FULL" /\ p = ZoneCap)
  PROVE  \A y \in Zones : Follows(d, e, y)
<1>1. /\ d.zs \in [Zones -> ZoneState]
      /\ d.wp \in [Zones -> Nat] /\ d.w_ptr \in [Zones -> Nat]
  BY Limits, Fields
<1> QED BY <1>1 DEF Ends, Follows

\* Doing nothing.
LEMMA StayFollows ==
  ASSUME NEW d
  PROVE  \A y \in Zones : Follows(d, d, y)
BY DEF Follows

-----------------------------------------------------------------------------
(* Zone Management Send.                                                   *)

\* The handlers on one zone.
LEMMA SendOne ==
  ASSUME NEW d, Good(d), NEW z \in Zones,
         NEW e \in {d, zns_open_zone(d, z), zns_close_zone(d, z),
                    zns_finish_zone(d, z), zns_reset_zone(d, z),
                    zns_offline_zone(d, z), zns_set_zd_ext(d, z)}
  PROVE  Good(e) /\ \A y \in Zones : Follows(d, e, y)
<1>1. CASE e = d
  BY <1>1, StayFollows
<1>2. CASE e = zns_open_zone(d, z)
  <2>1. e = d \/ (Transits(d, e, z, "EXPLICITLY_OPEN") /\ d.zs[z] # "FULL")
    BY <1>2, Opens
  <2> QED BY <1>1, <2>1, TransitFollows, SMTT(20) DEF Transits
<1>3. CASE e = zns_close_zone(d, z)
  <2>1. e = d \/ (Transits(d, e, z, "CLOSED") /\ d.zs[z] # "FULL")
    BY <1>3, Closes DEF OpenStates
  <2> QED BY <1>1, <2>1, TransitFollows, SMTT(20) DEF Transits
<1>4. CASE e = zns_finish_zone(d, z)
  <2>1. e = d \/ Ends(d, e, z, "FULL", ZoneCap)
    BY <1>4, Finishes
  <2> QED BY <1>1, <2>1, EndFollows DEF Ends
<1>5. CASE e = zns_reset_zone(d, z)
  <2>1. e = d \/ Ends(d, e, z, "EMPTY", 0)
    BY <1>5, Resets
  <2> QED BY <1>1, <2>1, EndFollows DEF Ends
<1>6. CASE e = zns_offline_zone(d, z)
  <2>1. e = d \/ (Transits(d, e, z, "OFFLINE") /\ d.zs[z] # "FULL")
    BY <1>6, Offlines
  <2> QED BY <1>1, <2>1, TransitFollows, SMTT(20) DEF Transits
<1>7. CASE e = zns_set_zd_ext(d, z)
  <2>1. e = d \/ (Transits(d, e, z, "CLOSED") /\ d.zs[z] # "FULL")
    BY <1>7, SetsZdExt
  <2> QED BY <1>1, <2>1, TransitFollows, SMTT(20) DEF Transits
<1> QED BY <1>1, <1>2, <1>3, <1>4, <1>5, <1>6, <1>7

\* The commands on all zones.
LEMMA SendAll ==
  ASSUME NEW d, Good(d),
         NEW e \in {d, OpenAll(d), CloseAll(d), FinishAll(d), ResetAll(d),
                    OfflineAll(d)}
  PROVE  Good(e) /\ \A y \in Zones : Follows(d, e, y)
<1>1. CASE e = d
  BY <1>1, StayFollows
<1>2. CASE e = OpenAll(d)
  <2>1. PICK Y \in SUBSET {z \in Zones : d.zs[z] = "CLOSED"} :
          TransitsAll(d, e, Y, "EXPLICITLY_OPEN")
    BY <1>2, OpensAll
  <2> QED BY <2>1 DEF TransitsAll, Follows
<1>3. CASE e = CloseAll(d)
  <2>1. TransitsAll(d, e, {z \in Zones : d.zs[z] \in OpenStates}, "CLOSED")
    BY <1>3, ClosesAll
  <2> QED BY <2>1 DEF TransitsAll, Follows, OpenStates
<1>4. CASE e = FinishAll(d)
  <2>1. /\ Good(e)
        /\ e.zs = [z \in Zones |-> IF d.zs[z] \in ActiveStates THEN "FULL"
                                   ELSE d.zs[z]]
        /\ e.wp = [z \in Zones |-> IF d.zs[z] \in ActiveStates THEN ZoneCap
                                   ELSE d.wp[z]]
        /\ e.w_ptr = [z \in Zones |-> IF d.zs[z] \in ActiveStates
                                      THEN ZoneCap ELSE d.w_ptr[z]]
    BY <1>4, FinishesAll
  <2> QED BY <2>1 DEF Follows
<1>5. CASE e = ResetAll(d)
  <2>1. /\ Good(e)
        /\ e.zs = [z \in Zones |-> IF d.zs[z] \in ListStates THEN "EMPTY"
                                   ELSE d.zs[z]]
        /\ e.wp = [z \in Zones |-> IF d.zs[z] \in ListStates THEN 0
                                   ELSE d.wp[z]]
        /\ e.w_ptr = [z \in Zones |-> IF d.zs[z] \in ListStates THEN 0
                                      ELSE d.w_ptr[z]]
    BY <1>5, ResetsAll
  <2> QED BY <2>1 DEF Follows
<1>6. CASE e = OfflineAll(d)
  <2>1. /\ Good(e) /\ e.wp = d.wp /\ e.w_ptr = d.w_ptr
        /\ e.zs = [z \in Zones |-> IF d.zs[z] = "READ_ONLY" THEN "OFFLINE"
                                   ELSE d.zs[z]]
    BY <1>6, OfflinesAll
  <2> QED BY <2>1 DEF Follows
<1> QED BY <1>1, <1>2, <1>3, <1>4, <1>5, <1>6

-----------------------------------------------------------------------------
(* Write and append.                                                       *)

\* What zns_auto_open_zone leaves: zone z in its state, and its check passed.
LEMMA AutoOpens ==
  ASSUME NEW d, Good(d), NEW z \in Zones
  PROVE  LET e == AutoOpened(d, z)
         IN /\ Good(e) /\ \A y \in Zones : Follows(d, e, y)
            /\ e.zs[z] = d.zs[z] /\ e.wp = d.wp /\ e.w_ptr = d.w_ptr
            /\ zns_auto_open_zone(d, z) = "SUCCESS" =>
                 /\ e.zs[z] = "EMPTY" => zns_aor_check(e, 1, 1) = "SUCCESS"
                 /\ e.zs[z] = "CLOSED" => zns_aor_check(e, 0, 1) = "SUCCESS"
<1> DEFINE e == AutoOpened(d, z)
<1>1. \/ e = d
      \/ /\ d.zs[z] \in {"EMPTY", "CLOSED"}
         /\ \E y \in Zones : /\ d.zs[y] = "IMPLICITLY_OPEN"
                             /\ Transits(d, e, y, "CLOSED")
  BY AutoTransitions DEF AutoOpened
<1>2. zns_auto_open_zone(d, z) =
        CASE d.zs[z] = "EMPTY" -> zns_aor_check(e, 1, 1)
          [] d.zs[z] = "CLOSED" -> zns_aor_check(e, 0, 1)
          [] OTHER -> "SUCCESS"
  BY DEF zns_auto_open_zone
<1> HIDE DEF e
<1>3. /\ Good(e) /\ (\A y \in Zones : Follows(d, e, y))
      /\ e.zs[z] = d.zs[z] /\ e.wp = d.wp /\ e.w_ptr = d.w_ptr
  <2>1. CASE e = d
    BY <2>1, StayFollows
  <2>2. CASE e # d
    <3>1. PICK y \in Zones : /\ d.zs[y] = "IMPLICITLY_OPEN"
                             /\ Transits(d, e, y, "CLOSED")
      BY <1>1, <2>2
    <3>2. d.zs[z] \in {"EMPTY", "CLOSED"} /\ y # z
      BY <1>1, <2>2, <3>1
    <3>3. d.zs \in [Zones -> ZoneState]
      BY Limits, Fields
    <3>4. \A x \in Zones : Follows(d, e, x)
      BY <3>1, TransitFollows
    <3>5. /\ Good(e) /\ e.zs = [d.zs EXCEPT ![y] = "CLOSED"]
          /\ e.wp = d.wp /\ e.w_ptr = d.w_ptr
      BY <3>1 DEF Transits
    <3> QED BY <3>2, <3>3, <3>4, <3>5
  <2> QED BY <2>1, <2>2
<1>4. zns_auto_open_zone(d, z) = "SUCCESS" =>
        /\ e.zs[z] = "EMPTY" => zns_aor_check(e, 1, 1) = "SUCCESS"
        /\ e.zs[z] = "CLOSED" => zns_aor_check(e, 0, 1) = "SUCCESS"
  BY <1>2, <1>3
<1> QED BY <1>3, <1>4 DEF e

\* What zns_check_zone_write lets through.
Accepted(d, z, off, nlb, append) ==
  /\ d.zs[z] \notin {"FULL", "OFFLINE", "READ_ONLY"} /\ off + nlb <= ZoneCap
  /\ append => off = 0
  /\ ~append => off = d.w_ptr[z]

\* A write the checks accept.
LEMMA Accepts ==
  ASSUME NEW z \in Zones, NEW off \in Nat, NEW nlb \in Nat,
         NEW append \in BOOLEAN, WriteStatus(z, off, nlb, append) = "SUCCESS"
  PROVE  Accepted(dev, z, off, nlb, append)
<1>1. zns_check_zone_write(dev, z, off, nlb, append) = "SUCCESS"
  BY DEF WriteStatus
<1>2. ZoneCap \in Nat /\ off + nlb \in Nat
  BY GeometryAssumption, SMTT(20)
<1>3. off + nlb <= ZoneCap
  BY <1>1, <1>2, SMTT(20) DEF zns_check_zone_write
<1>4. dev.zs[z] \notin {"FULL", "OFFLINE", "READ_ONLY"}
  BY <1>1, <1>2, <1>3 DEF zns_check_zone_write
<1>5. IF append THEN off = 0 ELSE off = dev.w_ptr[z]
  BY <1>1, <1>2, <1>3, <1>4 DEF zns_check_zone_write
<1> QED BY <1>3, <1>4, <1>5 DEF Accepted

\* A write that reserves its blocks and then fails to map its buffer.
LEMMA MapFails ==
  ASSUME NEW d, Good(d), PointersOK(d), NEW z \in Zones, NEW off \in Nat,
         NEW nlb \in Nat \ {0}, NEW append \in BOOLEAN,
         Accepted(d, z, off, nlb, append), DmaMayFail,
         d.w_ptr[z] + nlb <= WriteLimit(append),
         d.zs[z] = "EMPTY" => zns_aor_check(d, 1, 1) = "SUCCESS",
         d.zs[z] = "CLOSED" => zns_aor_check(d, 0, 1) = "SUCCESS"
  PROVE  /\ Good(zns_advance_zone_wp(d, z, nlb))
         /\ PointersOK(zns_advance_zone_wp(d, z, nlb))
<1> DEFINE e == zns_advance_zone_wp(d, z, nlb)
<1>0. Reserved(d, e, z, nlb)
  BY Advances
<1>1. /\ Good(e) /\ e.wp = d.wp
      /\ e.w_ptr = [d.w_ptr EXCEPT ![z] = d.w_ptr[z] + nlb]
      /\ e.zs = IF /\ d.w_ptr[z] + nlb < ZoneCap
                   /\ d.zs[z] \in {"EMPTY", "CLOSED"}
                THEN [d.zs EXCEPT ![z] = "IMPLICITLY_OPEN"] ELSE d.zs
  BY <1>0 DEF Reserved
<1> HIDE DEF e
<1>2. /\ d.zs \in [Zones -> ZoneState] /\ d.wp \in [Zones -> Nat]
      /\ d.w_ptr \in [Zones -> Nat] /\ ZoneCap \in Nat
  BY Limits, Fields, GeometryAssumption, SMTT(20)
<1>3. ASSUME NEW y \in Zones
      PROVE  /\ e.zs[y] = "FULL" <=> e.wp[y] = ZoneCap
             /\ e.wp[y] <= e.w_ptr[y]
             /\ ~AppendMayOverrun => e.w_ptr[y] <= ZoneCap
  <2>1. /\ d.zs[y] = "FULL" <=> d.wp[y] = ZoneCap
        /\ d.wp[y] <= d.w_ptr[y]
        /\ ~AppendMayOverrun => d.w_ptr[y] <= ZoneCap
    BY DEF PointersOK
  <2>2. e.zs[y] = "FULL" <=> d.zs[y] = "FULL"
    BY <1>1, <1>2 DEF Accepted
  <2>3. e.w_ptr[y] = IF y = z THEN d.w_ptr[z] + nlb ELSE d.w_ptr[y]
    BY <1>1, <1>2
  <2>4. ~AppendMayOverrun => d.w_ptr[z] + nlb <= ZoneCap
    BY DEF WriteLimit, Accepted
  <2> QED BY <1>1, <1>2, <2>1, <2>2, <2>3, <2>4, SMTT(20)
<1>4. PointersOK(e)
  BY <1>3 DEF PointersOK
<1> QED BY <1>1, <1>4 DEF e

\* A write that goes through.
LEMMA Completes ==
  ASSUME NEW d, Good(d), PointersOK(d), NEW z \in Zones, NEW off \in Nat,
         NEW nlb \in Nat \ {0}, NEW append \in BOOLEAN,
         Accepted(d, z, off, nlb, append),
         d.w_ptr[z] + nlb <= WriteLimit(append),
         d.zs[z] = "EMPTY" => zns_aor_check(d, 1, 1) = "SUCCESS",
         d.zs[z] = "CLOSED" => zns_aor_check(d, 0, 1) = "SUCCESS"
  PROVE  LET e == zns_advance_zone_wp(d, z, nlb)
             f == zns_finalize_zoned_write(e, z, nlb)
         IN Good(f) /\ PointersOK(f)
<1> DEFINE e == zns_advance_zone_wp(d, z, nlb)
           f == zns_finalize_zoned_write(e, z, nlb)
<1>0. Reserved(d, e, z, nlb)
  BY Advances
<1>1. /\ Good(e) /\ e.wp = d.wp
      /\ e.w_ptr = [d.w_ptr EXCEPT ![z] = d.w_ptr[z] + nlb]
      /\ e.zs = IF /\ d.w_ptr[z] + nlb < ZoneCap
                   /\ d.zs[z] \in {"EMPTY", "CLOSED"}
                THEN [d.zs EXCEPT ![z] = "IMPLICITLY_OPEN"] ELSE d.zs
  BY <1>0 DEF Reserved
<1> HIDE DEF e
<1>2. /\ Good(f) /\ f.w_ptr = e.w_ptr
      /\ f.wp = [e.wp EXCEPT ![z] = e.wp[z] + nlb]
      /\ f.zs = IF e.wp[z] + nlb = ZoneCap /\ e.zs[z] # "FULL"
                THEN [e.zs EXCEPT ![z] = "FULL"] ELSE e.zs
  <2>1. Finalized(e, f, z, nlb)
    BY <1>1, Finalizes
  <2> QED BY <2>1 DEF Finalized
<1> HIDE DEF f
<1>3. /\ d.zs \in [Zones -> ZoneState] /\ d.wp \in [Zones -> Nat]
      /\ d.w_ptr \in [Zones -> Nat] /\ ZoneCap \in Nat
      /\ e.zs \in [Zones -> ZoneState]
  BY <1>1, Limits, Fields, GeometryAssumption, SMTT(20)
<1>5. /\ f.w_ptr[z] = d.w_ptr[z] + nlb /\ f.wp[z] = d.wp[z] + nlb
      /\ f.zs[z] = IF d.wp[z] + nlb = ZoneCap THEN "FULL" ELSE e.zs[z]
      /\ e.zs[z] = IF /\ d.w_ptr[z] + nlb < ZoneCap
                      /\ d.zs[z] \in {"EMPTY", "CLOSED"}
                   THEN "IMPLICITLY_OPEN" ELSE d.zs[z]
      /\ e.zs[z] # "FULL"
  <2>1. d.zs[z] # "FULL"
    BY DEF Accepted
  <2>2. /\ e.zs[z] = IF /\ d.w_ptr[z] + nlb < ZoneCap
                        /\ d.zs[z] \in {"EMPTY", "CLOSED"}
                     THEN "IMPLICITLY_OPEN" ELSE d.zs[z]
        /\ e.zs[z] # "FULL"
    BY <1>1, <1>3, <2>1
  <2> QED BY <1>1, <1>2, <1>3, <2>2, SMTT(20)
<1>6. /\ d.wp[z] <= d.w_ptr[z]
      /\ ~DmaMayFail => d.wp[z] = d.w_ptr[z]
      /\ ~DmaMayFail /\ d.zs[z] = "EMPTY" => d.w_ptr[z] = 0
  BY DEF PointersOK
<1>7. f.zs[z] = "FULL" <=> f.wp[z] = ZoneCap
  BY <1>5
<1>8. f.wp[z] <= f.w_ptr[z] /\ (~DmaMayFail => f.wp[z] = f.w_ptr[z])
  BY <1>3, <1>5, <1>6, SMTT(20)
<1>9. ~DmaMayFail /\ f.zs[z] = "EMPTY" => f.w_ptr[z] = 0
  <2> SUFFICES ASSUME ~DmaMayFail, f.zs[z] = "EMPTY"
               PROVE  FALSE
    OBVIOUS
  <2>1. d.zs[z] = "EMPTY" /\ ~(d.w_ptr[z] + nlb < ZoneCap)
        /\ d.wp[z] + nlb # ZoneCap
    BY <1>5
  <2>2. d.w_ptr[z] = 0 /\ d.wp[z] = 0
    BY <1>6, <2>1
  <2>3. off = 0 /\ off + nlb <= ZoneCap
    BY <2>2 DEF Accepted
  <2> QED BY <1>3, <2>1, <2>2, <2>3, SMTT(20)
<1>10. ~AppendMayOverrun => f.w_ptr[z] <= ZoneCap
  BY <1>5 DEF WriteLimit, Accepted
<1>11. PointersOK(f)
  <2> SUFFICES ASSUME NEW y \in Zones
               PROVE  /\ f.zs[y] = "FULL" <=> f.wp[y] = ZoneCap
                      /\ f.wp[y] <= f.w_ptr[y]
                      /\ ~DmaMayFail => f.wp[y] = f.w_ptr[y]
                      /\ ~DmaMayFail /\ f.zs[y] = "EMPTY" => f.w_ptr[y] = 0
                      /\ ~AppendMayOverrun => f.w_ptr[y] <= ZoneCap
    BY DEF PointersOK
  <2>1. CASE y = z
    BY <2>1, <1>7, <1>8, <1>9, <1>10
  <2>2. CASE y # z
    <3>1. f.zs[y] = d.zs[y] /\ f.wp[y] = d.wp[y] /\ f.w_ptr[y] = d.w_ptr[y]
      BY <1>1, <1>2, <1>3, <2>2, SMTT(20)
    <3> QED BY <3>1 DEF PointersOK
  <2> QED BY <2>1, <2>2
<1> QED BY <1>2, <1>11 DEF e, f

-----------------------------------------------------------------------------
(* The statuses of the commands.                                           *)

\* Every function that computes a status computes one of Statuses.
LEMMA StatusTypes ==
  /\ \A d, act, opn : zns_aor_check(d, act, opn) \in Statuses
  /\ \A d, z : /\ zns_auto_open_zone(d, z) \in Statuses
               /\ zns_finish_zone_status(d, z) \in Statuses
               /\ zns_offline_zone_status(d, z) \in Statuses
               /\ zns_set_zd_ext_status(d, z) \in Statuses
  /\ \A z, off, nlb, append : WriteStatus(z, off, nlb, append) \in Statuses
  /\ \A z, off, nlb : ReadStatus(z, off, nlb) \in Statuses
<1>1. \A d, act, opn : zns_aor_check(d, act, opn) \in Statuses
  BY DEF zns_aor_check, Statuses
<1>2. \A d, z : zns_auto_open_zone(d, z) \in Statuses
  <2> SUFFICES ASSUME NEW d, NEW z PROVE zns_auto_open_zone(d, z) \in Statuses
    OBVIOUS
  <2>1. "SUCCESS" \in Statuses
    BY DEF Statuses
  <2> QED BY <1>1, <2>1 DEF zns_auto_open_zone
<1>3. \A d, z : /\ zns_finish_zone_status(d, z) \in Statuses
                /\ zns_offline_zone_status(d, z) \in Statuses
                /\ zns_set_zd_ext_status(d, z) \in Statuses
  <2>1. "SUCCESS" \in Statuses /\ "INVAL_TRANSITION" \in Statuses
    BY DEF Statuses
  <2> QED BY <1>1, <2>1 DEF zns_finish_zone_status, zns_offline_zone_status,
                            zns_set_zd_ext_status
<1>4. \A d, z, off, nlb, append :
        zns_check_zone_write(d, z, off, nlb, append) \in Statuses
  <2> SUFFICES ASSUME NEW d, NEW z, NEW off, NEW nlb, NEW append
               PROVE  zns_check_zone_write(d, z, off, nlb, append) \in Statuses
    OBVIOUS
  <2> QED BY DEF zns_check_zone_write, Statuses
<1>5. \A z, off, nlb, append : WriteStatus(z, off, nlb, append) \in Statuses
  <2> SUFFICES ASSUME NEW z, NEW off, NEW nlb, NEW append
               PROVE  WriteStatus(z, off, nlb, append) \in Statuses
    OBVIOUS
  <2>1. "MDTS" \in Statuses /\ "LBA_RANGE" \in Statuses
    BY DEF Statuses
  <2> QED BY <1>4, <2>1 DEF WriteStatus
<1>6. \A z, off, nlb : ReadStatus(z, off, nlb) \in Statuses
  BY SMTT(20) DEF ReadStatus, Statuses
<1> QED BY <1>1, <1>2, <1>3, <1>5, <1>6

-----------------------------------------------------------------------------
(* The invariant.                                                          *)

\* The initial device: all zones empty, all lists empty.
LEMMA InitGood == Init => IInv
<1> SUFFICES ASSUME Init PROVE IInv
  OBVIOUS
<1> DEFINE l == [s \in ListStates |-> <<>>]
<1>1. /\ dev.zs = [z \in Zones |-> "EMPTY"]
      /\ dev.wp = [z \in Zones |-> 0] /\ dev.w_ptr = [z \in Zones |-> 0]
      /\ dev.list = l /\ dev.nr_open = 0 /\ dev.nr_active = 0
  BY DEF Init
<1>2. l \in [ListStates -> Seq(Zones)]
  BY EmptySeq
<1>3. dev \in PreDevice
  BY <1>2, SMTT(20) DEF Init, PreDevice, ZoneState
<1>4. \A s \in ListStates : l[s] = <<>> /\ Len(l[s]) = 0
  BY EmptySeq
<1> HIDE DEF l
<1>5. \A s \in ListStates : In(dev, s) = {}
  BY <1>1 DEF In, ListStates, ActiveStates, OpenStates
<1>6. ListsOK(dev)
  BY <1>1, <1>4, <1>5, EmptyLists DEF ListsOK
<1>7. CountersOK(dev)
  <2>1. /\ Len(dev.list["IMPLICITLY_OPEN"]) = 0
        /\ Len(dev.list["EXPLICITLY_OPEN"]) = 0 /\ Len(dev.list["CLOSED"]) = 0
    BY <1>1, <1>4 DEF ListStates, ActiveStates, OpenStates
  <2>2. 0 <= MaxOpen /\ 0 <= MaxActive
    BY GeometryAssumption, SMTT(20)
  <2> QED BY <1>1, <2>1, <2>2, SMTT(20) DEF CountersOK
<1>8. PointersOK(dev)
  BY <1>1, GeometryAssumption, SMTT(20) DEF PointersOK
<1>9. ShutdownProgress
  BY DEF Init, ShutdownProgress, OpenStates
<1>10. status \in Statuses /\ phase \in {"run"} \cup ActiveStates
       /\ left \in Nat
  BY DEF Init, Statuses
<1> QED BY <1>3, <1>6, <1>7, <1>8, <1>9, <1>10 DEF IInv, Good

\* A command leaves the shutdown variables alone.
LEMMA CommandProgress ==
  ASSUME IInv, phase = "run", UNCHANGED <<phase, left>>
  PROVE  ShutdownProgress' /\ phase' \in {"run"} \cup ActiveStates
         /\ left' \in Nat
<1>1. left = 0 /\ phase' = "run" /\ left' = 0
  BY DEF IInv, ShutdownProgress
<1> QED BY <1>1, SMTT(20) DEF ShutdownProgress, OpenStates

\* Write and append.
LEMMA WriteStep ==
  ASSUME IInv, NEW z \in Zones, NEW off \in 0..(ZoneSize - 1),
         NEW nlb \in 1..MaxNlb, NEW append \in BOOLEAN, NEW mapped \in BOOLEAN,
         zns_do_write(z, off, nlb, append, mapped)
  PROVE  IInv'
<1> DEFINE checked == WriteStatus(z, off, nlb, append)
           opened == AutoOpened(dev, z)
           advanced == zns_advance_zone_wp(opened, z, nlb)
<1>1. /\ Good(dev) /\ PointersOK(dev)
      /\ off \in Nat /\ nlb \in Nat \ {0} /\ nlb \in Nat
  BY GeometryAssumption, SMTT(20) DEF IInv
<1>2. /\ Good(opened) /\ (\A y \in Zones : Follows(dev, opened, y))
      /\ opened.zs[z] = dev.zs[z] /\ opened.wp = dev.wp
      /\ opened.w_ptr = dev.w_ptr
      /\ zns_auto_open_zone(dev, z) = "SUCCESS" =>
           /\ opened.zs[z] = "EMPTY" => zns_aor_check(opened, 1, 1) = "SUCCESS"
           /\ opened.zs[z] = "CLOSED" =>
                zns_aor_check(opened, 0, 1) = "SUCCESS"
  BY <1>1, AutoOpens
<1>3. /\ phase = "run" /\ UNCHANGED <<phase, left>>
      /\ mapped \/ DmaMayFail
      /\ checked = "SUCCESS" => dev.w_ptr[z] + nlb <= WriteLimit(append)
      /\ \/ checked # "SUCCESS" /\ status' = checked /\ dev' = dev
         \/ /\ checked = "SUCCESS"
            /\ status' = zns_auto_open_zone(dev, z) /\ dev' = opened
         \/ /\ checked = "SUCCESS" /\ zns_auto_open_zone(dev, z) = "SUCCESS"
            /\ ~mapped /\ status' = "MAP_ERROR" /\ dev' = advanced
         \/ /\ checked = "SUCCESS" /\ zns_auto_open_zone(dev, z) = "SUCCESS"
            /\ status' = "SUCCESS"
            /\ dev' = zns_finalize_zoned_write(advanced, z, nlb)
  BY DEF zns_do_write
<1> HIDE DEF opened
<1>4. PointersOK(opened)
  BY <1>1, <1>2, PointersFollow
<1>5. checked = "SUCCESS" => Accepted(opened, z, off, nlb, append)
  <2>1. checked = "SUCCESS" => Accepted(dev, z, off, nlb, append)
    BY <1>1, Accepts
  <2> QED BY <1>2, <2>1 DEF Accepted
<1>6. status' \in Statuses
  <2>1. "SUCCESS" \in Statuses /\ "MAP_ERROR" \in Statuses
    BY DEF Statuses
  <2>2. checked \in Statuses /\ zns_auto_open_zone(dev, z) \in Statuses
    BY StatusTypes
  <2> HIDE DEF checked
  <2> QED BY <1>3, <2>1, <2>2
<1> HIDE DEF checked
<1>7. Good(dev') /\ PointersOK(dev')
  <2>1. CASE dev' = dev
    BY <1>1, <2>1
  <2>2. CASE dev' = opened
    BY <1>2, <1>4, <2>2
  <2>3. CASE /\ checked = "SUCCESS" /\ zns_auto_open_zone(dev, z) = "SUCCESS"
             /\ ~mapped /\ dev' = advanced
    <3>1. opened.w_ptr[z] + nlb <= WriteLimit(append) /\ DmaMayFail
      BY <1>2, <1>3, <2>3
    <3> QED BY <1>1, <1>2, <1>4, <1>5, <2>3, <3>1, MapFails
  <2>4. CASE /\ checked = "SUCCESS" /\ zns_auto_open_zone(dev, z) = "SUCCESS"
             /\ dev' = zns_finalize_zoned_write(advanced, z, nlb)
    <3>1. opened.w_ptr[z] + nlb <= WriteLimit(append)
      BY <1>2, <1>3, <2>4
    <3> QED BY <1>1, <1>2, <1>4, <1>5, <2>4, <3>1, Completes
  <2> QED BY <1>3, <2>1, <2>2, <2>3, <2>4
<1>8. ShutdownProgress' /\ phase' \in {"run"} \cup ActiveStates /\ left' \in Nat
  BY <1>3, CommandProgress
<1> QED BY <1>6, <1>7, <1>8 DEF IInv

\* Zone Management Send on one zone.
LEMMA SendStep ==
  ASSUME IInv, NEW z \in Zones, NEW off \in 0..(ZoneSize - 1),
         NEW action \in SendActions, zns_zone_mgmt_send(z, off, action)
  PROVE  IInv'
<1>1. Good(dev) /\ PointersOK(dev)
  BY DEF IInv
<1>2. phase = "run" /\ UNCHANGED <<phase, left>>
  BY DEF zns_zone_mgmt_send
<1>3. dev' \in {dev, zns_open_zone(dev, z), zns_close_zone(dev, z),
                zns_finish_zone(dev, z), zns_reset_zone(dev, z),
                zns_offline_zone(dev, z), zns_set_zd_ext(dev, z)}
  BY DEF zns_zone_mgmt_send
<1>4. Good(dev') /\ \A y \in Zones : Follows(dev, dev', y)
  BY <1>1, <1>3, SendOne
<1>5. PointersOK(dev')
  BY <1>1, <1>4, PointersFollow
<1>6. status' \in Statuses
  <2>1. {"SUCCESS", "INVALID_FIELD", "LBA_RANGE", "MAP_ERROR"}
          \subseteq Statuses
    BY DEF Statuses
  <2> QED BY <2>1, StatusTypes DEF zns_zone_mgmt_send
<1>7. ShutdownProgress' /\ phase' \in {"run"} \cup ActiveStates /\ left' \in Nat
  BY <1>2, CommandProgress
<1> QED BY <1>4, <1>5, <1>6, <1>7 DEF IInv

\* Zone Management Send on all zones.
LEMMA SendAllStep ==
  ASSUME IInv, NEW action \in SendActions, zns_zone_mgmt_send_all(action)
  PROVE  IInv'
<1>1. Good(dev) /\ PointersOK(dev)
  BY DEF IInv
<1>2. phase = "run" /\ UNCHANGED <<phase, left>>
  BY DEF zns_zone_mgmt_send_all
<1>3. dev' \in {dev, OpenAll(dev), CloseAll(dev), FinishAll(dev),
                ResetAll(dev), OfflineAll(dev)}
  BY DEF zns_zone_mgmt_send_all, SendActions
<1>4. Good(dev') /\ \A y \in Zones : Follows(dev, dev', y)
  BY <1>1, <1>3, SendAll
<1>5. PointersOK(dev')
  BY <1>1, <1>4, PointersFollow
<1>6. status' \in Statuses
  BY DEF zns_zone_mgmt_send_all, Statuses
<1>7. ShutdownProgress' /\ phase' \in {"run"} \cup ActiveStates /\ left' \in Nat
  BY <1>2, CommandProgress
<1> QED BY <1>4, <1>5, <1>6, <1>7 DEF IInv

\* The shutdown loop visits a zone of the list it walks.
LEMMA ShutdownStep ==
  ASSUME IInv, ShutdownZone
  PROVE  IInv'
<1> DEFINE l == dev.list[phase]
           z == l[Len(l) - left + 1]
<1>1. /\ Good(dev) /\ PointersOK(dev) /\ ShutdownProgress /\ left \in Nat
      /\ phase \in ActiveStates /\ left > 0
  BY DEF IInv, ShutdownZone
<1>2. phase \in ListStates /\ phase # "run"
  BY <1>1 DEF ListStates, ActiveStates, OpenStates
<1>3. Lists(l, In(dev, phase)) /\ Len(l) \in Nat
  BY <1>1, <1>2, Lengths DEF Good, ListsOK
<1>4. left <= Len(l)
  BY <1>1, <1>2 DEF ShutdownProgress
<1>5. Len(l) - left + 1 \in 1..Len(l)
  BY <1>1, <1>3, <1>4, SMTT(20)
<1>6. z \in In(dev, phase)
  <2>1. \A i \in 1..Len(l) : l[i] \in In(dev, phase)
    BY <1>3, SMTT(20) DEF Lists
  <2> HIDE DEF l
  <2> QED BY <1>5, <2>1
<1>7. z \in Zones /\ dev.zs[z] = phase
  BY <1>6 DEF In
<1>8. dev' = ClearZone(dev, z) /\ left' = left - 1 /\ phase' = phase
      /\ status' = status
  BY DEF ShutdownZone, ClearZone
<1> HIDE DEF z
<1>9. /\ Good(dev') /\ dev'.wp = dev.wp
      /\ dev'.w_ptr = [dev.w_ptr EXCEPT ![z] = dev.wp[z]]
      /\ Cleared(dev, dev', z)
  <2>1. dev.zs[z] \in ActiveStates
    BY <1>1, <1>7
  <2>2. Cleared(dev, ClearZone(dev, z), z)
    BY <1>1, <1>7, <2>1, ClearsZone
  <2> QED BY <1>8, <2>2 DEF Cleared
<1>10. PICK s \in {"CLOSED", "EMPTY"} :
           /\ dev'.zs = [dev.zs EXCEPT ![z] = s] /\ Shifted(dev, dev', z, s)
           /\ s = "EMPTY" => dev.wp[z] = 0
  BY <1>9 DEF Cleared
<1>11. PointersOK(dev')
  <2>1. /\ dev.zs \in [Zones -> ZoneState] /\ dev.wp \in [Zones -> Nat]
        /\ dev.w_ptr \in [Zones -> Nat] /\ ZoneCap \in Nat /\ ZoneCap # 0
    BY <1>1, Limits, Fields, GeometryAssumption, SMTT(20)
  <2>2. dev.zs[z] # "FULL"
    BY <1>1, <1>7 DEF ActiveStates, OpenStates
  <2> SUFFICES ASSUME NEW y \in Zones
               PROVE  /\ dev'.zs[y] = "FULL" <=> dev'.wp[y] = ZoneCap
                      /\ dev'.wp[y] <= dev'.w_ptr[y]
                      /\ ~DmaMayFail => dev'.wp[y] = dev'.w_ptr[y]
                      /\ ~DmaMayFail /\ dev'.zs[y] = "EMPTY"
                           => dev'.w_ptr[y] = 0
                      /\ ~AppendMayOverrun => dev'.w_ptr[y] <= ZoneCap
    BY DEF PointersOK
  <2>3. /\ dev.zs[y] = "FULL" <=> dev.wp[y] = ZoneCap
        /\ dev.wp[y] <= dev.w_ptr[y]
        /\ ~DmaMayFail => dev.wp[y] = dev.w_ptr[y]
        /\ ~DmaMayFail /\ dev.zs[y] = "EMPTY" => dev.w_ptr[y] = 0
        /\ ~AppendMayOverrun => dev.w_ptr[y] <= ZoneCap
    BY <1>1 DEF PointersOK
  <2>4. CASE y = z
    <3>1. dev'.zs[y] = s /\ dev'.wp[y] = dev.wp[y] /\ dev'.w_ptr[y] = dev.wp[y]
      BY <1>7, <1>9, <1>10, <2>1, <2>4
    <3> QED BY <1>7, <1>10, <2>1, <2>2, <2>3, <2>4, <3>1, SMTT(20)
  <2>5. CASE y # z
    <3>1. dev'.zs[y] = dev.zs[y] /\ dev'.wp[y] = dev.wp[y]
          /\ dev'.w_ptr[y] = dev.w_ptr[y]
      BY <1>7, <1>9, <1>10, <2>1, <2>5
    <3> QED BY <2>3, <3>1
  <2> QED BY <2>4, <2>5
<1>12. ShutdownProgress'
  <2>1. \A t \in ListStates :
          Len(dev'.list[t]) = Len(dev.list[t]) - (IF t = phase THEN 1 ELSE 0)
                                               + (IF t = s THEN 1 ELSE 0)
    BY <1>7, <1>10 DEF Shifted
  <2>2. \A t \in ListStates : Len(dev.list[t]) \in Nat /\ Len(dev'.list[t]) \in Nat
                              /\ dev'.list[t] \in Seq(Zones)
    BY <1>1, <1>9, Lengths, Fields DEF Good
  <2>3. Len(dev'.list[phase]) \in {Len(l) - 1, Len(l)}
        /\ (phase \in OpenStates => Len(dev'.list[phase]) = Len(l) - 1)
    <3>1. Len(dev'.list[phase]) = Len(l) - 1 + (IF phase = s THEN 1 ELSE 0)
      BY <1>2, <2>1
    <3>2. phase \in OpenStates => phase # s
      BY DEF OpenStates
    <3> HIDE DEF l
    <3> QED BY <1>3, <3>1, <3>2, SMTT(20)
  <2>4. left' \in Nat /\ left' <= Len(dev'.list[phase])
    BY <1>1, <1>2, <1>3, <1>4, <1>8, <2>3, SMTT(20)
  <2>5. phase \in OpenStates => left' = Len(dev'.list[phase])
    BY <1>1, <1>8, <2>3 DEF ShutdownProgress
  <2>6. phase = "EXPLICITLY_OPEN" => dev'.list["IMPLICITLY_OPEN"] = <<>>
    <3> SUFFICES ASSUME phase = "EXPLICITLY_OPEN"
                 PROVE  dev'.list["IMPLICITLY_OPEN"] = <<>>
      OBVIOUS
    <3>1. dev.list["IMPLICITLY_OPEN"] = <<>> /\ "IMPLICITLY_OPEN" \in ListStates
      BY <1>1 DEF ShutdownProgress, ListStates, ActiveStates, OpenStates
    <3>2. Len(dev.list["IMPLICITLY_OPEN"]) = 0
      BY <3>1, EmptySeq
    <3>3. Len(dev'.list["IMPLICITLY_OPEN"]) = 0 - 0 + 0
      <4>1. "IMPLICITLY_OPEN" # phase /\ "IMPLICITLY_OPEN" # s
        OBVIOUS
      <4> QED BY <2>1, <3>1, <3>2, <4>1
    <3> QED BY <2>2, <3>1, <3>3, EmptySeq, SMTT(20)
  <2> QED BY <1>2, <1>8, <2>4, <2>5, <2>6 DEF ShutdownProgress
<1>13. left' \in Nat
  BY <1>1, <1>8, SMTT(20)
<1> QED BY <1>1, <1>8, <1>9, <1>11, <1>12, <1>13 DEF IInv

\* The shutdown loops begin, and go from one list to the next.
LEMMA ShutdownMoves ==
  ASSUME IInv, zns_ns_shutdown \/ ShutdownNextList
  PROVE  IInv'
<1>1. /\ Good(dev) /\ PointersOK(dev) /\ ShutdownProgress
      /\ status \in Statuses /\ phase \in {"run"} \cup ActiveStates
  BY DEF IInv
<1>2. dev' = dev /\ status' = status
  BY DEF zns_ns_shutdown, ShutdownNextList
<1>3. \A s \in ListStates : Len(dev.list[s]) \in Nat /\ dev.list[s] \in Seq(Zones)
  BY <1>1, Lengths, Fields DEF Good
<1>4. CASE zns_ns_shutdown
  <2>1. phase' = "CLOSED" /\ left' = Len(dev.list["CLOSED"])
    BY <1>4 DEF zns_ns_shutdown
  <2>2. left' \in Nat
    BY <1>3, <2>1 DEF ListStates, ActiveStates
  <2>3. ShutdownProgress'
    BY <1>2, <2>1, <2>2, SMTT(20) DEF ShutdownProgress, OpenStates
  <2> QED BY <1>1, <1>2, <2>1, <2>2, <2>3 DEF IInv, ActiveStates
<1>5. CASE ShutdownNextList
  <2>1. /\ phase \in ActiveStates /\ left = 0
        /\ left' = IF phase' = "run" THEN 0 ELSE Len(dev.list[phase'])
        /\ \/ phase = "CLOSED" /\ phase' = "IMPLICITLY_OPEN"
           \/ phase = "IMPLICITLY_OPEN" /\ phase' = "EXPLICITLY_OPEN"
           \/ phase = "EXPLICITLY_OPEN" /\ phase' = "run"
    BY <1>1, <1>5 DEF ShutdownNextList, ActiveStates, OpenStates
  <2>2. left' \in Nat
    BY <1>3, <2>1 DEF ListStates, ActiveStates, OpenStates
  <2>3. phase' = "EXPLICITLY_OPEN" => dev.list["IMPLICITLY_OPEN"] = <<>>
    <3> SUFFICES ASSUME phase' = "EXPLICITLY_OPEN"
                 PROVE  dev.list["IMPLICITLY_OPEN"] = <<>>
      OBVIOUS
    <3>1. phase = "IMPLICITLY_OPEN"
      BY <2>1
    <3>2. Len(dev.list["IMPLICITLY_OPEN"]) = 0
      BY <1>1, <2>1, <3>1 DEF ShutdownProgress, OpenStates
    <3>3. dev.list["IMPLICITLY_OPEN"] \in Seq(Zones)
      BY <1>3 DEF ListStates, ActiveStates, OpenStates
    <3> QED BY <3>2, <3>3, EmptySeq
  <2>4. phase' # "run" => left' = Len(dev.list[phase'])
    BY <2>1
  <2>5. ShutdownProgress'
    <3>1. phase' = "run" => left' = 0
      BY <2>1
    <3>2. phase' # "run" => left' <= Len(dev'.list[phase'])
      BY <1>2, <2>2, <2>4, SMTT(20)
    <3>3. phase' \in OpenStates => left' = Len(dev'.list[phase'])
      BY <1>2, <2>4 DEF OpenStates
    <3> QED BY <1>2, <2>3, <3>1, <3>2, <3>3 DEF ShutdownProgress
  <2>6. phase' \in {"run"} \cup ActiveStates
    BY <2>1 DEF ActiveStates, OpenStates
  <2> QED BY <1>1, <1>2, <2>2, <2>5, <2>6 DEF IInv
<1> QED BY <1>4, <1>5

\* Reads and reports change nothing.
LEMMA ReadStep ==
  ASSUME IInv, UNCHANGED <<dev, phase, left>>, status' \in Statuses
  PROVE  IInv'
BY DEF IInv, ShutdownProgress

\* Every step keeps the invariant.
LEMMA StepKeeps == IInv /\ [Next]_vars => IInv'
<1> SUFFICES ASSUME IInv, [Next]_vars PROVE IInv'
  OBVIOUS
<1>1. ASSUME NEW z \in Zones, NEW off \in 0..(ZoneSize - 1),
             NEW nlb \in 1..MaxNlb, zns_read(z, off, nlb)
      PROVE  IInv'
  <2>1. off \in Nat /\ nlb \in Nat
    BY GeometryAssumption, SMTT(20)
  <2>2. ReadStatus(z, off, nlb) \in Statuses /\ "MAP_ERROR" \in Statuses
    BY <2>1, StatusTypes DEF Statuses
  <2> QED BY <1>1, <2>2, ReadStep DEF zns_read
<1>2. CASE zns_zone_mgmt_recv
  <2>1. status' \in Statuses
    BY <1>2 DEF zns_zone_mgmt_recv, Statuses
  <2> QED BY <1>2, <2>1, ReadStep DEF zns_zone_mgmt_recv
<1>3. CASE UNCHANGED vars
  BY <1>3, ReadStep DEF vars, IInv
<1> QED BY <1>1, <1>2, <1>3, WriteStep, SendStep, SendAllStep, ShutdownStep,
           ShutdownMoves DEF Next

\* The invariant holds in every reachable state.
THEOREM Invariance == Spec => []IInv
BY InitGood, StepKeeps, PTL DEF Spec

\* What the invariant says, property by property.
LEMMA InvariantSays ==
  ASSUME IInv
  PROVE  /\ TypeOK /\ ListsMatchStates /\ CountersCountZones
         /\ ShutdownProgress /\ FullIffAtBoundary /\ WpBehindReservation
         /\ EmptyMeansUnwritten /\ WritesWithinCapacity
<1>1. Good(dev) /\ PointersOK(dev) /\ dev \in PreDevice
  BY DEF IInv, Good
<1>2. ListsMatchStates
  BY <1>1 DEF ListsMatchStates, Good, ListsOK, Lists, In
<1>3. /\ NImp(dev) \in Nat /\ NExp(dev) \in Nat /\ NClosed(dev) \in Nat
      /\ Len(Opened(dev)) = NImp(dev) + NExp(dev)
      /\ Len(Active(dev)) = NClosed(dev) + NImp(dev) + NExp(dev)
      /\ dev.nr_open = IF MaxOpen = 0 THEN 0 ELSE NImp(dev) + NExp(dev)
      /\ dev.nr_active = IF MaxActive = 0 THEN 0
                         ELSE NClosed(dev) + NImp(dev) + NExp(dev)
  BY <1>1, Numbers
<1>4. CountersCountZones
  BY <1>1, <1>3, Limits DEF CountersCountZones
<1>5. dev.nr_open \in Nat /\ dev.nr_active \in Nat
  BY <1>3, SMTT(20)
<1>6. dev \in Device
  BY <1>1, <1>5 DEF PreDevice, Device
<1>7. dev.wp \in [Zones -> Nat] /\ dev.w_ptr \in [Zones -> Nat]
  BY <1>1, Fields
<1>8. FullIffAtBoundary /\ EmptyMeansUnwritten /\ WritesWithinCapacity
  BY <1>1 DEF FullIffAtBoundary, EmptyMeansUnwritten, WritesWithinCapacity,
              PointersOK
<1>9. WpBehindReservation
  BY <1>1, <1>7, SMTT(20) DEF WpBehindReservation, PointersOK
<1> QED BY <1>2, <1>4, <1>6, <1>8, <1>9 DEF TypeOK, IInv

\* Type correctness: in particular no counter goes below zero.
THEOREM TypeCorrect == Spec => []TypeOK
BY Invariance, InvariantSays, PTL

\* exp_open_zones, imp_open_zones, closed_zones and full_zones always hold
\* exactly the zones in that state, each once.
THEOREM ListsAlwaysMatch == Spec => []ListsMatchStates
BY Invariance, InvariantSays, PTL

\* nr_open_zones and nr_active_zones always count the open and the active
\* zones and stay within the limits: no assertion of zns_aor_* can fail.
THEOREM CountersAlwaysCount == Spec => []CountersCountZones
BY Invariance, InvariantSays, PTL

\* The loops of zns_zoned_ns_shutdown never leave the list they walk although
\* they put zones back into closed_zones, and leave no zone open.
THEOREM ShutdownStaysInside == Spec => []ShutdownProgress
BY Invariance, InvariantSays, PTL

\* A zone is FULL exactly when its write pointer is at its capacity.
THEOREM FullAtBoundary == Spec => []FullIffAtBoundary
BY Invariance, InvariantSays, PTL

\* The write pointer of the descriptor never passes the internal one, and
\* they agree if every data buffer can be mapped.
THEOREM WpNeverPasses == Spec => []WpBehindReservation
BY Invariance, InvariantSays, PTL

\* An EMPTY zone has nothing reserved if every data buffer can be mapped.
THEOREM EmptyIsUnwritten == Spec => []EmptyMeansUnwritten
BY Invariance, InvariantSays, PTL

\* No data is written past a zone's capacity if hosts append no more than a
\* zone has left.
THEOREM NeverPastCapacity == Spec => []WritesWithinCapacity
BY Invariance, InvariantSays, PTL

=============================================================================
