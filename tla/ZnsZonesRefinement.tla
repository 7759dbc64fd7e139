------------------------- MODULE ZnsZonesRefinement -------------------------
(***************************************************************************)
(* What one step of zns.c may do to the zones, for any geometry and any    *)
(* limits: the action properties of ZnsZones, and that the device          *)
(* implements the abstract state machine of its zones.                     *)
(***************************************************************************)
EXTENDS ZnsZonesTheorems, ZnsZonesAbstraction, FiniteSetTheorems

\* Leaves are for Zenon, the ones with arithmetic or records name SMT.
USE ZenonT(20)

-----------------------------------------------------------------------------
(* What a command does to the states of the zones.                         *)

\* zns_auto_open_zone may have closed the implicitly open zone that was opened
\* first to make room for zone z.
Room(d, o, z) ==
  \/ o = d
  \/ /\ d.zs[z] \in {"EMPTY", "CLOSED"} /\ MaxOpen # 0 /\ d.nr_open = MaxOpen
     /\ \E v \in Zones : /\ v = Head(d.list["IMPLICITLY_OPEN"])
                         /\ d.zs[v] = "IMPLICITLY_OPEN"
                         /\ Transits(d, o, v, "CLOSED")

\* zns_auto_open_zone closes at most one zone, an implicitly open one, and
\* only at the open limit.
LEMMA MakesRoom ==
  ASSUME NEW d, Good(d), NEW z \in Zones
  PROVE  Room(d, AutoOpened(d, z), z)
<1> DEFINE e == zns_auto_transition_zone(d)
<1>1. e = d \/ (MaxOpen # 0 /\ d.nr_open = MaxOpen)
  BY DEF zns_auto_transition_zone
<1>2. \/ e = d
      \/ \E v \in Zones : /\ d.zs[v] = "IMPLICITLY_OPEN"
                          /\ v = Head(d.list["IMPLICITLY_OPEN"])
                          /\ Transits(d, e, v, "CLOSED")
  BY AutoTransitions
<1>3. AutoOpened(d, z) = IF d.zs[z] \in {"EMPTY", "CLOSED"} THEN e ELSE d
  BY DEF AutoOpened
<1> HIDE DEF e
<1> QED BY <1>1, <1>2, <1>3 DEF Room

\* What a write does to zone z of a device o that has room for it: blocks are
\* reserved, and the zone may be opened or filled.
Written(o, z, s) ==
  /\ dev'.zs = [o.zs EXCEPT ![z] = s]
  /\ \/ s = o.zs[z]
     \/ s = "IMPLICITLY_OPEN" /\ o.zs[z] \in {"EMPTY", "CLOSED"}
     \/ s = "FULL" /\ o.zs[z] \in ActiveStates \cup {"EMPTY"}
  /\ status' # "SUCCESS" =>
       /\ dev'.wp = dev.wp
       /\ s # o.zs[z] => /\ status' = "MAP_ERROR" /\ s = "IMPLICITLY_OPEN"
                         /\ dev'.w_ptr[z] > dev.w_ptr[z]
  /\ \A y \in Zones : dev'.w_ptr[y] >= dev.w_ptr[y]

\* A write or an append makes room for its zone and changes nothing else but
\* that zone.
LEMMA WriteEffect ==
  ASSUME IInv, NEW z \in Zones, NEW off \in 0..(ZoneSize - 1),
         NEW nlb \in 1..MaxNlb, NEW append \in BOOLEAN, NEW mapped \in BOOLEAN,
         zns_do_write(z, off, nlb, append, mapped)
  PROVE  \E o : /\ Room(dev, o, z) /\ Good(o) /\ o.zs[z] = dev.zs[z]
                /\ \E s \in ZoneState : Written(o, z, s)
<1> DEFINE checked == WriteStatus(z, off, nlb, append)
           opened == AutoOpened(dev, z)
           advanced == zns_advance_zone_wp(opened, z, nlb)
<1>1. /\ Good(dev) /\ off \in Nat /\ nlb \in Nat /\ nlb > 0
      /\ dev.wp \in [Zones -> Nat] /\ dev.w_ptr \in [Zones -> Nat]
      /\ dev.zs \in [Zones -> ZoneState]
  BY GeometryAssumption, Limits, Fields, SMTT(20) DEF IInv
<1>2. /\ Good(opened) /\ opened.zs[z] = dev.zs[z] /\ opened.wp = dev.wp
      /\ opened.w_ptr = dev.w_ptr
      /\ zns_auto_open_zone(dev, z) = "SUCCESS" =>
           /\ opened.zs[z] = "EMPTY" => zns_aor_check(opened, 1, 1) = "SUCCESS"
           /\ opened.zs[z] = "CLOSED" =>
                zns_aor_check(opened, 0, 1) = "SUCCESS"
  BY <1>1, AutoOpens
<1>3. Room(dev, opened, z)
  BY <1>1, MakesRoom
<1>4. \/ checked # "SUCCESS" /\ dev' = dev
      \/ /\ checked = "SUCCESS"
         /\ status' = zns_auto_open_zone(dev, z) /\ dev' = opened
      \/ /\ checked = "SUCCESS" /\ zns_auto_open_zone(dev, z) = "SUCCESS"
         /\ status' = "MAP_ERROR" /\ dev' = advanced
      \/ /\ checked = "SUCCESS" /\ zns_auto_open_zone(dev, z) = "SUCCESS"
         /\ status' = "SUCCESS"
         /\ dev' = zns_finalize_zoned_write(advanced, z, nlb)
  BY DEF zns_do_write
<1>5. checked = "SUCCESS" => dev.zs[z] \notin {"FULL", "OFFLINE", "READ_ONLY"}
  BY <1>1, Accepts DEF Accepted
<1> HIDE DEF opened, checked
<1>6. opened.zs \in [Zones -> ZoneState]
  BY <1>2, Limits, Fields
<1>7. ZoneState = ActiveStates \cup {"EMPTY", "FULL", "OFFLINE", "READ_ONLY"}
  BY DEF ZoneState, ActiveStates, OpenStates
<1>8. CASE dev' = dev
  <2>1. Room(dev, dev, z)
    BY DEF Room
  <2>2. Written(dev, z, dev.zs[z])
    BY <1>1, <1>8, SMTT(20) DEF Written
  <2> QED BY <1>1, <2>1, <2>2
<1>9. CASE dev' = opened
  <2>1. Written(opened, z, dev.zs[z])
    BY <1>1, <1>2, <1>6, <1>9, SMTT(20) DEF Written
  <2> QED BY <1>1, <1>2, <1>3, <2>1
<1>10. ASSUME checked = "SUCCESS", zns_auto_open_zone(dev, z) = "SUCCESS"
       PROVE  /\ Good(advanced) /\ advanced.wp = dev.wp
              /\ advanced.w_ptr = [dev.w_ptr EXCEPT ![z] = dev.w_ptr[z] + nlb]
              /\ \/ advanced.zs = opened.zs
                 \/ /\ advanced.zs = [opened.zs EXCEPT ![z] = "IMPLICITLY_OPEN"]
                    /\ opened.zs[z] \in {"EMPTY", "CLOSED"}
  <2>1. Reserved(opened, advanced, z, nlb)
    BY <1>1, <1>2, <1>10, Advances
  <2> QED BY <1>1, <1>2, <2>1 DEF Reserved
<1>11. CASE /\ checked = "SUCCESS" /\ zns_auto_open_zone(dev, z) = "SUCCESS"
            /\ status' = "MAP_ERROR" /\ dev' = advanced
  <2>1. PICK s \in {opened.zs[z], "IMPLICITLY_OPEN"} :
          /\ advanced.zs = [opened.zs EXCEPT ![z] = s]
          /\ s = opened.zs[z] \/ opened.zs[z] \in {"EMPTY", "CLOSED"}
    BY <1>6, <1>10, <1>11
  <2>2. s \in ZoneState
    BY <1>6 DEF ZoneState
  <2>3. dev'.w_ptr[z] > dev.w_ptr[z]
        /\ \A y \in Zones : dev'.w_ptr[y] >= dev.w_ptr[y]
    BY <1>1, <1>10, <1>11, SMTT(20)
  <2>4. Written(opened, z, s)
    BY <1>10, <1>11, <2>1, <2>3 DEF Written
  <2> QED BY <1>2, <1>3, <2>2, <2>4
<1>12. CASE /\ checked = "SUCCESS" /\ zns_auto_open_zone(dev, z) = "SUCCESS"
            /\ status' = "SUCCESS"
            /\ dev' = zns_finalize_zoned_write(advanced, z, nlb)
  <2>0. Good(advanced)
    BY <1>10, <1>12
  <2> HIDE DEF advanced
  <2> DEFINE f == zns_finalize_zoned_write(advanced, z, nlb)
  <2>1. /\ f.w_ptr = advanced.w_ptr
        /\ f.zs = advanced.zs \/ f.zs = [advanced.zs EXCEPT ![z] = "FULL"]
    <3>1. Finalized(advanced, f, z, nlb)
      BY <1>1, <2>0, Finalizes
    <3> QED BY <3>1 DEF Finalized
  <2>7. dev' = f
    BY <1>12
  <2> HIDE DEF f
  <2>2. opened.zs[z] \in ActiveStates \cup {"EMPTY"}
    BY <1>1, <1>2, <1>5, <1>7, <1>12
  <2>3. PICK s \in {opened.zs[z], "IMPLICITLY_OPEN", "FULL"} :
          /\ dev'.zs = [opened.zs EXCEPT ![z] = s]
          /\ \/ s = opened.zs[z] \/ s = "FULL"
             \/ s = "IMPLICITLY_OPEN" /\ opened.zs[z] \in {"EMPTY", "CLOSED"}
    BY <1>6, <1>10, <1>12, <2>1, <2>7
  <2>4. s \in ZoneState
    BY <1>6 DEF ZoneState
  <2>5. \A y \in Zones : dev'.w_ptr[y] >= dev.w_ptr[y]
    BY <1>1, <1>10, <1>12, <2>1, <2>7, SMTT(20)
  <2>6. Written(opened, z, s)
    BY <1>12, <2>2, <2>3, <2>5 DEF Written
  <2> QED BY <1>2, <1>3, <2>4, <2>6
<1> QED BY <1>4, <1>8, <1>9, <1>11, <1>12

-----------------------------------------------------------------------------
(* Zone Management Send and shutdown.                                      *)

\* The moves the handlers make, from state a to state s.
Arrow(a, s) ==
  \/ s = "EXPLICITLY_OPEN" /\ a \in {"EMPTY", "CLOSED", "IMPLICITLY_OPEN"}
  \/ s = "CLOSED" /\ a \in OpenStates \cup {"EMPTY"}
  \/ s = "FULL" /\ a \in ActiveStates \cup {"EMPTY"}
  \/ s = "EMPTY" /\ a \in ListStates
  \/ s = "OFFLINE" /\ a = "READ_ONLY"

\* The zones of Y move to state s.
Sent(Y, s) ==
  /\ dev'.zs = [y \in Zones |-> IF y \in Y THEN s ELSE dev.zs[y]]
  /\ \A y \in Y : Arrow(dev.zs[y], s)

\* A command on one zone fails or moves that zone; only Close closes a zone
\* that was explicitly opened.
LEMMA SendEffect ==
  ASSUME IInv, NEW z \in Zones, NEW off \in 0..(ZoneSize - 1),
         NEW action \in SendActions, zns_zone_mgmt_send(z, off, action)
  PROVE  \/ dev' = dev
         \/ /\ status' = "SUCCESS"
            /\ \E s \in ZoneState :
                 /\ Sent({z}, s)
                 /\ s = "CLOSED" /\ dev.zs[z] = "EXPLICITLY_OPEN" =>
                      off = 0 /\ action = "CLOSE"
<1>1. Good(dev) /\ dev.zs \in [Zones -> ZoneState]
  BY Limits, Fields DEF IInv
<1>2. ASSUME NEW s \in ZoneState, dev'.zs = [dev.zs EXCEPT ![z] = s],
             Arrow(dev.zs[z], s)
      PROVE  Sent({z}, s)
  BY <1>1, <1>2 DEF Sent
<1>3. {"EXPLICITLY_OPEN", "CLOSED", "FULL", "EMPTY", "OFFLINE"}
        \subseteq ZoneState
  BY DEF ZoneState
<1>4. CASE off = 0 /\ status' = "SUCCESS" /\ dev' = zns_open_zone(dev, z)
  <2>1. \/ dev' = dev
        \/ /\ dev'.zs = [dev.zs EXCEPT ![z] = "EXPLICITLY_OPEN"]
           /\ Arrow(dev.zs[z], "EXPLICITLY_OPEN")
    BY <1>1, <1>4, Opens DEF Transits, Arrow
  <2> QED BY <1>2, <1>3, <1>4, <2>1
<1>5. CASE /\ off = 0 /\ status' = "SUCCESS" /\ action = "CLOSE"
           /\ dev' = zns_close_zone(dev, z)
  <2>1. \/ dev' = dev
        \/ /\ dev'.zs = [dev.zs EXCEPT ![z] = "CLOSED"]
           /\ Arrow(dev.zs[z], "CLOSED")
    BY <1>1, <1>5, Closes DEF Transits, Arrow
  <2> QED BY <1>2, <1>3, <1>5, <2>1
<1>6. CASE /\ status' = zns_finish_zone_status(dev, z)
           /\ dev' = zns_finish_zone(dev, z)
  <2>1. \/ dev' = dev
        \/ /\ dev'.zs = [dev.zs EXCEPT ![z] = "FULL"]
           /\ dev.zs[z] \in ActiveStates \cup {"EMPTY"}
    <3> DEFINE e == zns_finish_zone(dev, z)
    <3>1. \/ e = dev
          \/ /\ Ends(dev, e, z, "FULL", ZoneCap)
             /\ dev.zs[z] \in ActiveStates \cup {"EMPTY"}
      BY <1>1, Finishes
    <3> HIDE DEF e
    <3> QED BY <1>6, <3>1 DEF Ends, e
  <2>2. dev.zs[z] \in ActiveStates \cup {"EMPTY"} =>
          Arrow(dev.zs[z], "FULL") /\ status' = "SUCCESS"
    BY <1>6 DEF Arrow, zns_finish_zone_status, ActiveStates, OpenStates
  <2> QED BY <1>2, <1>3, <2>1, <2>2
<1>7. CASE status' = "SUCCESS" /\ dev' = zns_reset_zone(dev, z)
  <2>1. \/ dev' = dev
        \/ /\ dev'.zs = [dev.zs EXCEPT ![z] = "EMPTY"]
           /\ Arrow(dev.zs[z], "EMPTY")
    <3> DEFINE e == zns_reset_zone(dev, z)
    <3>1. \/ e = dev
          \/ Ends(dev, e, z, "EMPTY", 0) /\ dev.zs[z] \in ListStates
      BY <1>1, Resets
    <3> HIDE DEF e
    <3> QED BY <1>7, <3>1 DEF Ends, e, Arrow
  <2> QED BY <1>2, <1>3, <1>7, <2>1
<1>8. CASE /\ status' = zns_offline_zone_status(dev, z)
           /\ dev' = zns_offline_zone(dev, z)
  <2>1. \/ dev' = dev
        \/ /\ dev'.zs = [dev.zs EXCEPT ![z] = "OFFLINE"]
           /\ dev.zs[z] = "READ_ONLY"
    BY <1>1, <1>8, Offlines DEF Transits
  <2>2. dev.zs[z] = "READ_ONLY" =>
          Arrow(dev.zs[z], "OFFLINE") /\ status' = "SUCCESS"
    BY <1>8 DEF Arrow, zns_offline_zone_status
  <2> QED BY <1>2, <1>3, <2>1, <2>2
<1>9. CASE /\ status' = zns_set_zd_ext_status(dev, z)
           /\ dev' = zns_set_zd_ext(dev, z)
  <2>1. \/ dev' = dev
        \/ /\ dev'.zs = [dev.zs EXCEPT ![z] = "CLOSED"]
           /\ dev.zs[z] = "EMPTY"
    BY <1>1, <1>9, SetsZdExt DEF Transits
  <2>2. dev' = dev \/ status' = "SUCCESS"
    BY <1>9 DEF zns_set_zd_ext
  <2>3. dev.zs[z] = "EMPTY" => Arrow(dev.zs[z], "CLOSED")
    BY DEF Arrow
  <2> QED BY <1>2, <1>3, <2>1, <2>2, <2>3
<1> QED BY <1>4, <1>5, <1>6, <1>7, <1>8, <1>9 DEF zns_zone_mgmt_send

\* A command on all zones moves a set of zones.
LEMMA SendAllEffect ==
  ASSUME IInv, NEW action \in SendActions, zns_zone_mgmt_send_all(action)
  PROVE  \/ dev' = dev
         \/ /\ status' = "SUCCESS"
            /\ \E Y \in SUBSET Zones, s \in ZoneState :
                 Sent(Y, s) /\ (s = "CLOSED" => action = "CLOSE")
<1>1. Good(dev) /\ dev.zs \in [Zones -> ZoneState]
  BY Limits, Fields DEF IInv
<1>2. {"EXPLICITLY_OPEN", "CLOSED", "FULL", "EMPTY", "OFFLINE"}
        \subseteq ZoneState
  BY DEF ZoneState
<1>3. CASE action = "OPEN"
  <2>1. dev' = OpenAll(dev) /\ status' = "SUCCESS"
    BY <1>3 DEF zns_zone_mgmt_send_all
  <2>2. PICK Y \in SUBSET {z \in Zones : dev.zs[z] = "CLOSED"} :
          TransitsAll(dev, dev', Y, "EXPLICITLY_OPEN")
    BY <1>1, <2>1, OpensAll
  <2>3. Sent(Y, "EXPLICITLY_OPEN") /\ Y \in SUBSET Zones
    BY <2>2 DEF Sent, Arrow, TransitsAll
  <2> QED BY <1>2, <2>1, <2>3
<1>4. CASE action = "CLOSE"
  <2> DEFINE Y == {z \in Zones : dev.zs[z] \in OpenStates}
  <2>1. dev' = CloseAll(dev) /\ status' = "SUCCESS"
    BY <1>4 DEF zns_zone_mgmt_send_all
  <2>2. TransitsAll(dev, dev', Y, "CLOSED")
    BY <1>1, <2>1, ClosesAll
  <2>3. Sent(Y, "CLOSED") /\ Y \in SUBSET Zones
    BY <2>2 DEF Sent, Arrow, TransitsAll
  <2> QED BY <1>2, <1>4, <2>1, <2>3
<1>5. CASE action = "FINISH"
  <2> DEFINE Y == {z \in Zones : dev.zs[z] \in ActiveStates}
  <2>1. dev' = FinishAll(dev) /\ status' = "SUCCESS"
    BY <1>5 DEF zns_zone_mgmt_send_all
  <2>2. dev'.zs = [z \in Zones |-> IF dev.zs[z] \in ActiveStates THEN "FULL"
                                   ELSE dev.zs[z]]
    <3> DEFINE e == FinishAll(dev)
    <3>1. /\ Good(e)
          /\ e.zs = [z \in Zones |-> IF dev.zs[z] \in ActiveStates THEN "FULL"
                                     ELSE dev.zs[z]]
          /\ e.wp = [z \in Zones |-> IF dev.zs[z] \in ActiveStates THEN ZoneCap
                                     ELSE dev.wp[z]]
          /\ e.w_ptr = [z \in Zones |-> IF dev.zs[z] \in ActiveStates
                                        THEN ZoneCap ELSE dev.w_ptr[z]]
      BY <1>1, FinishesAll
    <3> HIDE DEF e
    <3> QED BY <2>1, <3>1 DEF e
  <2>3. Sent(Y, "FULL") /\ Y \in SUBSET Zones
    BY <2>2 DEF Sent, Arrow
  <2> QED BY <1>2, <2>1, <2>3
<1>6. CASE action = "RESET"
  <2> DEFINE Y == {z \in Zones : dev.zs[z] \in ListStates}
  <2>1. dev' = ResetAll(dev) /\ status' = "SUCCESS"
    BY <1>6 DEF zns_zone_mgmt_send_all
  <2>2. dev'.zs = [z \in Zones |-> IF dev.zs[z] \in ListStates THEN "EMPTY"
                                   ELSE dev.zs[z]]
    <3> DEFINE e == ResetAll(dev)
    <3>1. /\ Good(e)
          /\ e.zs = [z \in Zones |-> IF dev.zs[z] \in ListStates THEN "EMPTY"
                                     ELSE dev.zs[z]]
          /\ e.wp = [z \in Zones |-> IF dev.zs[z] \in ListStates THEN 0
                                     ELSE dev.wp[z]]
          /\ e.w_ptr = [z \in Zones |-> IF dev.zs[z] \in ListStates THEN 0
                                        ELSE dev.w_ptr[z]]
      BY <1>1, ResetsAll
    <3> HIDE DEF e
    <3> QED BY <2>1, <3>1 DEF e
  <2>3. Sent(Y, "EMPTY") /\ Y \in SUBSET Zones
    BY <2>2 DEF Sent, Arrow
  <2> QED BY <1>2, <2>1, <2>3
<1>7. CASE action = "OFFLINE"
  <2> DEFINE Y == {z \in Zones : dev.zs[z] = "READ_ONLY"}
  <2>1. dev' = OfflineAll(dev) /\ status' = "SUCCESS"
    BY <1>7 DEF zns_zone_mgmt_send_all
  <2>2. dev'.zs = [z \in Zones |-> IF dev.zs[z] = "READ_ONLY" THEN "OFFLINE"
                                   ELSE dev.zs[z]]
    BY <1>1, <2>1, OfflinesAll
  <2>3. Sent(Y, "OFFLINE") /\ Y \in SUBSET Zones
    BY <2>2 DEF Sent, Arrow
  <2> QED BY <1>2, <2>1, <2>3
<1>8. CASE action \in {"SET_ZD_EXT", "UNKNOWN"}
  BY <1>8 DEF zns_zone_mgmt_send_all
<1> QED BY <1>3, <1>4, <1>5, <1>6, <1>7, <1>8 DEF SendActions

\* The shutdown loop closes or empties an active zone, and drops what was
\* reserved but not written.
LEMMA ShutdownEffect ==
  ASSUME IInv, ShutdownZone
  PROVE  \E z \in Zones, s \in {"CLOSED", "EMPTY"} :
           /\ dev'.zs = [dev.zs EXCEPT ![z] = s]
           /\ dev.zs[z] \in ActiveStates
           /\ dev'.w_ptr = [dev.w_ptr EXCEPT ![z] = dev.wp[z]]
<1> DEFINE l == dev.list[phase]
           z == l[Len(l) - left + 1]
<1>1. /\ Good(dev) /\ ShutdownProgress /\ left \in Nat
      /\ phase \in ActiveStates /\ left > 0
  BY DEF IInv, ShutdownZone
<1>2. phase \in ListStates /\ phase # "run"
  BY <1>1 DEF ListStates, ActiveStates, OpenStates
<1>3. Lists(l, In(dev, phase)) /\ Len(l) \in Nat
  BY <1>1, <1>2, Lengths DEF Good, ListsOK
<1>4. Len(l) - left + 1 \in 1..Len(l)
  BY <1>1, <1>2, <1>3, SMTT(20) DEF ShutdownProgress
<1>5. z \in In(dev, phase)
  <2>1. \A i \in 1..Len(l) : l[i] \in In(dev, phase)
    BY <1>3, ElementOfSeq DEF Lists
  <2> HIDE DEF l
  <2> QED BY <1>4, <2>1
<1>6. dev' = ClearZone(dev, z)
  BY DEF ShutdownZone, ClearZone
<1> HIDE DEF z
<1>7. z \in Zones /\ dev.zs[z] \in ActiveStates
  BY <1>1, <1>5 DEF In
<1>8. Cleared(dev, dev', z)
  BY <1>1, <1>6, <1>7, ClearsZone
<1>9. PICK s \in {"CLOSED", "EMPTY"} : dev'.zs = [dev.zs EXCEPT ![z] = s]
  BY <1>8 DEF Cleared
<1>10. dev'.w_ptr = [dev.w_ptr EXCEPT ![z] = dev.wp[z]]
  BY <1>8 DEF Cleared
<1> QED BY <1>7, <1>9, <1>10

-----------------------------------------------------------------------------
(* The action properties.                                                  *)

\* The steps of a device, sorted by what they may do to it.
LEMMA StepKinds ==
  ASSUME IInv, [Next]_vars
  PROVE  \/ dev' = dev
         \/ \E z \in Zones, off \in 0..(ZoneSize - 1), nlb \in 1..MaxNlb,
               append \in BOOLEAN, mapped \in BOOLEAN :
              zns_do_write(z, off, nlb, append, mapped)
         \/ \E z \in Zones, off \in 0..(ZoneSize - 1), action \in SendActions :
              zns_zone_mgmt_send(z, off, action)
         \/ \E action \in SendActions : zns_zone_mgmt_send_all(action)
         \/ ShutdownZone
<1>1. \A z, off, nlb : zns_read(z, off, nlb) => dev' = dev
  BY DEF zns_read
<1>2. zns_zone_mgmt_recv \/ zns_ns_shutdown \/ ShutdownNextList => dev' = dev
  BY DEF zns_zone_mgmt_recv, zns_ns_shutdown, ShutdownNextList
<1>3. UNCHANGED vars => dev' = dev
  BY DEF vars
<1> QED BY <1>1, <1>2, <1>3 DEF Next

\* The step of FailureKeepsZones.
FailureStep ==
  status' # "SUCCESS" /\ phase = "run" /\ phase' = "run" =>
       /\ dev'.wp = dev.wp
       /\ \A z \in Zones : dev'.zs[z] # dev.zs[z] =>
            \/ /\ dev.zs[z] = "IMPLICITLY_OPEN" /\ dev'.zs[z] = "CLOSED"
               /\ z = Head(dev.list["IMPLICITLY_OPEN"])
            \/ /\ status' = "MAP_ERROR"
               /\ dev'.zs[z] = "IMPLICITLY_OPEN"
               /\ dev'.w_ptr[z] > dev.w_ptr[z]

\* No step does what FailureKeepsZones forbids.
LEMMA FailureSteps == IInv /\ [Next]_vars => FailureStep
<1> SUFFICES ASSUME IInv, [Next]_vars, status' # "SUCCESS", phase = "run"
             PROVE  /\ dev'.wp = dev.wp
                    /\ \A y \in Zones : dev'.zs[y] # dev.zs[y] =>
                         \/ /\ dev.zs[y] = "IMPLICITLY_OPEN"
                            /\ dev'.zs[y] = "CLOSED"
                            /\ y = Head(dev.list["IMPLICITLY_OPEN"])
                         \/ /\ status' = "MAP_ERROR"
                            /\ dev'.zs[y] = "IMPLICITLY_OPEN"
                            /\ dev'.w_ptr[y] > dev.w_ptr[y]
  BY DEF FailureStep
<1>1. CASE dev' = dev
  BY <1>1
<1>2. ASSUME NEW z \in Zones, NEW off \in 0..(ZoneSize - 1),
             NEW nlb \in 1..MaxNlb, NEW append \in BOOLEAN,
             NEW mapped \in BOOLEAN, zns_do_write(z, off, nlb, append, mapped)
      PROVE  /\ dev'.wp = dev.wp
             /\ \A y \in Zones : dev'.zs[y] # dev.zs[y] =>
                  \/ /\ dev.zs[y] = "IMPLICITLY_OPEN" /\ dev'.zs[y] = "CLOSED"
                     /\ y = Head(dev.list["IMPLICITLY_OPEN"])
                  \/ /\ status' = "MAP_ERROR"
                     /\ dev'.zs[y] = "IMPLICITLY_OPEN"
                     /\ dev'.w_ptr[y] > dev.w_ptr[y]
  <2>1. PICK o : /\ Room(dev, o, z) /\ Good(o) /\ o.zs[z] = dev.zs[z]
                 /\ \E s \in ZoneState : Written(o, z, s)
    BY <1>2, WriteEffect
  <2>2. PICK s \in ZoneState : Written(o, z, s)
    BY <2>1
  <2>3. o.zs \in [Zones -> ZoneState] /\ dev.zs \in [Zones -> ZoneState]
    BY <2>1, Limits, Fields DEF IInv
  <2>4. /\ dev'.wp = dev.wp /\ dev'.zs = [o.zs EXCEPT ![z] = s]
        /\ s # o.zs[z] => /\ status' = "MAP_ERROR" /\ s = "IMPLICITLY_OPEN"
                          /\ dev'.w_ptr[z] > dev.w_ptr[z]
    BY <2>2 DEF Written
  <2>5. ASSUME NEW y \in Zones, dev'.zs[y] # dev.zs[y]
        PROVE  \/ /\ dev.zs[y] = "IMPLICITLY_OPEN" /\ dev'.zs[y] = "CLOSED"
                  /\ y = Head(dev.list["IMPLICITLY_OPEN"])
               \/ /\ status' = "MAP_ERROR" /\ dev'.zs[y] = "IMPLICITLY_OPEN"
                  /\ dev'.w_ptr[y] > dev.w_ptr[y]
    <3>1. CASE y = z
      BY <2>1, <2>3, <2>4, <2>5, <3>1
    <3>2. CASE y # z
      <4>1. dev'.zs[y] = o.zs[y] /\ o # dev
        BY <2>3, <2>4, <2>5, <3>2
      <4>2. PICK v \in Zones : /\ v = Head(dev.list["IMPLICITLY_OPEN"])
                               /\ dev.zs[v] = "IMPLICITLY_OPEN"
                               /\ Transits(dev, o, v, "CLOSED")
        BY <2>1, <4>1 DEF Room
      <4>3. o.zs = [dev.zs EXCEPT ![v] = "CLOSED"]
        BY <4>2 DEF Transits
      <4> QED BY <2>3, <2>5, <4>1, <4>2, <4>3
    <3> QED BY <3>1, <3>2
  <2> QED BY <2>4, <2>5
<1>3. ASSUME NEW z \in Zones, NEW off \in 0..(ZoneSize - 1),
             NEW action \in SendActions, zns_zone_mgmt_send(z, off, action)
      PROVE  dev' = dev
  BY <1>3, SendEffect
<1>4. ASSUME NEW action \in SendActions, zns_zone_mgmt_send_all(action)
      PROVE  dev' = dev
  BY <1>4, SendAllEffect
<1>5. ~ShutdownZone
  BY DEF ShutdownZone
<1> QED BY <1>1, <1>2, <1>3, <1>4, <1>5, StepKinds

\* A command that fails publishes no data and changes the state of no zone
\* but for the two side effects zns_do_write has before it can fail: the zone
\* implicitly opened first may be closed, and a write that cannot map its
\* buffer has reserved its blocks and opened its zone.
THEOREM FailuresKeepZones == Spec => FailureKeepsZones
<1>1. IInv /\ [Next]_vars => [FailureStep]_vars
  BY FailureSteps
<1> QED BY <1>1, Invariance, PTL DEF Spec, FailureKeepsZones, FailureStep

\* The step of RewindOnlyByReset.
RewindStep ==
  \A z \in Zones : dev'.w_ptr[z] < dev.w_ptr[z] =>
       \/ dev'.zs[z] = "EMPTY" /\ dev'.w_ptr[z] = 0
       \/ DmaMayFail /\ phase # "run" /\ dev'.w_ptr[z] = dev.wp[z]
       \/ AppendMayOverrun /\ dev'.zs[z] = "FULL"

\* All commands but writes.
LEMMA FollowsRewinds ==
  ASSUME IInv, \A y \in Zones : Follows(dev, dev', y)
  PROVE  RewindStep
<1> SUFFICES ASSUME NEW y \in Zones, dev'.w_ptr[y] < dev.w_ptr[y]
             PROVE  \/ dev'.zs[y] = "EMPTY" /\ dev'.w_ptr[y] = 0
                    \/ AppendMayOverrun /\ dev'.zs[y] = "FULL"
  BY DEF RewindStep
<1>1. dev.w_ptr[y] \in Nat /\ ZoneCap \in Nat
  BY Limits, Fields, GeometryAssumption, SMTT(20) DEF IInv
<1>2. ~AppendMayOverrun => dev.w_ptr[y] <= ZoneCap
  BY DEF IInv, PointersOK
<1> QED BY <1>1, <1>2, SMTT(20) DEF Follows

\* No step does what RewindOnlyByReset forbids.
LEMMA RewindSteps == IInv /\ [Next]_vars => RewindStep
<1> SUFFICES ASSUME IInv, [Next]_vars PROVE RewindStep
  OBVIOUS
<1>1. /\ Good(dev) /\ dev.w_ptr \in [Zones -> Nat]
      /\ dev.wp \in [Zones -> Nat]
  BY Limits, Fields DEF IInv
<1>2. CASE dev' = dev
  BY <1>2, StayFollows, FollowsRewinds
<1>3. ASSUME NEW z \in Zones, NEW off \in 0..(ZoneSize - 1),
             NEW nlb \in 1..MaxNlb, NEW append \in BOOLEAN,
             NEW mapped \in BOOLEAN, zns_do_write(z, off, nlb, append, mapped)
      PROVE  RewindStep
  <2>1. /\ \A y \in Zones : dev'.w_ptr[y] >= dev.w_ptr[y]
        /\ \A y \in Zones : dev'.w_ptr[y] \in Nat
    <3>1. \A y \in Zones : dev'.w_ptr[y] >= dev.w_ptr[y]
      BY <1>3, WriteEffect DEF Written
    <3>2. Good(dev')
      BY <1>3, WriteStep DEF IInv
    <3>3. dev'.w_ptr \in [Zones -> Nat]
      BY <3>2, Limits, Fields
    <3> QED BY <3>1, <3>3
  <2> QED BY <1>1, <2>1, SMTT(20) DEF RewindStep
<1>4. ASSUME NEW z \in Zones, NEW off \in 0..(ZoneSize - 1),
             NEW action \in SendActions, zns_zone_mgmt_send(z, off, action)
      PROVE  RewindStep
  <2>1. dev' \in {dev, zns_open_zone(dev, z), zns_close_zone(dev, z),
                  zns_finish_zone(dev, z), zns_reset_zone(dev, z),
                  zns_offline_zone(dev, z), zns_set_zd_ext(dev, z)}
    BY <1>4 DEF zns_zone_mgmt_send
  <2> QED BY <1>1, <2>1, SendOne, FollowsRewinds
<1>5. ASSUME NEW action \in SendActions, zns_zone_mgmt_send_all(action)
      PROVE  RewindStep
  <2>1. dev' \in {dev, OpenAll(dev), CloseAll(dev), FinishAll(dev),
                  ResetAll(dev), OfflineAll(dev)}
    BY <1>5 DEF zns_zone_mgmt_send_all, SendActions
  <2> QED BY <1>1, <2>1, SendAll, FollowsRewinds
<1>6. CASE ShutdownZone
  <2>1. PICK z \in Zones : dev'.w_ptr = [dev.w_ptr EXCEPT ![z] = dev.wp[z]]
    BY <1>6, ShutdownEffect
  <2>2. phase # "run"
    BY <1>6 DEF ShutdownZone
  <2>3. ~DmaMayFail => dev.wp[z] = dev.w_ptr[z]
    BY DEF IInv, PointersOK
  <2> SUFFICES ASSUME NEW y \in Zones, dev'.w_ptr[y] < dev.w_ptr[y]
               PROVE  DmaMayFail /\ dev'.w_ptr[y] = dev.wp[y]
    BY <2>2 DEF RewindStep
  <2>4. y = z /\ dev'.w_ptr[z] = dev.wp[z]
    BY <1>1, <2>1, SMTT(20)
  <2> QED BY <1>1, <2>3, <2>4, SMTT(20)
<1> QED BY <1>2, <1>3, <1>4, <1>5, <1>6, StepKinds

\* Written blocks come back only through a reset: no command but a reset moves
\* the internal write pointer backwards, except the shutdown loop for blocks
\* reserved and never written, and finishing a zone that was overrun.
THEOREM OnlyResetRewinds == Spec => RewindOnlyByReset
<1>1. IInv /\ [Next]_vars => [RewindStep]_vars
  BY RewindSteps
<1> QED BY <1>1, Invariance, PTL DEF Spec, RewindOnlyByReset, RewindStep

\* The step of ExplicitStaysOpen.
ExplicitStep ==
  \A z \in Zones :
       dev.zs[z] = "EXPLICITLY_OPEN" /\ dev'.zs[z] = "CLOSED" =>
         \/ zns_zone_mgmt_send(z, 0, "CLOSE")
         \/ zns_zone_mgmt_send_all("CLOSE")
         \/ ShutdownZone

\* No step does what ExplicitStaysOpen forbids.
LEMMA ExplicitSteps == IInv /\ [Next]_vars => ExplicitStep
<1> SUFFICES ASSUME IInv, [Next]_vars, NEW y \in Zones,
                    dev.zs[y] = "EXPLICITLY_OPEN", dev'.zs[y] = "CLOSED"
             PROVE  \/ zns_zone_mgmt_send(y, 0, "CLOSE")
                    \/ zns_zone_mgmt_send_all("CLOSE")
                    \/ ShutdownZone
  BY DEF ExplicitStep
<1>1. Good(dev) /\ dev.zs \in [Zones -> ZoneState] /\ dev' # dev
  BY Limits, Fields DEF IInv
<1>2. ASSUME NEW z \in Zones, NEW off \in 0..(ZoneSize - 1),
             NEW nlb \in 1..MaxNlb, NEW append \in BOOLEAN,
             NEW mapped \in BOOLEAN, zns_do_write(z, off, nlb, append, mapped)
      PROVE  FALSE
  <2>1. PICK o : /\ Room(dev, o, z) /\ Good(o) /\ o.zs[z] = dev.zs[z]
                 /\ \E s \in ZoneState : Written(o, z, s)
    BY <1>2, WriteEffect
  <2>2. PICK s \in ZoneState : Written(o, z, s)
    BY <2>1
  <2>3. o.zs \in [Zones -> ZoneState]
    BY <2>1, Limits, Fields
  <2>4. /\ dev'.zs = [o.zs EXCEPT ![z] = s]
        /\ s \in {o.zs[z], "IMPLICITLY_OPEN", "FULL"}
    BY <2>2 DEF Written
  <2>5. o.zs[y] = "CLOSED"
    BY <1>1, <2>1, <2>3, <2>4
  <2>6. PICK v \in Zones : /\ dev.zs[v] = "IMPLICITLY_OPEN"
                           /\ Transits(dev, o, v, "CLOSED")
    BY <2>1, <2>5 DEF Room
  <2>7. o.zs = [dev.zs EXCEPT ![v] = "CLOSED"]
    BY <2>6 DEF Transits
  <2> QED BY <1>1, <2>5, <2>6, <2>7
<1>3. ASSUME NEW z \in Zones, NEW off \in 0..(ZoneSize - 1),
             NEW action \in SendActions, zns_zone_mgmt_send(z, off, action)
      PROVE  zns_zone_mgmt_send(y, 0, "CLOSE")
  <2>1. PICK s \in ZoneState :
          /\ Sent({z}, s)
          /\ s = "CLOSED" /\ dev.zs[z] = "EXPLICITLY_OPEN" =>
               off = 0 /\ action = "CLOSE"
    BY <1>1, <1>3, SendEffect
  <2>2. y = z /\ s = "CLOSED"
    BY <1>1, <2>1 DEF Sent
  <2> QED BY <1>3, <2>1, <2>2
<1>4. ASSUME NEW action \in SendActions, zns_zone_mgmt_send_all(action)
      PROVE  zns_zone_mgmt_send_all("CLOSE")
  <2>1. PICK Y \in SUBSET Zones, s \in ZoneState :
          Sent(Y, s) /\ (s = "CLOSED" => action = "CLOSE")
    BY <1>1, <1>4, SendAllEffect
  <2>2. s = "CLOSED"
    BY <1>1, <2>1 DEF Sent
  <2> QED BY <1>4, <2>1, <2>2
<1> QED BY <1>1, <1>2, <1>3, <1>4, StepKinds

\* An explicitly opened zone is closed only by a Close command or at shutdown:
\* zns_auto_transition_zone never takes one to make room.
THEOREM ExplicitZonesStayOpen == Spec => ExplicitStaysOpen
<1>1. IInv /\ [Next]_vars => [ExplicitStep]_vars
  BY ExplicitSteps
<1> QED BY <1>1, Invariance, PTL DEF Spec, ExplicitStaysOpen, ExplicitStep

-----------------------------------------------------------------------------
(* The device implements the abstract state machine.                       *)

\* A list without repetitions is as long as the set it lists is large.
LEMMA ListCounts ==
  ASSUME NEW Z, NEW l, Lists(l, Z)
  PROVE  Cardinality(Z) = Len(l)
<1>1. /\ Len(l) \in Nat /\ l \in [1..Len(l) -> Z]
      /\ IsInjective(l) /\ Range(l) = Z /\ DOMAIN l = 1..Len(l)
  BY SMTT(20) DEF Lists
<1>2. \A i, j \in 1..Len(l) : l[i] = l[j] => i = j
  BY <1>1 DEF IsInjective
<1>3. \A z \in Z : \E i \in 1..Len(l) : l[i] = z
  BY <1>1 DEF Range
<1>4. l \in Bijection(1..Len(l), Z)
  BY <1>1, <1>2, <1>3 DEF Bijection, Injection, Surjection
<1>5. ExistsBijection(1..Len(l), Z)
  BY <1>4 DEF ExistsBijection
<1> QED BY <1>1, <1>5, FS_CountingElements

\* The machine counts sets as the device does.
LEMMA SameCardinality == \A S : Machine!Cardinality(S) = Cardinality(S)
BY DEF Machine!Cardinality, Cardinality

\* The counters of a good device count its zones, one by one.
LEMMA GoodCounts ==
  ASSUME NEW d, Good(d)
  PROVE  /\ Machine!WithinLimits(d.zs)
         /\ MaxOpen # 0 => Machine!InStates(d.zs, OpenStates) = d.nr_open
<1> DEFINE O == {z \in Zones : d.zs[z] \in OpenStates}
           A == {z \in Zones : d.zs[z] \in ActiveStates}
<1>1. Lists(Opened(d), O) /\ Lists(Active(d), A)
  BY Walks
<1>2. Cardinality(O) = Len(Opened(d)) /\ Cardinality(A) = Len(Active(d))
  BY <1>1, ListCounts
<1>3. /\ MaxOpen # 0 => d.nr_open = Len(Opened(d))
      /\ MaxActive # 0 => d.nr_active = Len(Active(d))
  BY Numbers
<1>4. d.nr_open <= MaxOpen /\ d.nr_active <= MaxActive
  BY Limits
<1>5. /\ Machine!InStates(d.zs, OpenStates) = Cardinality(O)
      /\ Machine!InStates(d.zs, ActiveStates) = Cardinality(A)
  BY SameCardinality DEF Machine!InStates
<1>6. Machine!OpenStates = OpenStates /\ Machine!ActiveStates = ActiveStates
  BY DEF Machine!OpenStates, Machine!ActiveStates, OpenStates, ActiveStates
<1> HIDE DEF O, A
<1>7. /\ MaxOpen # 0 => Machine!InStates(d.zs, OpenStates) <= MaxOpen
      /\ MaxActive # 0 => Machine!InStates(d.zs, ActiveStates) <= MaxActive
  BY <1>2, <1>3, <1>4, <1>5
<1>8. Machine!WithinLimits(d.zs)
  BY <1>6, <1>7 DEF Machine!WithinLimits
<1> QED BY <1>2, <1>3, <1>5, <1>8

\* The states a command may move zones to.
Targets == {"IMPLICITLY_OPEN", "EXPLICITLY_OPEN", "CLOSED", "FULL", "EMPTY",
            "OFFLINE"}

\* The moves of the handlers are arrows of the machine.
LEMMA ArrowsAgree ==
  ASSUME NEW a, NEW s,
         \/ Arrow(a, s)
         \/ s = "IMPLICITLY_OPEN" /\ a \in {"EMPTY", "CLOSED"}
         \/ s = "FULL" /\ a \in ActiveStates \cup {"EMPTY"}
         \/ s \in {"CLOSED", "EMPTY"} /\ a \in ActiveStates /\ a # s
  PROVE  <<a, s>> \in Machine!Arrows /\ s \in Targets
BY DEF Arrow, Targets, Machine!Arrows, Machine!OpenStates,
       Machine!ActiveStates, OpenStates, ActiveStates, ListStates

\* Moving a set of zones along arrows is a command of the machine.
LEMMA MovesAreCommands ==
  ASSUME Good(dev'), NEW Y \in SUBSET Zones, NEW s \in Targets,
         \A y \in Y : <<dev.zs[y], s>> \in Machine!Arrows,
         s = "IMPLICITLY_OPEN" => \E z : Y = {z},
         dev'.zs = [z \in Zones |-> IF z \in Y THEN s ELSE dev.zs[z]]
  PROVE  Machine!Next
<1>1. Machine!WithinLimits(dev'.zs)
  BY GoodCounts
<1>2. s = "IMPLICITLY_OPEN" => Cardinality(Y) <= 1
  <2> SUFFICES ASSUME NEW z, Y = {z} PROVE Cardinality(Y) <= 1
    OBVIOUS
  <2>1. Cardinality({z}) = 1
    BY FS_Singleton
  <2> QED BY <2>1, SMTT(20)
<1>3. Machine!Command
  BY <1>1, <1>2, SameCardinality DEF Machine!Command, Targets
<1> QED BY <1>3 DEF Machine!Next

\* One zone moves.
LEMMA MoveIsCommand ==
  ASSUME Good(dev), Good(dev'), NEW z \in Zones, NEW s \in Targets,
         <<dev.zs[z], s>> \in Machine!Arrows,
         dev'.zs = [dev.zs EXCEPT ![z] = s]
  PROVE  Machine!Next
<1>1. dev.zs \in [Zones -> ZoneState]
  BY Limits, Fields
<1>2. dev'.zs = [y \in Zones |-> IF y \in {z} THEN s ELSE dev.zs[y]]
  BY <1>1
<1>3. {z} \in SUBSET Zones /\ \A y \in {z} : <<dev.zs[y], s>> \in Machine!Arrows
  OBVIOUS
<1>4. \E y : {z} = {y}
  OBVIOUS
<1> QED BY <1>2, <1>3, <1>4, MovesAreCommands

\* A write is a command on its zone, or makes room for it.
LEMMA WriteRefines ==
  ASSUME IInv, IInv', NEW z \in Zones, NEW off \in 0..(ZoneSize - 1),
         NEW nlb \in 1..MaxNlb, NEW append \in BOOLEAN, NEW mapped \in BOOLEAN,
         zns_do_write(z, off, nlb, append, mapped)
  PROVE  Machine!Next \/ dev'.zs = dev.zs
<1>1. PICK o : /\ Room(dev, o, z) /\ Good(o) /\ o.zs[z] = dev.zs[z]
               /\ \E s \in ZoneState : Written(o, z, s)
  BY WriteEffect
<1>2. PICK s \in ZoneState : Written(o, z, s)
  BY <1>1
<1>3. /\ dev'.zs = [o.zs EXCEPT ![z] = s]
      /\ \/ s = o.zs[z]
         \/ s = "IMPLICITLY_OPEN" /\ o.zs[z] \in {"EMPTY", "CLOSED"}
         \/ s = "FULL" /\ o.zs[z] \in ActiveStates \cup {"EMPTY"}
  BY <1>2 DEF Written
<1>4. /\ Good(dev) /\ Good(dev') /\ dev.zs \in [Zones -> ZoneState]
      /\ o.zs \in [Zones -> ZoneState]
  BY <1>1, Limits, Fields DEF IInv
<1>5. CASE o = dev
  <2>1. CASE s = o.zs[z]
    BY <1>3, <1>4, <1>5, <2>1
  <2>2. CASE s # o.zs[z]
    <3>1. <<dev.zs[z], s>> \in Machine!Arrows /\ s \in Targets
      BY <1>3, <1>5, <2>2, ArrowsAgree
    <3> QED BY <1>3, <1>4, <1>5, <3>1, MoveIsCommand
  <2> QED BY <2>1, <2>2
<1>6. CASE o # dev
  <2>1. PICK v \in Zones : /\ dev.zs[v] = "IMPLICITLY_OPEN"
                           /\ Transits(dev, o, v, "CLOSED")
    BY <1>1, <1>6 DEF Room
  <2>2. /\ dev.zs[z] \in {"EMPTY", "CLOSED"} /\ MaxOpen # 0
        /\ dev.nr_open = MaxOpen
    BY <1>1, <1>6 DEF Room
  <2>3. Machine!InStates(dev.zs, Machine!OpenStates) = MaxOpen
    <3>1. Machine!OpenStates = OpenStates
      BY DEF Machine!OpenStates, OpenStates
    <3> QED BY <1>4, <2>2, <3>1, GoodCounts
  <2>4. Machine!WithinLimits(dev'.zs)
    BY <1>4, GoodCounts
  <2>5. /\ s \in {dev.zs[z], "IMPLICITLY_OPEN", "FULL"}
        /\ dev'.zs = [dev.zs EXCEPT ![v] = "CLOSED", ![z] = s]
    <3>1. o.zs = [dev.zs EXCEPT ![v] = "CLOSED"]
      BY <2>1 DEF Transits
    <3> QED BY <1>1, <1>3, <1>4, <3>1
  <2>6. Machine!MakeRoom(v, z)
    BY <2>1, <2>2, <2>3, <2>4, <2>5 DEF Machine!MakeRoom
  <2> QED BY <2>6 DEF Machine!Next
<1> QED BY <1>5, <1>6

\* Every step of the device is a step of the machine or leaves it alone.
LEMMA StepRefines ==
  IInv /\ IInv' /\ [Next]_vars => [Machine!Next]_(dev.zs)
<1> SUFFICES ASSUME IInv, IInv', [Next]_vars
             PROVE  Machine!Next \/ dev'.zs = dev.zs
  OBVIOUS
<1>1. /\ Good(dev) /\ Good(dev') /\ dev.zs \in [Zones -> ZoneState]
  BY Limits, Fields DEF IInv
<1>2. ASSUME NEW Y \in SUBSET Zones, NEW s, Sent(Y, s)
      PROVE  Machine!Next \/ dev'.zs = dev.zs
  <2>1. CASE Y = {}
    BY <1>1, <1>2, <2>1 DEF Sent
  <2>2. CASE Y # {}
    <3>1. \A y \in Y : <<dev.zs[y], s>> \in Machine!Arrows /\ s \in Targets
      BY <1>2, ArrowsAgree DEF Sent
    <3>2. s # "IMPLICITLY_OPEN" /\ s \in Targets
      <4>1. PICK y \in Y : TRUE
        BY <2>2
      <4>2. Arrow(dev.zs[y], s) /\ s \in Targets
        BY <1>2, <3>1 DEF Sent
      <4> QED BY <4>2 DEF Arrow
    <3>3. dev'.zs = [z \in Zones |-> IF z \in Y THEN s ELSE dev.zs[z]]
      BY <1>2 DEF Sent
    <3> QED BY <1>1, <3>1, <3>2, <3>3, MovesAreCommands
  <2> QED BY <2>1, <2>2
<1>3. ASSUME NEW z \in Zones, NEW off \in 0..(ZoneSize - 1),
             NEW action \in SendActions, zns_zone_mgmt_send(z, off, action)
      PROVE  Machine!Next \/ dev'.zs = dev.zs
  <2>1. dev' = dev \/ \E s \in ZoneState : Sent({z}, s)
    BY <1>3, SendEffect
  <2>2. {z} \in SUBSET Zones
    OBVIOUS
  <2> QED BY <1>2, <2>1, <2>2
<1>4. ASSUME NEW action \in SendActions, zns_zone_mgmt_send_all(action)
      PROVE  Machine!Next \/ dev'.zs = dev.zs
  <2>1. dev' = dev \/ \E Y \in SUBSET Zones, s \in ZoneState : Sent(Y, s)
    BY <1>4, SendAllEffect
  <2> QED BY <1>2, <2>1
<1>5. CASE ShutdownZone
  <2>1. PICK z \in Zones, s \in {"CLOSED", "EMPTY"} :
          /\ dev'.zs = [dev.zs EXCEPT ![z] = s]
          /\ dev.zs[z] \in ActiveStates
    BY <1>5, ShutdownEffect
  <2>2. CASE dev.zs[z] = s
    BY <1>1, <2>1, <2>2
  <2>3. CASE dev.zs[z] # s
    <3>1. <<dev.zs[z], s>> \in Machine!Arrows /\ s \in Targets
      BY <2>1, <2>3, ArrowsAgree
    <3> QED BY <1>1, <2>1, <3>1, MoveIsCommand
  <2> QED BY <2>2, <2>3
<1> QED BY <1>3, <1>4, <1>5, WriteRefines, StepKinds

\* zns.c implements the abstract zone state machine for any geometry and any
\* limits: through its lists and counters no handler moves a zone along an
\* arrow the protocol does not have, the zones counted one by one stay within
\* the limits, and a zone is closed to make room only at the open limit.
THEOREM DeviceImplementsMachine == Spec => ImplementsStateMachine
<1>1. Init => Machine!Init
  BY SMTT(20) DEF Init, Machine!Init
<1> QED BY <1>1, StepRefines, Invariance, PTL
        DEF Spec, ImplementsStateMachine, Machine!Spec
=============================================================================
