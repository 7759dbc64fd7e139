------------------------------ MODULE ZnsZones ------------------------------
(***************************************************************************)
(* The zone state machine of the emulated ZNS SSD (src/zns/zns.c, zns.h):  *)
(* zone descriptors, the four QTAILQ zone lists, the active/open resource  *)
(* (AOR) counters, and one action per NVMe command that reaches them.      *)
(*                                                                         *)
(* The whole device state is one record, dev, so that a C function that    *)
(* changes it is an operator from a device to a device and a handler is    *)
(* the composition of the functions it calls, in the order it calls them.  *)
(*                                                                         *)
(* A logical block address is a pair (zone, offset in the zone): that is   *)
(* what zns_zone_idx computes from it.  wp and w_ptr are kept relative to  *)
(* the zone's zslba.  A status is a string; the DNR bit is left out.       *)
(***************************************************************************)
EXTENDS Integers, Sequences, Functions

CONSTANTS
  NumZones,       \* n->num_zones
  ZoneSize,       \* n->zone_size, in logical blocks
  ZoneCap,        \* n->zone_capacity, in logical blocks
  TailBlocks,     \* blocks of the namespace behind its last whole zone
  MaxOpen,        \* n->max_open_zones, 0 for no limit
  MaxActive,      \* n->max_active_zones, 0 for no limit
  Mdts,           \* largest transfer nvme_check_mdts accepts, in blocks
  Zasl,           \* n->page_size << n->zasl, in blocks
  ZdExt,          \* n->zd_extension_size # 0
  CrossZoneRead,  \* n->cross_zone_read
  MaxNlb,         \* bound: the longest command a host submits
  DmaMayFail,     \* environment: zns_map_dptr may return an error
  AppendMayOverrun, \* environment: hosts append more than the zone has left
  WpBound         \* bound: no command is taken that moves w_ptr past it

(***************************************************************************)
(* What zns_init_zone_geometry (zns.c:31-90) enforces, and the bounds.     *)
(***************************************************************************)
ASSUME GeometryAssumption ==
  /\ NumZones \in Nat \ {0}
  /\ ZoneSize \in Nat \ {0} /\ ZoneCap \in 1..ZoneSize
  /\ MaxOpen \in 0..NumZones /\ MaxActive \in 0..NumZones
  /\ Mdts \in Nat /\ Zasl \in Nat /\ MaxNlb \in Nat
  /\ ZdExt \in BOOLEAN /\ CrossZoneRead \in BOOLEAN
  /\ DmaMayFail \in BOOLEAN /\ AppendMayOverrun \in BOOLEAN
  /\ WpBound \in Nat /\ WpBound >= ZoneCap

\* num_zones is rounded down (zns.c:64).  nsze (zns.c:149) leaves the rest out,
\* so a command addressed to it fails; only the report still counts it.
ASSUME TailAssumption == TailBlocks \in 0..(ZoneSize - 1)

VARIABLES
  dev,     \* the device: see Device
  status,  \* completion status of the last command
  phase,   \* "run", or the list zns_zoned_ns_shutdown is working on
  left     \* zones of that list the loop has still to visit

vars == <<dev, status, phase, left>>

Zones == 0..(NumZones - 1)

ZoneState == {"EMPTY", "IMPLICITLY_OPEN", "EXPLICITLY_OPEN", "CLOSED",
              "FULL", "READ_ONLY", "OFFLINE"}
OpenStates == {"IMPLICITLY_OPEN", "EXPLICITLY_OPEN"}
ActiveStates == OpenStates \cup {"CLOSED"}

\* The states whose zones are kept on a list: exp_open_zones,
\* imp_open_zones, closed_zones and full_zones.
ListStates == ActiveStates \cup {"FULL"}

\* za is the NVME_ZA_ZD_EXT_VALID bit of the attributes, the only one used.
Device == [zs : [Zones -> ZoneState], za : [Zones -> BOOLEAN],
           wp : [Zones -> Nat], w_ptr : [Zones -> Nat],
           list : [ListStates -> Seq(Zones)],
           nr_open : Nat, nr_active : Nat]

Init ==
  /\ dev = [zs |-> [z \in Zones |-> "EMPTY"], za |-> [z \in Zones |-> FALSE],
            wp |-> [z \in Zones |-> 0], w_ptr |-> [z \in Zones |-> 0],
            list |-> [s \in ListStates |-> <<>>],
            nr_open |-> 0, nr_active |-> 0]
  /\ status = "SUCCESS"
  /\ phase = "run" /\ left = 0

-----------------------------------------------------------------------------
(* Active and open resources: the counters move only under a limit.        *)

zns_aor_inc_open(d) ==
  IF MaxOpen = 0 THEN d ELSE [d EXCEPT !.nr_open = @ + 1]

zns_aor_dec_open(d) ==
  IF MaxOpen = 0 THEN d ELSE [d EXCEPT !.nr_open = @ - 1]

zns_aor_inc_active(d) ==
  IF MaxActive = 0 THEN d ELSE [d EXCEPT !.nr_active = @ + 1]

zns_aor_dec_active(d) ==
  IF MaxActive = 0 THEN d ELSE [d EXCEPT !.nr_active = @ - 1]

zns_aor_check(d, act, opn) ==
  CASE MaxActive # 0 /\ d.nr_active + act > MaxActive -> "TOO_MANY_ACTIVE"
    [] ~(MaxActive # 0 /\ d.nr_active + act > MaxActive)
       /\ MaxOpen # 0 /\ d.nr_open + opn > MaxOpen -> "TOO_MANY_OPEN"
    [] OTHER -> "SUCCESS"

\* List l without its i-th element.
CutAt(l, i) == SubSeq(l, 1, i - 1) \o SubSeq(l, i + 1, Len(l))

\* QTAILQ_REMOVE of zone z, if it is on the list.
QTAILQ_REMOVE(l, z) ==
  LET at == {i \in DOMAIN l : l[i] = z}
  IN IF at = {} THEN l ELSE CutAt(l, CHOOSE i \in at : TRUE)

\* Mutant: the FULL case is missing from the unlinking switch.
UnlinkForgetsFull(d, z) ==
  IF d.zs[z] \in ActiveStates
    THEN [d EXCEPT !.list[d.zs[z]] = QTAILQ_REMOVE(@, z)] ELSE d

\* Unlink a zone from the list of its state, if QTAILQ_IN_USE.
Unlink(d, z) ==
  IF d.zs[z] \in ListStates
    THEN [d EXCEPT !.list[d.zs[z]] = QTAILQ_REMOVE(@, z)] ELSE d

\* Set a zone's state and append it to the list of that state.
LinkAs(d, z, s) ==
  LET e == [d EXCEPT !.zs[z] = s]
  IN IF s \in ListStates THEN [e EXCEPT !.list[s] = Append(@, z)]
     ELSE IF s = "READ_ONLY" THEN e ELSE [e EXCEPT !.za[z] = FALSE]

zns_assign_zone_state(d, z, s) == LinkAs(Unlink(d, z), z, s)

\* The open and the active zones, in the order zns_do_zone_op visits them.
Opened(d) == d.list["IMPLICITLY_OPEN"] \o d.list["EXPLICITLY_OPEN"]
Active(d) == d.list["CLOSED"] \o Opened(d)

-----------------------------------------------------------------------------
(* Write and append.                                                       *)

\* Mutant: the zone's size taken for its capacity.
CheckWriteBySize(d, z, off, nlb, append) ==
  CASE off + nlb > ZoneSize -> "BOUNDARY_ERROR"
    [] off + nlb <= ZoneSize /\ d.zs[z] \in {"FULL", "OFFLINE", "READ_ONLY"} ->
         d.zs[z]
    [] OTHER ->
         IF append THEN IF off # 0 \/ nlb > Zasl THEN "INVALID_FIELD"
                                                 ELSE "SUCCESS"
         ELSE IF off # d.w_ptr[z] THEN "INVALID_WRITE" ELSE "SUCCESS"

zns_check_zone_write(d, z, off, nlb, append) ==
  CASE off + nlb > ZoneCap -> "BOUNDARY_ERROR"
    [] off + nlb <= ZoneCap /\ d.zs[z] \in {"FULL", "OFFLINE", "READ_ONLY"} ->
         d.zs[z]
    [] OTHER ->
         IF append THEN IF off # 0 \/ nlb > Zasl THEN "INVALID_FIELD"
                                                 ELSE "SUCCESS"
         ELSE IF off # d.w_ptr[z] THEN "INVALID_WRITE" ELSE "SUCCESS"

\* Mutant: with no implicitly opened zone, an explicitly opened one is closed.
TransitionTakesExplicit(d) ==
  LET l == Opened(d)
  IN IF MaxOpen # 0 /\ d.nr_open = MaxOpen /\ l # <<>>
     THEN zns_assign_zone_state(zns_aor_dec_open(d), Head(l), "CLOSED") ELSE d

\* At the open limit, the zone implicitly opened first is closed.
zns_auto_transition_zone(d) ==
  LET imp == d.list["IMPLICITLY_OPEN"]
  IN IF MaxOpen # 0 /\ d.nr_open = MaxOpen /\ imp # <<>>
     THEN LinkAs(zns_aor_dec_open([d EXCEPT !.list["IMPLICITLY_OPEN"] =
                                              Tail(imp)]),
                 Head(imp), "CLOSED")
     ELSE d

\* zns_auto_open_zone: the device after the automatic transition ...
AutoOpened(d, z) ==
  IF d.zs[z] \in {"EMPTY", "CLOSED"} THEN zns_auto_transition_zone(d) ELSE d

\* Mutant: a write to an EMPTY zone asks for an open resource only.
AutoOpenForgetsActive(d, z) ==
  IF d.zs[z] \in {"EMPTY", "CLOSED"} THEN zns_aor_check(AutoOpened(d, z), 0, 1)
  ELSE "SUCCESS"

\* ... and the status it returns.
zns_auto_open_zone(d, z) ==
  CASE d.zs[z] = "EMPTY" -> zns_aor_check(AutoOpened(d, z), 1, 1)
    [] d.zs[z] = "CLOSED" -> zns_aor_check(AutoOpened(d, z), 0, 1)
    [] OTHER -> "SUCCESS"

\* Mutant: the descriptor's write pointer moves with the reservation.
AdvanceMovesWp(d, z, nlb) ==
  [d EXCEPT !.w_ptr[z] = @ + nlb, !.wp[z] = @ + nlb]

zns_advance_zone_wp(d, z, nlb) ==
  LET e == [d EXCEPT !.w_ptr[z] = @ + nlb]
      f == IF d.zs[z] = "EMPTY" THEN zns_aor_inc_active(e) ELSE e
  IN IF e.w_ptr[z] < ZoneCap /\ d.zs[z] \in {"EMPTY", "CLOSED"}
     THEN zns_assign_zone_state(zns_aor_inc_open(f), z, "IMPLICITLY_OPEN")
     ELSE e

\* Mutant: no fall through from the open states to CLOSED.
ReleaseWithoutFallThrough(d, z) ==
  CASE d.zs[z] \in OpenStates -> zns_aor_dec_open(d)
    [] d.zs[z] = "CLOSED" -> zns_aor_dec_active(d)
    [] OTHER -> d

\* The resources a zone gives back when it leaves the active states.
ReleaseResources(d, z) ==
  LET e == IF d.zs[z] \in OpenStates THEN zns_aor_dec_open(d) ELSE d
  IN IF d.zs[z] \in ActiveStates THEN zns_aor_dec_active(e) ELSE e

\* Mutant: the reservation is compared with the boundary, not what is written.
FinalizeByReservation(d, z, nlb) ==
  LET e == [d EXCEPT !.wp[z] = @ + nlb]
  IN IF e.w_ptr[z] = ZoneCap /\ d.zs[z] # "FULL"
     THEN zns_assign_zone_state(ReleaseResources(e, z), z, "FULL") ELSE e

zns_finalize_zoned_write(d, z, nlb) ==
  LET e == [d EXCEPT !.wp[z] = @ + nlb]
  IN IF e.wp[z] = ZoneCap /\ d.zs[z] # "FULL"
     THEN zns_assign_zone_state(ReleaseResources(e, z), z, "FULL") ELSE e

\* The checks zns_write and zns_do_write make before they touch the device.
WriteStatus(z, off, nlb, append) ==
  CASE nlb > Mdts -> "MDTS"
    [] nlb <= Mdts /\ z = NumZones - 1 /\ off + nlb > ZoneSize -> "LBA_RANGE"
    [] OTHER -> zns_check_zone_write(dev, z, off, nlb, append)

\* How far a command the host submits may move w_ptr: no limit but the
\* bound, or, for hosts that never append more than the zone has left, ZoneCap.
WriteLimit(append) ==
  IF append /\ ~AppendMayOverrun THEN ZoneCap ELSE WpBound

\* zns_write, and zns_do_write as zns_zone_append calls it.  mapped: whether
\* zns_map_dptr succeeds; it is called after w_ptr has moved.
zns_do_write(z, off, nlb, append, mapped) ==
  LET checked == WriteStatus(z, off, nlb, append)
      opened == AutoOpened(dev, z)
      advanced == zns_advance_zone_wp(opened, z, nlb)
  IN /\ phase = "run"
     /\ mapped \/ DmaMayFail
     /\ checked = "SUCCESS" => dev.w_ptr[z] + nlb <= WriteLimit(append)
     /\ \/ /\ checked # "SUCCESS"
           /\ status' = checked
           /\ dev' = dev
        \/ /\ checked = "SUCCESS"
           /\ zns_auto_open_zone(dev, z) # "SUCCESS"
           /\ status' = zns_auto_open_zone(dev, z)
           /\ dev' = opened
        \/ /\ checked = "SUCCESS"
           /\ zns_auto_open_zone(dev, z) = "SUCCESS"
           /\ ~mapped
           /\ status' = "MAP_ERROR"
           /\ dev' = advanced
        \/ /\ checked = "SUCCESS"
           /\ zns_auto_open_zone(dev, z) = "SUCCESS"
           /\ mapped
           /\ status' = "SUCCESS"
           /\ dev' = zns_finalize_zoned_write(advanced, z, nlb)
     /\ UNCHANGED <<phase, left>>

-----------------------------------------------------------------------------
(* The handlers of Zone Management Send, each on one zone: the device they *)
(* leave and the status they return.                                       *)

zns_open_zone_status(d, z) ==
  CASE d.zs[z] = "EMPTY" ->
         IF zns_aor_check(d, 1, 0) # "SUCCESS" THEN zns_aor_check(d, 1, 0)
         ELSE zns_aor_check(zns_aor_inc_active(d), 0, 1)
    [] d.zs[z] = "CLOSED" -> zns_aor_check(d, 0, 1)
    [] d.zs[z] \in OpenStates -> "SUCCESS"
    [] OTHER -> "INVAL_TRANSITION"

zns_open_zone(d, z) ==
  LET e == IF d.zs[z] = "EMPTY" THEN zns_aor_inc_active(d) ELSE d
      f == IF d.zs[z] \in {"EMPTY", "CLOSED"} THEN zns_aor_inc_open(e) ELSE e
  IN IF zns_open_zone_status(d, z) = "SUCCESS" /\ d.zs[z] # "EXPLICITLY_OPEN"
     THEN zns_assign_zone_state(f, z, "EXPLICITLY_OPEN") ELSE d

\* Mutant: a CLOSED zone releases its open resource again.
CloseTwice(d, z) ==
  IF d.zs[z] \in ActiveStates
  THEN zns_assign_zone_state(zns_aor_dec_open(d), z, "CLOSED") ELSE d

\* Mutant: a FULL zone may be closed.
CloseFull(d, z) ==
  IF d.zs[z] \in OpenStates \cup {"FULL"}
  THEN zns_assign_zone_state(d, z, "CLOSED") ELSE d

zns_close_zone(d, z) ==
  IF d.zs[z] \in OpenStates
  THEN zns_assign_zone_state(zns_aor_dec_open(d), z, "CLOSED") ELSE d

\* Mutant: the descriptor's write pointer stays where it was.
FinishForgetsWp(d, z) ==
  IF d.zs[z] \in ActiveStates \cup {"EMPTY"}
  THEN zns_assign_zone_state([ReleaseResources(d, z) EXCEPT
                                !.w_ptr[z] = ZoneCap], z, "FULL")
  ELSE d

zns_finish_zone(d, z) ==
  IF d.zs[z] \in ActiveStates \cup {"EMPTY"}
  THEN zns_assign_zone_state([ReleaseResources(d, z) EXCEPT
                                !.w_ptr[z] = ZoneCap, !.wp[z] = ZoneCap],
                             z, "FULL")
  ELSE d

zns_finish_zone_status(d, z) ==
  IF d.zs[z] \in {"READ_ONLY", "OFFLINE"} THEN "INVAL_TRANSITION"
                                          ELSE "SUCCESS"

\* Mutant: only the reservation is rewound.
ResetForgetsWp(d, z) ==
  IF d.zs[z] \in ListStates
  THEN zns_assign_zone_state([ReleaseResources(d, z) EXCEPT !.w_ptr[z] = 0],
                             z, "EMPTY")
  ELSE d

\* Mutant: a zone is emptied without being rewound.
ResetForgetsPointers(d, z) ==
  IF d.zs[z] \in ListStates
  THEN zns_assign_zone_state(ReleaseResources(d, z), z, "EMPTY") ELSE d

zns_reset_zone(d, z) ==
  IF d.zs[z] \in ListStates
  THEN zns_assign_zone_state([ReleaseResources(d, z) EXCEPT
                                !.w_ptr[z] = 0, !.wp[z] = 0], z, "EMPTY")
  ELSE d

zns_offline_zone(d, z) ==
  IF d.zs[z] = "READ_ONLY" THEN zns_assign_zone_state(d, z, "OFFLINE") ELSE d

zns_offline_zone_status(d, z) ==
  IF d.zs[z] \in {"READ_ONLY", "OFFLINE"} THEN "SUCCESS"
                                          ELSE "INVAL_TRANSITION"

zns_set_zd_ext_status(d, z) ==
  IF d.zs[z] = "EMPTY" THEN zns_aor_check(d, 1, 0) ELSE "INVAL_TRANSITION"

\* Mutant: the zone is closed whatever zns_aor_check said.
SetZdExtIgnoresCheck(d, z) ==
  IF d.zs[z] = "EMPTY"
  THEN zns_assign_zone_state([d EXCEPT !.za[z] = TRUE], z, "CLOSED") ELSE d

zns_set_zd_ext(d, z) ==
  IF zns_set_zd_ext_status(d, z) = "SUCCESS"
  THEN zns_assign_zone_state([zns_aor_inc_active(d) EXCEPT !.za[z] = TRUE],
                             z, "CLOSED")
  ELSE d

-----------------------------------------------------------------------------
(* Zone Management Send with the select-all flag.  zns_do_zone_op walks    *)
(* the lists the mask names, closed, implicitly open, explicitly open,     *)
(* full, and stops at the first zone whose handler fails; the effect of    *)
(* the walk is written in closed form (see BulkIsOneByOne).                *)

\* The zones of order, a concatenation of whole lists or a prefix of one,
\* move to the end of the list of state s; what is left of from is rest.
MoveZones(d, order, from, rest, s) ==
  [d EXCEPT
     !.zs = [z \in Zones |-> IF z \in Range(order) THEN s ELSE d.zs[z]],
     !.list = [t \in ListStates |->
                 CASE t = s -> d.list[t] \o order
                   [] t \in from /\ t # s -> rest
                   [] OTHER -> d.list[t]]]

\* n zones release their open resources, m their active ones.
GiveBack(d, n, m) ==
  [d EXCEPT !.nr_open = IF MaxOpen = 0 THEN @ ELSE @ - n,
            !.nr_active = IF MaxActive = 0 THEN @ ELSE @ - m]

\* Mutant: one zone too many.
OpenAllCountOffByOne(d) ==
  LET n == Len(d.list["CLOSED"])
  IN IF MaxOpen = 0 \/ n <= MaxOpen - d.nr_open + 1
     THEN n ELSE MaxOpen - d.nr_open + 1

\* The closed zones opened before zns_aor_check fails for the first time.
OpenAllCount(d) ==
  LET n == Len(d.list["CLOSED"])
  IN IF MaxOpen = 0 \/ n <= MaxOpen - d.nr_open THEN n
                                                ELSE MaxOpen - d.nr_open

OpenAll(d) ==
  LET closed == d.list["CLOSED"]
      k == OpenAllCount(d)
  IN GiveBack(MoveZones(d, SubSeq(closed, 1, k), {"CLOSED"},
                        SubSeq(closed, k + 1, Len(closed)),
                        "EXPLICITLY_OPEN"), -k, 0)

CloseAll(d) ==
  GiveBack(MoveZones(d, Opened(d), OpenStates, <<>>, "CLOSED"),
           Len(Opened(d)), 0)

FinishAll(d) ==
  LET fill(ptr) == [z \in Zones |-> IF d.zs[z] \in ActiveStates THEN ZoneCap
                                                                 ELSE ptr[z]]
  IN GiveBack([MoveZones(d, Active(d), ActiveStates, <<>>, "FULL") EXCEPT
                 !.wp = fill(d.wp), !.w_ptr = fill(d.w_ptr)],
              Len(Opened(d)), Len(Active(d)))

ResetAll(d) ==
  LET listed(z) == d.zs[z] \in ListStates
  IN GiveBack([d EXCEPT
       !.zs = [z \in Zones |-> IF listed(z) THEN "EMPTY" ELSE d.zs[z]],
       !.za = [z \in Zones |-> ~listed(z) /\ d.za[z]],
       !.wp = [z \in Zones |-> IF listed(z) THEN 0 ELSE d.wp[z]],
       !.w_ptr = [z \in Zones |-> IF listed(z) THEN 0 ELSE d.w_ptr[z]],
       !.list = [s \in ListStates |-> <<>>]],
     Len(Opened(d)), Len(Active(d)))

\* Only a READ_ONLY zone goes offline; the scan covers every zone.
OfflineAll(d) ==
  LET ro(z) == d.zs[z] = "READ_ONLY"
  IN [d EXCEPT
        !.zs = [z \in Zones |-> IF ro(z) THEN "OFFLINE" ELSE d.zs[z]],
        !.za = [z \in Zones |-> ~ro(z) /\ d.za[z]]]

-----------------------------------------------------------------------------
(* The commands.                                                           *)

SendActions == {"OPEN", "CLOSE", "FINISH", "RESET", "OFFLINE", "SET_ZD_EXT",
                "UNKNOWN"}

\* zns_zone_mgmt_send on the zone of slba (z, off), or on an slba beyond the
\* namespace.  Open and Close report success whatever the handler returned
\* (zns.c:818, 826); so does Reset.
zns_zone_mgmt_send(z, off, action) ==
  /\ phase = "run"
  /\ \/ /\ off # 0
        /\ status' \in {"INVALID_FIELD", "LBA_RANGE"} /\ dev' = dev
     \/ /\ off = 0 /\ action = "OPEN"
        /\ status' = "SUCCESS" /\ dev' = zns_open_zone(dev, z)
     \/ /\ off = 0 /\ action = "CLOSE"
        /\ status' = "SUCCESS" /\ dev' = zns_close_zone(dev, z)
     \/ /\ off = 0 /\ action = "FINISH"
        /\ status' = zns_finish_zone_status(dev, z)
        /\ dev' = zns_finish_zone(dev, z)
     \/ /\ off = 0 /\ action = "RESET"
        /\ status' = "SUCCESS" /\ dev' = zns_reset_zone(dev, z)
     \/ /\ off = 0 /\ action = "OFFLINE"
        /\ status' = zns_offline_zone_status(dev, z)
        /\ dev' = zns_offline_zone(dev, z)
     \/ /\ off = 0
        /\ action = "UNKNOWN" \/ (action = "SET_ZD_EXT" /\ ~ZdExt)
        /\ status' = "INVALID_FIELD" /\ dev' = dev
     \/ /\ off = 0 /\ action = "SET_ZD_EXT" /\ ZdExt
        /\ \/ DmaMayFail /\ status' = "MAP_ERROR" /\ dev' = dev
           \/ /\ status' = zns_set_zd_ext_status(dev, z)
              /\ dev' = zns_set_zd_ext(dev, z)
  /\ UNCHANGED <<phase, left>>

\* zns_zone_mgmt_send with the select-all flag: slba is not looked at.
zns_zone_mgmt_send_all(action) ==
  /\ phase = "run"
  /\ status' = IF action \in {"SET_ZD_EXT", "UNKNOWN"} THEN "INVALID_FIELD"
                                                     ELSE "SUCCESS"
  /\ dev' = CASE action = "OPEN" -> OpenAll(dev)
              [] action = "CLOSE" -> CloseAll(dev)
              [] action = "FINISH" -> FinishAll(dev)
              [] action = "RESET" -> ResetAll(dev)
              [] action = "OFFLINE" -> OfflineAll(dev)
              [] action \in {"SET_ZD_EXT", "UNKNOWN"} -> dev
  /\ UNCHANGED <<phase, left>>

\* zns_check_zone_read: the zones a read touches, the first one and, if it
\* may cross zones, those it runs into.
ReadStatus(z, off, nlb) ==
  LET last == z + (off + nlb - 1) \div ZoneSize
  IN CASE nlb > Mdts -> "MDTS"
       [] nlb <= Mdts /\ last >= NumZones -> "LBA_RANGE"
       [] OTHER ->
            IF dev.zs[z] = "OFFLINE" THEN "OFFLINE"
            ELSE IF last > z /\ ~CrossZoneRead THEN "BOUNDARY_ERROR"
            ELSE IF \E y \in z..last : dev.zs[y] = "OFFLINE" THEN "OFFLINE"
            ELSE "SUCCESS"

zns_read(z, off, nlb) ==
  /\ phase = "run"
  /\ status' \in {ReadStatus(z, off, nlb)} \cup
       IF DmaMayFail /\ ReadStatus(z, off, nlb) = "SUCCESS"
         THEN {"MAP_ERROR"} ELSE {}
  /\ UNCHANGED <<dev, phase, left>>

-----------------------------------------------------------------------------
(* zns_zone_mgmt_recv: the report.  room is max_zones, the descriptors the *)
(* host's buffer holds.                                                    *)

Filters == {"ALL"} \cup ZoneState

zns_zone_matches_filter(d, f, z) == f = "ALL" \/ d.zs[z] = f

\* The counting loop runs from the slba of the command, off blocks into zone
\* first, to zns_ns_nlbas, the descriptor loop to num_zones.  A namespace with
\* a tail so makes the first loop look at one zone behind zone_array: beyond
\* says whether that memory happens to match the filter.
Matches(d, f, z, beyond) ==
  IF z \in Zones THEN zns_zone_matches_filter(d, f, z) ELSE f = "ALL" \/ beyond

Scanned(first, off) == first..(IF off < TailBlocks THEN NumZones ELSE NumZones - 1)

\* Mutant: a partial report stops counting one zone too late.
ReportCountOffByOne(d, first, off, f, partial, room, beyond) ==
  LET n[z \in {first - 1} \cup Scanned(first, off)] ==
        IF z < first THEN 0
        ELSE IF partial /\ n[z - 1] > room THEN n[z - 1]
        ELSE n[z - 1] + IF Matches(d, f, z, beyond) THEN 1 ELSE 0
  IN n[NumZones - IF off < TailBlocks THEN 0 ELSE 1]

\* header->nr_zones: the counting loop stops early for a partial report.
ReportCount(d, first, off, f, partial, room, beyond) ==
  LET n[z \in {first - 1} \cup Scanned(first, off)] ==  \* nr_zones after zone z
        IF z < first THEN 0
        ELSE IF partial /\ n[z - 1] >= room THEN n[z - 1]
        ELSE n[z - 1] + IF Matches(d, f, z, beyond) THEN 1 ELSE 0
  IN n[NumZones - IF off < TailBlocks THEN 0 ELSE 1]

\* The zones whose descriptors are written, in order.
ReportZones(d, first, f, room) ==
  LET match == SelectSeq([i \in 1..(NumZones - first) |-> first + i - 1],
                         LAMBDA z : zns_zone_matches_filter(d, f, z))
  IN IF Len(match) <= room THEN match ELSE SubSeq(match, 1, room)

\* The write pointer a descriptor shows: all ones where it is not valid.
ReportedWp(d, z) ==
  IF d.zs[z] \in {"FULL", "READ_ONLY", "OFFLINE"} THEN "invalid"
  ELSE <<"lba", d.wp[z]>>

\* A report changes nothing; it fails on a bad slba or buffer.
zns_zone_mgmt_recv ==
  /\ phase = "run"
  /\ status' \in {"SUCCESS", "INVALID_FIELD", "LBA_RANGE", "MDTS"}
  /\ UNCHANGED <<dev, phase, left>>

-----------------------------------------------------------------------------
(* zns_zoned_ns_shutdown: three loops, one step per iteration.  No command *)
(* is taken until the last one is over.                                    *)

\* Mutant: the zone is rewound to its start.
ClearRewinds(d, z) ==
  LET e == [d EXCEPT !.w_ptr[z] = 0]
  IN IF d.wp[z] # 0 \/ d.za[z]
     THEN [zns_aor_inc_active(e) EXCEPT
             !.zs[z] = "CLOSED", !.list["CLOSED"] = <<z>> \o @]
     ELSE [e EXCEPT !.zs[z] = "EMPTY"]

zns_clear_zone(d, z) ==
  LET e == [d EXCEPT !.w_ptr[z] = d.wp[z]]
  IN IF d.wp[z] # 0 \/ d.za[z]
     THEN [zns_aor_inc_active(e) EXCEPT
             !.zs[z] = "CLOSED", !.list["CLOSED"] = <<z>> \o @]
     ELSE [e EXCEPT !.zs[z] = "EMPTY"]

zns_ns_shutdown ==
  /\ phase = "run"
  /\ phase' = "CLOSED"
  /\ left' = Len(dev.list["CLOSED"])
  /\ UNCHANGED <<dev, status>>

\* The zone the loop visits: zones put back at the head of closed_zones are
\* behind the iterator.
ShutdownZone ==
  /\ phase # "run" /\ left > 0
  /\ LET l == dev.list[phase]
         z == l[Len(l) - left + 1]
     IN dev' = zns_clear_zone(ReleaseResources(Unlink(dev, z), z), z)
  /\ left' = left - 1
  /\ UNCHANGED <<status, phase>>

\* Mutant: the loop over the implicitly opened zones is missing.
ShutdownSkipsImplicit ==
  /\ phase # "run" /\ left = 0
  /\ phase' = IF phase = "CLOSED" THEN "EXPLICITLY_OPEN" ELSE "run"
  /\ left' = IF phase' = "run" THEN 0 ELSE Len(dev.list[phase'])
  /\ UNCHANGED <<dev, status>>

ShutdownNextList ==
  /\ phase # "run" /\ left = 0
  /\ phase' = CASE phase = "CLOSED" -> "IMPLICITLY_OPEN"
                [] phase = "IMPLICITLY_OPEN" -> "EXPLICITLY_OPEN"
                [] phase = "EXPLICITLY_OPEN" -> "run"
  /\ left' = IF phase' = "run" THEN 0 ELSE Len(dev.list[phase'])
  /\ UNCHANGED <<dev, status>>

Next ==
  \/ \E z \in Zones, off \in 0..(ZoneSize - 1), nlb \in 1..MaxNlb,
        append \in BOOLEAN, mapped \in BOOLEAN :
       zns_do_write(z, off, nlb, append, mapped)
  \/ \E z \in Zones, off \in 0..(ZoneSize - 1), action \in SendActions :
       zns_zone_mgmt_send(z, off, action)
  \/ \E action \in SendActions : zns_zone_mgmt_send_all(action)
  \/ \E z \in Zones, off \in 0..(ZoneSize - 1), nlb \in 1..MaxNlb :
       zns_read(z, off, nlb)
  \/ zns_zone_mgmt_recv
  \/ zns_ns_shutdown
  \/ ShutdownZone
  \/ ShutdownNextList

Spec == Init /\ [][Next]_vars

-----------------------------------------------------------------------------
(* Properties.                                                             *)

Statuses == {"SUCCESS", "TOO_MANY_ACTIVE", "TOO_MANY_OPEN", "BOUNDARY_ERROR",
             "FULL", "OFFLINE", "READ_ONLY", "INVALID_FIELD", "INVALID_WRITE",
             "MDTS", "LBA_RANGE", "MAP_ERROR", "INVAL_TRANSITION"}

\* Types of the device, of the completion status and of the shutdown cursor.
TypeOK ==
  /\ dev \in Device
  /\ status \in Statuses
  /\ phase \in {"run"} \cup ActiveStates
  /\ left \in Nat

\* Each of exp_open_zones, imp_open_zones, closed_zones and full_zones holds
\* exactly the zones in that state, each once: zns_assign_zone_state unlinks
\* by the zone's current state and zns_do_zone_op trusts the lists.
ListsMatchStates ==
  \A s \in ListStates :
    /\ IsInjective(dev.list[s])
    /\ Range(dev.list[s]) = {z \in Zones : dev.zs[z] = s}

\* The open and active counters count the zones in the open and active
\* states, and respect the limits, so no assertion of zns_aor_* (zns.h:185-224)
\* fails; without a limit they stay 0.
CountersCountZones ==
  /\ dev.nr_open = IF MaxOpen = 0 THEN 0 ELSE Len(Opened(dev))
  /\ dev.nr_active = IF MaxActive = 0 THEN 0 ELSE Len(Active(dev))
  /\ dev.nr_open <= MaxOpen
  /\ dev.nr_active <= MaxActive

\* The shutdown loops' cursor stays inside the list, the loops over open
\* zones remove what they visit, and when they end no zone is open
\* (the assertion at zns.c:213).
ShutdownProgress ==
  /\ phase = "run" => left = 0
  /\ phase # "run" => left <= Len(dev.list[phase])
  /\ phase \in OpenStates => left = Len(dev.list[phase])
  /\ phase = "EXPLICITLY_OPEN" => dev.list["IMPLICITLY_OPEN"] = <<>>

\* A zone is FULL exactly when its write pointer is at the writable
\* boundary: zns_finalize_zoned_write and zns_finish_zone are the only ways.
FullIffAtBoundary ==
  \A z \in Zones : dev.zs[z] = "FULL" <=> dev.wp[z] = ZoneCap

\* The durable write pointer never passes the reserved one; if data buffers
\* can always be mapped they agree between commands.
WpBehindReservation ==
  \A z \in Zones : /\ 0 <= dev.wp[z] /\ dev.wp[z] <= dev.w_ptr[z]
                   /\ ~DmaMayFail => dev.wp[z] = dev.w_ptr[z]

\* If data buffers can always be mapped, an EMPTY zone has nothing written:
\* the host may write it from its first block.
EmptyMeansUnwritten ==
  ~DmaMayFail => \A z \in Zones : dev.zs[z] = "EMPTY" => dev.w_ptr[z] = 0

\* If hosts never append more than a zone has left, no data is written past
\* a zone's capacity: zns_check_zone_write tests an append's own slba, the
\* zone start, not where the data goes.
WritesWithinCapacity ==
  ~AppendMayOverrun => \A z \in Zones : dev.w_ptr[z] <= ZoneCap

\* A command that fails publishes no data and changes the state of no zone,
\* but for two side effects: zns_auto_open_zone may have closed the zone
\* implicitly opened first, and a write whose buffer cannot be mapped has
\* already reserved its blocks and implicitly opened its zone.
FailureKeepsZones ==
  [][status' # "SUCCESS" /\ phase = "run" /\ phase' = "run" =>
       /\ dev'.wp = dev.wp
       /\ \A z \in Zones : dev'.zs[z] # dev.zs[z] =>
            \/ /\ dev.zs[z] = "IMPLICITLY_OPEN" /\ dev'.zs[z] = "CLOSED"
               /\ z = Head(dev.list["IMPLICITLY_OPEN"])
            \/ /\ status' = "MAP_ERROR"
               /\ dev'.zs[z] = "IMPLICITLY_OPEN"
               /\ dev'.w_ptr[z] > dev.w_ptr[z]]_vars

\* Written blocks come back only through a reset: w_ptr moves backwards only
\* as the zone becomes EMPTY, or at shutdown to what was really written, or
\* when finishing a zone that was overrun.
RewindOnlyByReset ==
  [][\A z \in Zones : dev'.w_ptr[z] < dev.w_ptr[z] =>
       \/ dev'.zs[z] = "EMPTY" /\ dev'.w_ptr[z] = 0
       \/ DmaMayFail /\ phase # "run" /\ dev'.w_ptr[z] = dev.wp[z]
       \/ AppendMayOverrun /\ dev'.zs[z] = "FULL"]_vars

\* An explicitly opened zone is closed only by a Close command or at
\* shutdown, never to make room for an implicit open.
ExplicitStaysOpen ==
  [][\A z \in Zones :
       dev.zs[z] = "EXPLICITLY_OPEN" /\ dev'.zs[z] = "CLOSED" =>
         \/ zns_zone_mgmt_send(z, 0, "CLOSE")
         \/ zns_zone_mgmt_send_all("CLOSE")
         \/ ShutdownZone]_vars
=============================================================================
