----------------------------- MODULE MCZnsZones -----------------------------
(* Model-checking instances of ZnsZones.                                   *)
EXTENDS ZnsZonesAbstraction, SequencesExt

\* What the two loops of zns_zone_mgmt_recv agree on.  The descriptors are the
\* first matching zones, in order, as many as the buffer has room for.  A full
\* report announces all zones that match and a partial one as many as are
\* described, but for one zone more when the command starts so low in its zone
\* that the counting loop reaches the tail of the namespace, which is no zone.
ReportConsistent ==
  phase = "run" =>
  \A first \in Zones, f \in Filters, room \in 0..NumZones :
    LET match == {z \in first..(NumZones - 1) : f = "ALL" \/ dev.zs[z] = f}
        least(a, b) == IF a <= b THEN a ELSE b
        zones == ReportZones(dev, first, f, room)
    IN /\ Len(zones) = least(room, Cardinality(match))
       /\ \A i \in DOMAIN zones :
            /\ zones[i] \in match
            /\ Cardinality({z \in match : z < zones[i]}) = i - 1
       /\ \A off \in {0, TailBlocks} :
          \A beyond \in IF off < TailBlocks THEN BOOLEAN ELSE {FALSE} :
            LET extra == IF off < TailBlocks /\ (f = "ALL" \/ beyond) THEN 1 ELSE 0
            IN /\ ReportCount(dev, first, off, f, FALSE, room, beyond)
                    = Cardinality(match) + extra
               /\ ReportCount(dev, first, off, f, TRUE, room, beyond)
                    = least(room, Len(zones) + extra)

\* The walk of zns_do_zone_op over the lists does to the device what the
\* closed forms say: the single-zone handler, zone after zone.
BulkIsOneByOne ==
  LET walk(op(_, _), l) == FoldLeft(op, dev, l)
      opened == SubSeq(dev.list["CLOSED"], 1, OpenAllCount(dev))
  IN /\ OpenAll(dev) = walk(zns_open_zone, dev.list["CLOSED"])
     /\ OpenAll(dev) = walk(zns_open_zone, opened)
     /\ CloseAll(dev) = walk(zns_close_zone, Opened(dev))
     /\ FinishAll(dev) = walk(zns_finish_zone, Active(dev))
     /\ ResetAll(dev) =
          walk(zns_reset_zone, Active(dev) \o dev.list["FULL"])
=============================================================================
