-------------------------- MODULE ZoneStateMachine --------------------------
(***************************************************************************)
(* What the device promises a host about zone states, without lists or     *)
(* counters: zones move along the arrows below, one zone per command or a  *)
(* set of zones under select-all, the open and active zones stay within    *)
(* the limits, and the device closes a zone on its own only if it was      *)
(* implicitly opened, the open limit is reached and another zone needs     *)
(* its place.                                                              *)
(***************************************************************************)
EXTENDS Integers, FiniteSets

CONSTANTS Zones, MaxOpen, MaxActive

VARIABLE st

OpenStates == {"IMPLICITLY_OPEN", "EXPLICITLY_OPEN"}
ActiveStates == OpenStates \cup {"CLOSED"}

\* zns_open_zone, zns_close_zone, zns_finish_zone, zns_reset_zone,
\* zns_offline_zone and zns_set_zd_ext, and the write path.
Arrows ==
  ({"EMPTY", "CLOSED"} \X OpenStates)
    \cup {<<"IMPLICITLY_OPEN", "EXPLICITLY_OPEN">>, <<"EMPTY", "CLOSED">>,
          <<"READ_ONLY", "OFFLINE">>}
    \cup (OpenStates \X {"CLOSED"})
    \cup ((ActiveStates \cup {"EMPTY"}) \X {"FULL"})
    \cup ((ActiveStates \cup {"FULL"}) \X {"EMPTY"})

InStates(f, S) == Cardinality({z \in Zones : f[z] \in S})

WithinLimits(f) ==
  /\ MaxOpen # 0 => InStates(f, OpenStates) <= MaxOpen
  /\ MaxActive # 0 => InStates(f, ActiveStates) <= MaxActive

Init == st = [z \in Zones |-> "EMPTY"]

\* A command moves one zone, or several to the same state.
Command ==
  \E s \in {"IMPLICITLY_OPEN", "EXPLICITLY_OPEN", "CLOSED", "FULL",
            "EMPTY", "OFFLINE"}, Z \in SUBSET Zones :
    /\ \A z \in Z : <<st[z], s>> \in Arrows
    /\ s = "IMPLICITLY_OPEN" => Cardinality(Z) <= 1
    /\ st' = [z \in Zones |-> IF z \in Z THEN s ELSE st[z]]
    /\ WithinLimits(st')

\* A write to an EMPTY or CLOSED zone makes room for it; the write may still
\* fail, or fill the zone at once.
MakeRoom(v, z) ==
  /\ MaxOpen # 0 /\ InStates(st, OpenStates) = MaxOpen
  /\ st[v] = "IMPLICITLY_OPEN"
  /\ st[z] \in {"EMPTY", "CLOSED"}
  /\ \E s \in {st[z], "IMPLICITLY_OPEN", "FULL"} :
       st' = [st EXCEPT ![v] = "CLOSED", ![z] = s]
  /\ WithinLimits(st')

Next == Command \/ \E v, z \in Zones : MakeRoom(v, z)

Spec == Init /\ [][Next]_st
=============================================================================
