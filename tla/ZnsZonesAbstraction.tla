------------------------ MODULE ZnsZonesAbstraction -------------------------
(***************************************************************************)
(* The abstract specification that zns.c implements: the zone states of    *)
(* the device, seen without its lists and counters.                        *)
(***************************************************************************)
EXTENDS ZnsZones

Machine == INSTANCE ZoneStateMachine WITH st <- dev.zs

\* The device implements the abstract zone state machine: the counters and
\* lists of zns.c keep the zones, counted one by one, within the limits, and
\* no handler moves a zone along an arrow the protocol does not have.
ImplementsStateMachine == Machine!Spec
=============================================================================
