------------------------ MODULE MCZonedBlockDevice ------------------------
(***************************************************************************)
(* The allocator on two zones: a write-ahead log written through a buffer, *)
(* a table file written directly, and a migrator.                          *)
(***************************************************************************)
EXTENDS ZonedBlockDevice

\* WLTH_SHORT for the logs, WLTH_MEDIUM for the others.
MCLifetime == [w \in Writers |-> IF w \in Wal THEN 2 ELSE 3]
===========================================================================
