-------------------------- MODULE MCDynamicMapping --------------------------
(***************************************************************************)
(* Model-checking instances of DynamicMapping: the shipped full mapping    *)
(* (OpenLimit = NumGroups) and the partial mappings that a smaller limit   *)
(* selects, with disciplined hosts and with hosts that are not.  Zones are *)
(* interchangeable: the mapping only compares their indexes for equality.  *)
(***************************************************************************)
EXTENDS DynamicMapping, TLC

ZonePermutations == Permutations(Zones)
=============================================================================
