--------------------------- MODULE DynamicMapping ---------------------------
(***************************************************************************)
(* The dynamic mapping of zones to flash of fairness.c.  Dies are bundled  *)
(* in groups; the blocks at one offset of all dies of a group are an FBG.  *)
(* Opening a zone maps it to the least used die group (full mapping) or to *)
(* a part of one FBG offset in several adjacent groups (partial mapping),  *)
(* closing it gives the groups back, resetting it gives the FBG back.      *)
(*                                                                         *)
(* The functions that change the mapping are operators from one mapping    *)
(* record to the next, with the assertion that stops the emulator, if one  *)
(* does, as their other result.  reset_open_infos is never called (its     *)
(* call at fairness.c:830 is commented out), so open_zone_limit keeps its  *)
(* initial value and last_opened_zones_num stays 0.                        *)
(***************************************************************************)
EXTENDS Integers, Sequences, FiniteSets, FiniteSetsExt, Functions

CONSTANTS
  Zones,          \* the indexes below n->num_zones
  NumGroups,      \* die_group_sum, 4 in the shipped geometry
  NumFbgs,        \* fbgs_per_dg, 64 in the shipped geometry
  DiesPerGroup,   \* ZONE_MAX_DIE_PARA, 16
  Planes,         \* pls_per_lun, 2
  PgsPerBlk,      \* pgs_per_blk, 1024
  OpenLimit,      \* INITIAL_OPEN_LIMIT, 4 in the shipped build
  MaxOpened,      \* MAXOPENZONES, the length of opened_zones
  Word,           \* 2^32 of uint32_t; a bound above every exact count
  MayReopen,      \* hosts open zones that are open or hold data
  MayResetUnused  \* hosts reset zones that hold no mapping

ASSUME MappingAssumption ==
  /\ IsFiniteSet(Zones)
  /\ {NumGroups, NumFbgs, DiesPerGroup, Planes, PgsPerBlk, OpenLimit, MaxOpened}
       \subseteq Nat \ {0}
  /\ Word \in Nat /\ Word > NumFbgs + Cardinality(Zones)
  /\ NumGroups % OpenLimit = 0
  /\ {MayReopen, MayResetUnused} \subseteq BOOLEAN

Groups == 0..(NumGroups - 1)
Fbgs   == 0..(NumFbgs - 1)

VARIABLES
  map,    \* the mapping, zns_dynamic_mapping_t
  fault,  \* the assertion that stopped the emulator, or "none"
  held    \* the zones opened since their last reset, as hosts know them

mvars == <<map, fault, held>>

\* uint32_t arithmetic.
Dec(n) == (n - 1) % Word
Inc(n) == (n + 1) % Word

(***************************************************************************)
(* zns_dynamic_mapping_init.  die_groups[] always holds consecutive        *)
(* groups, so a zone keeps the first one and how many they are.            *)
(***************************************************************************)
Unmapped == [n |-> 0, first |-> 0, ofst |-> 0, part |-> 0]

zns_dynamic_mapping_init ==
  [opened   |-> <<>>,
   st_stage |-> TRUE,
   used     |-> [g \in Groups |-> 0],
   uses     |-> [g \in Groups |-> [f \in Fbgs |-> 0]],
   remain   |-> [g \in Groups |-> NumFbgs],
   next     |-> [g \in Groups |-> 0],
   part     |-> [g \in Groups |-> [flag |-> FALSE, fbg |-> 0, next |-> 0]],
   phy      |-> [z \in Zones |-> Unmapped]]

Span(first, n) == {g \in Groups : first <= g /\ g < first + n}
GroupsOf(m, z) == Span(m.phy[z].first, m.phy[z].n)

(***************************************************************************)
(* alloc_fbg: with n = 1 the next free FBG of group g; otherwise the next  *)
(* part of the FBG that groups g..g+n-1 are sharing out, or a new one at   *)
(* the largest of their next_fbg_id.                                       *)
(***************************************************************************)
FreeFbgs(m, g) == {f \in Fbgs : m.uses[g][f] = 0}

\* Mutant: takes next_fbg_id whether it is in use or not.
NextUnchecked(m, g) == m.next[g]

\* The loop at line 207 goes on from next_fbg_id, around the end.
NextFree(m, g) ==
  CHOOSE f \in FreeFbgs(m, g) :
    \A e \in FreeFbgs(m, g) :
      (f - m.next[g]) % NumFbgs <= (e - m.next[g]) % NumFbgs

\* Mutant: next_fbg_id runs off the end of the die group.
AllocFullNoWrap(m, g) ==
  LET f == NextFree(m, g)
  IN [ofst |-> f, part |-> 0,
      m |-> [m EXCEPT !.remain[g] = Dec(@), !.uses[g][f] = Inc(@),
                      !.next[g] = f + 1]]

AllocFull(m, g) ==
  LET f == NextFree(m, g)
  IN [ofst |-> f, part |-> 0,
      m |-> [m EXCEPT !.remain[g]  = Dec(@),
                      !.uses[g][f] = Inc(@),
                      !.next[g]    = (f + 1) % NumFbgs]]

\* Mutant: a partial mapping is counted in its first group only.
UseInFirst(m, span, f) == [m.uses EXCEPT ![Min(span)][f] = Inc(@)]

UseIn(m, span, f) ==
  [g \in Groups |->
     [m.uses[g] EXCEPT ![f] = IF g \in span THEN Inc(@) ELSE @]]

AllocPart(m, n, g) ==
  LET f == m.part[g].fbg
      k == m.part[g].next
  IN [ofst |-> f, part |-> k,
      m |-> [m EXCEPT !.uses = UseIn(m, Span(g, n), f),
                      !.part[g].next = k + 1,
                      !.part[g].flag = k + 1 # n]]

AllocShared(m, n, g) ==
  LET span == Span(g, n)
      f    == Max({m.next[h] : h \in span})
  IN [ofst |-> f, part |-> 0,
      m |-> [m EXCEPT
        !.uses   = UseIn(m, span, f),
        !.next   = [h \in Groups |->
                      IF h \in span THEN (@[h] + 1) % NumFbgs ELSE @[h]],
        !.remain = [h \in Groups |-> IF h \in span THEN Dec(@[h]) ELSE @[h]],
        !.part[g] = [flag |-> TRUE, fbg |-> f, next |-> 1]]]

alloc_fbg(m, n, g) ==
  IF n = 1 THEN AllocFull(m, g)
  ELSE IF m.part[g].flag THEN AllocPart(m, n, g)
  ELSE AllocShared(m, n, g)

\* The assertion at line 206, and the loop at line 207 that never ends.
AllocFault(m, n, g) ==
  IF n > 1 THEN "none"
  ELSE IF m.remain[g] = 0 THEN "group_exhausted"
  ELSE IF FreeFbgs(m, g) = {} THEN "endless_search"
  ELSE "none"

(***************************************************************************)
(* zone_open.  The initial stage lasts until OpenLimit zones are open; it  *)
(* decides together with the number of open zones between the two kinds of *)
(* mapping.  Only the full mapping looks at which groups have a free FBG.  *)
(***************************************************************************)
Append1(m, z) == [m EXCEPT !.opened = Append(@, z)]

MapZoneNum(m) ==
  IF m.st_stage THEN OpenLimit
  ELSE IF Len(m.opened) <= 2 THEN Len(m.opened)
  ELSE NumGroups

Partial(m) == MapZoneNum(m) < NumGroups
GroupsPerZone(m) == IF Partial(m) THEN NumGroups \div OpenLimit ELSE 1

Candidates(m) ==
  IF Partial(m) THEN {g \in Groups : g % GroupsPerZone(m) = 0}
                ELSE {g \in Groups : m.remain[g] > 0}

LeastUsed(m) ==
  Min({g \in Candidates(m) :
         \A h \in Candidates(m) : m.used[g] <= m.used[h]})

\* Mutant: only the first of several die groups gains a user.
MapZoneUsesFirst(m, z) ==
  LET n == GroupsPerZone(m)
      g == LeastUsed(m)
      a == alloc_fbg([m EXCEPT !.used[g] = @ + 1], n, g)
  IN [a.m EXCEPT
        !.phy[z] = [n |-> n, first |-> g, ofst |-> a.ofst, part |-> a.part],
        !.st_stage = @ /\ Len(m.opened) # OpenLimit]

\* Mutant: the initial stage never ends.
MapZoneKeepsStage(m, z) ==
  LET n == GroupsPerZone(m)
      g == LeastUsed(m)
      a == alloc_fbg([m EXCEPT !.used = [h \in Groups |->
                        IF h \in Span(g, n) THEN @[h] + 1 ELSE @[h]]], n, g)
  IN [a.m EXCEPT
        !.phy[z] = [n |-> n, first |-> g, ofst |-> a.ofst, part |-> a.part]]

MapZone(m, z) ==
  LET n == GroupsPerZone(m)
      g == LeastUsed(m)
      a == alloc_fbg([m EXCEPT !.used = [h \in Groups |->
                        IF h \in Span(g, n) THEN @[h] + 1 ELSE @[h]]], n, g)
  IN [a.m EXCEPT
        !.phy[z] = [n |-> n, first |-> g, ofst |-> a.ofst, part |-> a.part],
        !.st_stage = @ /\ Len(m.opened) # OpenLimit]

OpenFault(m) ==
  IF m.st_stage /\ Len(m.opened) > OpenLimit THEN "over_limit"
  ELSE IF Candidates(m) = {} THEN "no_free_fbg"
  ELSE AllocFault(m, GroupsPerZone(m), LeastUsed(m))

\* Nothing tests opened_zones_num before line 298.  With MAXOPENZONES zones
\* open the store runs over the array into opened_zones_num, its neighbour in
\* zns_dynamic_mapping_t, and what follows is undefined: the model stops.
zone_open_fault(m, z) ==
  IF Len(m.opened) >= MaxOpened THEN "opened_overrun"
  ELSE OpenFault(Append1(m, z))

zone_open(m, z) ==
  IF zone_open_fault(m, z) # "none" THEN m ELSE MapZone(Append1(m, z), z)

(***************************************************************************)
(* zone_close: the groups of an open zone lose a user.  All its entries    *)
(* leave opened_zones, and the count is one less.                          *)
(***************************************************************************)
IsOpened(m, z) == \E i \in DOMAIN m.opened : m.opened[i] = z

\* The loop over s that copies the entries in T.
Only(s, T) ==
  LET copy[i \in 0..Len(s)] ==
        IF i = 0 THEN <<>>
        ELSE IF s[i] \in T THEN Append(copy[i - 1], s[i]) ELSE copy[i - 1]
  IN copy[Len(s)]

Without(s, z) == Only(s, Zones \ {z})

zone_close_fault(m, z) ==
  IF ~IsOpened(m, z) THEN "none"
  ELSE IF \E g \in GroupsOf(m, z) : m.used[g] = 0 THEN "group_unused"
  ELSE IF Len(Without(m.opened, z)) # Len(m.opened) - 1 THEN "opened_twice"
  ELSE "none"

\* Mutant: the die groups keep counting a closed zone.
CloseKeepsUsed(m, z) == [m EXCEPT !.opened = Without(@, z)]

zone_close(m, z) ==
  IF ~IsOpened(m, z) \/ zone_close_fault(m, z) # "none" THEN m
  ELSE [m EXCEPT
          !.used = [g \in Groups |->
                      IF g \in GroupsOf(m, z) THEN @[g] - 1 ELSE @[g]],
          !.opened = Without(@, z)]

(***************************************************************************)
(* zone_reset: the FBG loses a user in every group of the zone; when the   *)
(* first group had no other user it is erased and counted free again.  The *)
(* zone keeps its mapping until it is opened again.                        *)
(***************************************************************************)
UsesOf(m, z) == m.uses[m.phy[z].first][m.phy[z].ofst]
Erases(m, z) == UsesOf(m, z) = 1

zone_reset_fault(m, z) == IF UsesOf(m, z) = 0 THEN "reset_unused" ELSE "none"

\* Mutant: the FBG loses its user and is not counted free again.
ResetForgetsRemain(m, z) ==
  [m EXCEPT !.uses = [g \in Groups |->
     IF g \in GroupsOf(m, z)
     THEN [@[g] EXCEPT ![m.phy[z].ofst] = Dec(@)] ELSE @[g]]]

\* Mutant: the FBG is counted free again and keeps its user.
ResetForgetsUses(m, z) ==
  [m EXCEPT !.remain = [g \in Groups |->
     IF g \in GroupsOf(m, z) THEN Inc(@[g]) ELSE @[g]]]

zone_reset(m, z) ==
  IF UsesOf(m, z) = 0 THEN m
  ELSE [m EXCEPT
          !.uses = [g \in Groups |->
             IF g \in GroupsOf(m, z)
             THEN [m.uses[g] EXCEPT ![m.phy[z].ofst] = Dec(@)] ELSE m.uses[g]],
          !.remain = [g \in Groups |->
             IF Erases(m, z) /\ g \in GroupsOf(m, z)
             THEN Inc(@[g]) ELSE @[g]]]

(***************************************************************************)
(* get_ppa_by_lba_base: consecutive pages of a zone go to consecutive dies *)
(* of its groups, then to the planes of the die, then to the next page of  *)
(* the block; part k of a partial mapping starts k parts into the block.   *)
(***************************************************************************)
Para(m, z) == m.phy[z].n * DiesPerGroup

DieOf(m, z, page) ==
  LET k == page % Para(m, z)
  IN (m.phy[z].first + k \div DiesPerGroup) * DiesPerGroup + (k % DiesPerGroup)

PlaneOf(m, z, page) == (page \div Para(m, z)) % Planes

\* Mutant: the planes of a die are not told apart.
PageOfIgnoresPlanes(m, z, page) == page \div Para(m, z)

\* Mutant: every zone's pages start at the beginning of the block.
PageOfWithoutPart(m, z, page) == (page \div Para(m, z)) \div Planes

PageOf(m, z, page) ==
  (page \div Para(m, z)) \div Planes
    + IF m.phy[z].n > 1 THEN m.phy[z].part * (PgsPerBlk \div m.phy[z].n) ELSE 0

get_ppa_by_lba_base(m, z, page) ==
  [die |-> DieOf(m, z, page), pl |-> PlaneOf(m, z, page),
   blk |-> m.phy[z].ofst, pg |-> PageOf(m, z, page)]

\* A zone is as large as one FBG, or as its parts in several groups.
ZonePages == 0..(DiesPerGroup * Planes * PgsPerBlk - 1)

-----------------------------------------------------------------------------
(***************************************************************************)
(* The commands zns_req_distribute passes on.  Unless MayReopen, hosts     *)
(* open a zone that is closed and holds nothing; unless MayResetUnused     *)
(* they reset a zone that was opened since its last reset.  The emulator   *)
(* never opens more zones than opened_zones has room for.                  *)
(***************************************************************************)
Open(z) ==
  /\ MayReopen \/ (z \notin held /\ ~IsOpened(map, z))
  /\ map' = zone_open(map, z)
  /\ fault' = zone_open_fault(map, z)
  /\ held' = IF fault' = "none" THEN held \cup {z} ELSE held

Close(z) ==
  /\ map' = zone_close(map, z)
  /\ fault' = zone_close_fault(map, z)
  /\ UNCHANGED held

Reset(z) ==
  /\ MayResetUnused \/ z \in held
  /\ map' = zone_reset(map, z)
  /\ fault' = zone_reset_fault(map, z)
  /\ held' = IF fault' = "none" THEN held \ {z} ELSE held

MappingInit ==
  /\ map = zns_dynamic_mapping_init
  /\ fault = "none"
  /\ held = {}

MappingNext ==
  fault = "none" /\ \E z \in Zones : Open(z) \/ Close(z) \/ Reset(z)

MappingSpec == MappingInit /\ [][MappingNext]_mvars

-----------------------------------------------------------------------------

\* The mapping is well formed as long as no open has overrun opened_zones:
\* every index stays inside its array and no counter wraps.
MappingTypeOK ==
  /\ map.opened \in Seq(Zones)
  /\ map.st_stage \in BOOLEAN
  /\ map.used \in [Groups -> 0..MaxOpened]
  /\ map.uses \in [Groups -> [Fbgs -> 0..(Word - 1)]]
  /\ map.remain \in [Groups -> 0..(Word - 1)]
  /\ map.next \in [Groups -> Fbgs]
  /\ map.part \in [Groups -> [flag : BOOLEAN, fbg : Fbgs, next : 0..NumGroups]]
  /\ map.phy \in [Zones -> [n : 0..NumGroups, first : Groups,
                            ofst : Fbgs, part : 0..(NumGroups - 1)]]
  /\ held \subseteq Zones

Holds(z, g, f) == z \in held /\ g \in GroupsOf(map, z) /\ map.phy[z].ofst = f

\* fbgs_used_bitmap counts the zones that use an FBG (fairness.h:44-45): it
\* goes up in alloc_fbg, down in zone_reset, and reaches 0 only when nobody
\* is left.
BitmapCountsZones ==
  \A g \in Groups, f \in Fbgs :
    map.uses[g][f] = Cardinality({z \in Zones : Holds(z, g, f)})

\* In the full mapping remain_fbgs_num is exact, which the search of alloc_fbg relies on
\* (fairness.c:207: otherwise the loop never ends).
RemainIsExact ==
  \A g \in Groups : map.remain[g] = Cardinality(FreeFbgs(map, g))

\* Two zones meet in an FBG other than as parts of one partial mapping.
Conflict(y, z) ==
  /\ y # z
  /\ \E g \in Groups, f \in Fbgs : Holds(y, g, f) /\ Holds(z, g, f)
  /\ ~(/\ map.phy[y].n = map.phy[z].n
       /\ map.phy[y].first = map.phy[z].first
       /\ map.phy[y].part # map.phy[z].part)

\* No block of flash belongs to two zones that hold data: only a count of 0
\* lets an FBG be allocated again (fairness.h:44).
NoSharedBlocks == \A y, z \in held : ~Conflict(y, z)

\* Unless alloc_fbg gave the zones one FBG, two pages of zones that hold data
\* never get one flash address, and every address is inside its block
\* (get_ppa_by_lba_base, assertions at fairness.c:499 and 515).
AddressesDistinct ==
  \A y, z \in held : \A p, q \in ZonePages :
    LET a == get_ppa_by_lba_base(map, y, p)
        b == get_ppa_by_lba_base(map, z, q)
    IN /\ a.die < NumGroups * DiesPerGroup /\ a.pg < PgsPerBlk
       /\ a = b => (y = z /\ p = q) \/ Conflict(y, z)

\* die_group_used_bitmap counts the open zones on a group (fairness.h:61), so
\* LeastUsed balances what is open now and zone_close never goes below 0.
UsedCountsOpened ==
  /\ IsInjective(map.opened)
  /\ \A g \in Groups : map.used[g] =
       Cardinality({z \in Zones : IsOpened(map, z) /\ g \in GroupsOf(map, z)})

\* For hosts that close a zone before they open it again and reset what they
\* opened, the emulator stops only because FBGs ran out or because more zones
\* are open than opened_zones has entries: no other assertion fails, the
\* search at fairness.c:207 always ends, and the array is overrun only by a
\* host that really has MAXOPENZONES zones open (no entry outlives its zone).
StopsOnlyExhausted ==
  /\ fault \in {"none", "no_free_fbg", "group_exhausted", "opened_overrun"}
  /\ fault = "no_free_fbg" => \A g \in Groups : FreeFbgs(map, g) = {}
  /\ fault = "opened_overrun" =>
       Cardinality({z \in Zones : IsOpened(map, z)}) = MaxOpened

(***************************************************************************)
(* Three expectations the code does not meet.  No configuration checks     *)
(* them; README.md gives an instance that violates each.                   *)
(***************************************************************************)

\* A reset erases an FBG (zone_reset, fairness.c:431) only when no zone other
\* than the one reset has data in it, in any of its groups.
EraseSparesOthers ==
  [][\A z \in Zones : Reset(z) /\ Erases(map, z) =>
       \A y \in held \ {z}, g \in GroupsOf(map, z) :
         ~Holds(y, g, map.phy[z].ofst)]_mvars

\* An open finds an FBG whenever one is free: the full mapping looks for the
\* die group "among those with a free FBG" (fairness.c:340).
OpenFindsFreeFbg ==
  fault = "group_exhausted" => \A g \in Groups : FreeFbgs(map, g) = {}

\* zone_reset asserts that the FBG of the zone is in use (fairness.c:430).
ResetsUsedFbg == fault # "reset_unused"
=============================================================================
