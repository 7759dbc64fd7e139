--------------------------- MODULE ZonedBlockDevice ---------------------------
(***************************************************************************)
(* The zone allocator of ZenFS (zbd_zenfs.cc), driven by the threads that  *)
(* write, close and delete files (io_zenfs.cc) and by the threads that     *)
(* migrate extents (fs_zenfs.cc).  A zone is guarded by its busy_ flag,    *)
(* taken and given back one zone at a time while a thread walks io_zones,  *)
(* so every walk is one step per zone.  Open and active zones are counted  *)
(* by two tokens, behind one condition variable.                           *)
(*                                                                         *)
(* A writer owns one file at a time.  Data is counted in blocks; a zone's  *)
(* capacity is Capacity blocks.  busy holds the thread that set the flag.  *)
(***************************************************************************)
EXTENDS Integers, Sequences, FiniteSets

CONSTANTS
  Writers,          \* threads that write files
  Migrators,        \* threads that migrate extents
  NrZones,          \* the length of io_zones
  Capacity,         \* blocks per zone
  DevMaxOpen,       \* max_nr_open_zones of the device, 0 for no limit
  DevMaxActive,     \* max_nr_active_zones of the device, 0 for no limit
  Word,             \* 2^32 of unsigned int; a bound above every count
  FinishThreshold,  \* finish_threshold_, a percentage
  Lifetime,         \* the write lifetime hint of each writer's files
  Wal,              \* the writers whose files are write-ahead logs
  Buffered,         \* the writers that append through a buffer
  MaxAppend,        \* the most blocks of one append
  MaxLost,          \* bound: failed closes
  MayFail           \* the device commands that may fail

None  == "none"
Zones == 1..NrZones
Threads == Writers \union Migrators

ASSUME AllocatorAssumption ==
  /\ IsFiniteSet(Threads) /\ Writers \intersect Migrators = {} /\ None \notin Threads
  /\ {NrZones, Capacity, MaxAppend} \subseteq Nat \ {0}
  /\ {DevMaxOpen, DevMaxActive, FinishThreshold, MaxLost} \subseteq Nat
  /\ Word \in Nat /\ Word > NrZones + 3
  /\ Lifetime \in [Writers -> 0..5]
  /\ Wal \subseteq Writers /\ Buffered \subseteq Writers
  /\ MayFail \subseteq {"finish", "reset", "close"}

VARIABLES
  zone,             \* the zones of io_zones
  open_io_zones_,   \* open tokens handed out
  active_io_zones_, \* active tokens handed out
  migrating_,       \* a migration has a target zone
  locked,           \* the holder of migrate_zone_mtx_
  pc,               \* what each thread is doing
  scan,             \* its walk over io_zones
  zn,               \* the active zone of a writer, the target of a migrator
  puts,             \* the tokens a thread is about to put back
  left,             \* blocks that the current append has still to write
  pend,             \* blocks of a direct file that no extent covers yet
  ext,              \* blocks of each file object in each zone
  job,              \* the extent a migrator moves
  lost              \* tokens that nobody will ever put back

avars == <<zone, open_io_zones_, active_io_zones_, migrating_, locked, pc, scan,
           zn, puts, left, pend, ext, job, lost>>

(***************************************************************************)
(* Zone, and the limits that Open derives from the device's.               *)
(***************************************************************************)
NOT_SET == 0
NewZone == [busy |-> None, wp |-> 0, capacity |-> Capacity, used |-> 0,
            lifetime |-> NOT_SET]

IsEmpty(z) == zone[z].wp = 0
IsFull(z)  == zone[z].capacity = 0
IsUsed(z)  == zone[z].used > 0

Acquire(r, t) == [r EXCEPT !.busy = t]
Release(r) == [r EXCEPT !.busy = None]
Hint(r, lifetime) == [r EXCEPT !.lifetime = lifetime]
Use(r, n)  == [r EXCEPT !.used = @ + n]
Finish(r)  == [r EXCEPT !.capacity = 0, !.wp = Capacity]
Reset(r)   == [r EXCEPT !.capacity = Capacity, !.wp = 0, !.lifetime = NOT_SET]
Append1(r, n) == [r EXCEPT !.wp = @ + n, !.capacity = @ - n]

Reserved  == 2
MetaZones == 3
Limit(max) == IF max = 0 THEN NrZones + MetaZones ELSE (max - Reserved) % Word
MaxOpen    == Limit(DevMaxOpen)
MaxActive  == Limit(DevMaxActive)

(***************************************************************************)
(* Walks.  A thread that walks io_zones acquires the next zone unless it   *)
(* is busy, decides, and gives it back or keeps it as cand.  A zone is     *)
(* acquired and decided on in one step; that another thread may have it    *)
(* just then, only to look at it, is what Glimpsed stands for.             *)
(***************************************************************************)
NOT_GOOD       == 100
COULD_BE_WORSE == 50
NewScan == [i |-> 1, cand |-> 0, diff |-> NOT_GOOD]
Walks   == {"threshold", "match", "victim", "empty", "reset"}

Ready(t)     == puts[t] = <<>>
Walking(t)   == pc[t] \in Walks /\ Ready(t) /\ scan[t].i <= NrZones
At(t, walk)  == pc[t] = walk /\ Walking(t) /\ zone[scan[t].i].busy = None
End(t, walk) == pc[t] = walk /\ Ready(t) /\ scan[t].i > NrZones

Glimpsed(t, z) == \E u \in Threads \ {t} : Walking(u) /\ scan[u].i = z

Goto(t, where) == pc' = [pc EXCEPT ![t] = where]
Rewind(t)      == scan' = [scan EXCEPT ![t] = NewScan]
NextZone(s)    == [s EXCEPT !.i = @ + 1]
Advance(t)     == scan' = [scan EXCEPT ![t] = NextZone(@)]
PutBack(t, tokens) == puts' = [puts EXCEPT ![t] = tokens]

\* Acquire fails: the walk passes the zone by.
AcquireFails(t) ==
  LET z == scan[t].i
  IN /\ Walking(t)
     /\ zone[z].busy # None \/ Glimpsed(t, z)
     /\ Advance(t)
     /\ UNCHANGED <<zone, open_io_zones_, active_io_zones_, migrating_, locked, pc,
                    zn, puts, left, pend, ext, job, lost>>

\* The walk keeps z instead of the zone it kept before.
Kept(z, d) == [i |-> z + 1, cand |-> z, diff |-> d]

Keep(t, z, d) ==
  /\ zone' = [y \in Zones |->
                IF y = z THEN Acquire(zone[y], t)
                ELSE IF y = scan[t].cand THEN Release(zone[y]) ELSE zone[y]]
  /\ scan' = [scan EXCEPT ![t] = Kept(z, d)]

Skip(t) == Advance(t) /\ UNCHANGED zone

(***************************************************************************)
(* Tokens.                                                                 *)
(***************************************************************************)
NotifyNobody == UNCHANGED pc

\* notify_one: one of the threads asleep on zone_resources_ wakes up.
Notify ==
  LET asleep == {w \in Writers : pc[w] = "asleep"}
  IN IF asleep = {} THEN UNCHANGED pc ELSE \E w \in asleep : Goto(w, "wait")

PutOpenIOZoneToken(t) ==
  /\ ~Ready(t) /\ Head(puts[t]) = "open"
  /\ open_io_zones_' = open_io_zones_ - 1
  /\ PutBack(t, Tail(puts[t]))
  /\ Notify
  /\ UNCHANGED <<zone, active_io_zones_, migrating_, locked, scan, zn, left, pend,
                 ext, job, lost>>

PutActiveIOZoneToken(t) ==
  /\ ~Ready(t) /\ Head(puts[t]) = "active"
  /\ active_io_zones_' = active_io_zones_ - 1
  /\ PutBack(t, Tail(puts[t]))
  /\ Notify
  /\ UNCHANGED <<zone, open_io_zones_, migrating_, locked, scan, zn, left, pend,
                 ext, job, lost>>

OpenLimit(w) == IF w \in Wal THEN MaxOpen ELSE (MaxOpen - 1) % Word

Waiting(w) == pc[w] = "wait" \/ End(w, "threshold")

WaitForOpenIOZoneToken(w) ==
  /\ Waiting(w) /\ Ready(w)
  /\ \/ /\ open_io_zones_ < OpenLimit(w)
        /\ open_io_zones_' = open_io_zones_ + 1
        /\ Goto(w, "match")
     \/ /\ open_io_zones_ >= OpenLimit(w)
        /\ Goto(w, "asleep")
        /\ UNCHANGED open_io_zones_
  /\ Rewind(w)
  /\ UNCHANGED <<zone, active_io_zones_, migrating_, locked, zn, puts, left, pend,
                 ext, job, lost>>

(***************************************************************************)
(* AllocateIOZone, for a writer: ApplyFinishThreshold, an open token,      *)
(* GetBestOpenZoneMatch, and when no open zone suits the file well enough, *)
(* an active token (finishing the fullest idle zone for as long as there   *)
(* is none) and AllocateEmptyZone.                                         *)
(***************************************************************************)
GetLifeTimeDiff(zl, fl) ==
  CASE fl \in {0, 1} /\ fl = zl       -> 0
    [] fl \notin {0, 1} /\ zl > fl    -> zl - fl
    [] fl \notin {0, 1} /\ zl = fl    -> COULD_BE_WORSE
    [] OTHER                          -> NOT_GOOD

StartAllocation(w) ==
  Goto(w, IF w \notin Wal /\ FinishThreshold # 0 THEN "threshold" ELSE "wait")

\* AllocateIOZone fails: so does the append that asked for the zone.
GiveUp(w) ==
  /\ Goto(w, "idle")
  /\ Rewind(w)
  /\ left' = [left EXCEPT ![w] = 0]

\* AllocateIOZone returns zone z to AllocateNewZone.
Obtain(w, z) ==
  /\ zn' = [zn EXCEPT ![w] = z]
  /\ Goto(w, IF left[w] = 0 THEN "idle" ELSE "append")
  /\ Rewind(w)

ApplyFinishThreshold(w) ==
  LET z    == scan[w].i
      ends == /\ ~IsEmpty(z) /\ ~IsFull(z)
              /\ zone[z].capacity < (Capacity * FinishThreshold) \div 100
  IN /\ At(w, "threshold")
     /\ \/ /\ ~ends
           /\ Skip(w)
           /\ UNCHANGED <<pc, puts, left>>
        \/ /\ ends
           /\ zone' = [zone EXCEPT ![z] = Finish(@)]
           /\ PutBack(w, <<"active">>)
           /\ Advance(w)
           /\ UNCHANGED <<pc, left>>
        \/ /\ ends /\ "finish" \in MayFail
           /\ GiveUp(w)
           /\ UNCHANGED <<zone, puts>>
     /\ UNCHANGED <<open_io_zones_, active_io_zones_, migrating_, locked, zn, pend,
                    ext, job, lost>>

\* A migrator looks for room for the whole extent, a writer for any room.
FileOf(t)      == IF t \in Writers THEN t ELSE job[t].owner
MinCapacity(t) == IF t \in Writers THEN 0 ELSE job[t].len

GetBestOpenZoneMatch(t) ==
  LET z    == scan[t].i
      d    == GetLifeTimeDiff(zone[z].lifetime, Lifetime[FileOf(t)])
      fits == /\ IsUsed(z) /\ ~IsFull(z)
              /\ zone[z].capacity >= MinCapacity(t)
              /\ d <= scan[t].diff
  IN /\ At(t, "match")
     /\ \/ fits /\ Keep(t, z, d)
        \/ ~fits /\ Skip(t)
     /\ UNCHANGED <<open_io_zones_, active_io_zones_, migrating_, locked, pc, zn,
                    puts, left, pend, ext, job, lost>>

MatchNotGivenBack(w) ==
  LET z   == scan[w].cand
      d   == scan[w].diff
      got == active_io_zones_ < MaxActive
  IN /\ w \in Writers /\ End(w, "match")
     /\ \/ /\ d < COULD_BE_WORSE \/ (~got /\ z # 0 /\ d = COULD_BE_WORSE)
           /\ Obtain(w, z)
           /\ UNCHANGED active_io_zones_
        \/ /\ d >= COULD_BE_WORSE /\ (got \/ z = 0 \/ d # COULD_BE_WORSE)
           /\ active_io_zones_' = IF got THEN active_io_zones_ + 1 ELSE active_io_zones_
           /\ Goto(w, IF got THEN "empty" ELSE "active")
           /\ Rewind(w)
           /\ UNCHANGED zn
     /\ UNCHANGED <<zone, open_io_zones_, migrating_, locked, puts, left, pend, ext,
                    job, lost>>

\* The match is good, or is taken because no active token is left, or is
\* given back.
MatchedIOZone(w) ==
  LET z   == scan[w].cand
      d   == scan[w].diff
      got == active_io_zones_ < MaxActive
  IN /\ w \in Writers /\ End(w, "match")
     /\ \/ /\ d < COULD_BE_WORSE \/ (~got /\ z # 0 /\ d = COULD_BE_WORSE)
           /\ Obtain(w, z)
           /\ UNCHANGED <<zone, active_io_zones_>>
        \/ /\ d >= COULD_BE_WORSE /\ (got \/ z = 0 \/ d # COULD_BE_WORSE)
           /\ zone' = IF z = 0 THEN zone ELSE [zone EXCEPT ![z] = Release(@)]
           /\ active_io_zones_' = IF got THEN active_io_zones_ + 1 ELSE active_io_zones_
           /\ Goto(w, IF got THEN "empty" ELSE "active")
           /\ Rewind(w)
           /\ UNCHANGED zn
     /\ UNCHANGED <<open_io_zones_, migrating_, locked, puts, left, pend, ext, job,
                    lost>>

GetActiveIOZoneTokenIfAvailable(w) ==
  /\ pc[w] = "active" /\ Ready(w)
  /\ \/ /\ active_io_zones_ < MaxActive
        /\ active_io_zones_' = active_io_zones_ + 1
        /\ Goto(w, "empty")
     \/ /\ active_io_zones_ >= MaxActive
        /\ Goto(w, "victim")
        /\ UNCHANGED active_io_zones_
  /\ UNCHANGED <<zone, open_io_zones_, migrating_, locked, scan, zn, puts, left, pend,
                 ext, job, lost>>

FinishCheapestIOZone(w) ==
  LET z     == scan[w].i
      v     == scan[w].cand
      cheap == /\ ~IsEmpty(z) /\ ~IsFull(z)
               /\ v # 0 => zone[v].capacity > zone[z].capacity
  IN /\ At(w, "victim")
     /\ \/ cheap /\ Keep(w, z, NOT_GOOD)
        \/ ~cheap /\ Skip(w)
     /\ UNCHANGED <<open_io_zones_, active_io_zones_, migrating_, locked, pc, zn,
                    puts, left, pend, ext, job, lost>>

FinishVictimKeepsToken(w) ==
  LET v == scan[w].cand
  IN /\ End(w, "victim")
     /\ zone' = IF v = 0 THEN zone ELSE [zone EXCEPT ![v] = Release(Finish(@))]
     /\ Goto(w, "active")
     /\ Rewind(w)
     /\ UNCHANGED <<open_io_zones_, active_io_zones_, migrating_, locked, zn, puts,
                    left, pend, ext, job, lost>>

FinishVictim(w) ==
  LET v == scan[w].cand
  IN /\ End(w, "victim")
     /\ \/ /\ v = 0
           /\ Goto(w, "active")
           /\ Rewind(w)
           /\ UNCHANGED <<zone, puts, left>>
        \/ /\ v # 0
           /\ zone' = [zone EXCEPT ![v] = Release(Finish(@))]
           /\ PutBack(w, <<"active">>)
           /\ Goto(w, "active")
           /\ Rewind(w)
           /\ UNCHANGED left
        \/ /\ v # 0 /\ "finish" \in MayFail
           /\ zone' = [zone EXCEPT ![v] = Release(@)]
           /\ PutBack(w, <<"open">>)
           /\ GiveUp(w)
     /\ UNCHANGED <<open_io_zones_, active_io_zones_, migrating_, locked, zn, pend,
                    ext, job, lost>>

AllocateEmptyZone(w) ==
  LET z == scan[w].i
  IN /\ At(w, "empty")
     /\ \/ /\ IsEmpty(z)
           /\ zone' = [zone EXCEPT ![z] = Hint(Acquire(@, w), Lifetime[w])]
           /\ Obtain(w, z)
        \/ /\ ~IsEmpty(z)
           /\ Skip(w)
           /\ UNCHANGED <<pc, zn>>
     /\ UNCHANGED <<open_io_zones_, active_io_zones_, migrating_, locked, puts, left,
                    pend, ext, job, lost>>

NoEmptyZone(w) ==
  /\ End(w, "empty")
  /\ PutBack(w, <<"active", "open">>)
  /\ GiveUp(w)
  /\ UNCHANGED <<zone, open_io_zones_, active_io_zones_, migrating_, locked, zn,
                 pend, ext, job, lost>>

(***************************************************************************)
(* A writer's file: ZonedWritableFile and ZoneFile.                        *)
(***************************************************************************)
NoExtents == [z \in Zones |-> 0]
MinOf(a, b) == IF a < b THEN a ELSE b

\* Append, SparseAppend or BufferedAppend, which first sees to an active zone.
StartAppend(w) ==
  /\ pc[w] = "idle" /\ Ready(w)
  /\ \E n \in 1..MaxAppend : left' = [left EXCEPT ![w] = n]
  /\ IF zn[w] = 0 THEN StartAllocation(w) ELSE Goto(w, "append")
  /\ UNCHANGED <<zone, open_io_zones_, active_io_zones_, migrating_, locked, scan,
                 zn, puts, pend, ext, job, lost>>

\* PushExtent: the blocks written since the last extent become one.
Pushed(w)     == [ext EXCEPT ![w][zn[w]] = @ + pend[w]]
PushedUsed(w) == Use(zone[zn[w]], pend[w])

\* CloseActiveZone of a full zone: no device command, both tokens go back.
AppendDirectAtEnd(w) ==
  /\ pc[w] = "append" /\ Ready(w) /\ w \notin Buffered
  /\ zn[w] # 0 /\ IsFull(zn[w])
  /\ zone' = [zone EXCEPT ![zn[w]] = Release(PushedUsed(w))]
  /\ ext'  = Pushed(w)
  /\ pend' = [pend EXCEPT ![w] = 0]
  /\ zn'   = [zn EXCEPT ![w] = 0]
  /\ PutBack(w, <<"open", "active">>)
  /\ StartAllocation(w)
  /\ UNCHANGED <<open_io_zones_, active_io_zones_, migrating_, locked, scan, left,
                 job, lost>>

AppendDirect(w) ==
  LET n == MinOf(left[w], zone[zn[w]].capacity)
  IN /\ pc[w] = "append" /\ Ready(w) /\ w \notin Buffered
     /\ zn[w] # 0 /\ ~IsFull(zn[w])
     /\ zone' = [zone EXCEPT ![zn[w]] = Append1(@, n)]
     /\ pend' = [pend EXCEPT ![w] = @ + n]
     /\ left' = [left EXCEPT ![w] = @ - n]
     /\ Goto(w, IF left[w] = n THEN "idle" ELSE "append")
     /\ UNCHANGED <<open_io_zones_, active_io_zones_, migrating_, locked, scan, zn,
                    puts, ext, job, lost>>

\* BufferedAppend and SparseAppend: a zone that this write fills is closed
\* and the next one allocated at once, whether or not data is left.
BufferedAppend(w) ==
  LET n     == MinOf(left[w], zone[zn[w]].capacity)
      z     == Use(Append1(zone[zn[w]], n), n)
      fills == z.capacity = 0
  IN /\ pc[w] = "append" /\ Ready(w) /\ w \in Buffered
     /\ zn[w] # 0
     /\ zone' = [zone EXCEPT ![zn[w]] = IF fills THEN Release(z) ELSE z]
     /\ ext'  = [ext EXCEPT ![w][zn[w]] = @ + n]
     /\ left' = [left EXCEPT ![w] = @ - n]
     /\ \/ /\ fills
           /\ zn' = [zn EXCEPT ![w] = 0]
           /\ PutBack(w, <<"open", "active">>)
           /\ StartAllocation(w)
        \/ /\ ~fills
           /\ Goto(w, "idle")
           /\ UNCHANGED <<zn, puts>>
     /\ UNCHANGED <<open_io_zones_, active_io_zones_, migrating_, locked, scan, pend,
                    job, lost>>

\* CloseWR: what is left of the file becomes an extent, then CloseActiveZone.
\* An empty zone goes back without its active token, and a device that fails
\* to close the zone costs the open token.
CloseFile(w) ==
  /\ pc[w] = "idle" /\ Ready(w) /\ zn[w] = 0
  /\ Goto(w, "closed")
  /\ UNCHANGED <<zone, open_io_zones_, active_io_zones_, migrating_, locked, scan,
                 zn, puts, left, pend, ext, job, lost>>

CloseWR(w) ==
  LET z == zn[w]
  IN /\ pc[w] = "idle" /\ Ready(w) /\ z # 0
     /\ zone' = [zone EXCEPT ![z] = Release(PushedUsed(w))]
     /\ ext'  = Pushed(w)
     /\ pend' = [pend EXCEPT ![w] = 0]
     /\ zn'   = [zn EXCEPT ![w] = 0]
     /\ Goto(w, "closed")
     /\ \/ /\ PutBack(w, IF IsFull(z) THEN <<"open", "active">> ELSE <<"open">>)
           /\ lost' = [lost EXCEPT !.active = IF IsEmpty(z) THEN @ + 1 ELSE @]
        \/ /\ "close" \in MayFail /\ lost.open < MaxLost
           /\ ~IsEmpty(z) /\ ~IsFull(z)
           /\ lost' = [lost EXCEPT !.open = @ + 1]
           /\ UNCHANGED puts
     /\ UNCHANGED <<open_io_zones_, active_io_zones_, migrating_, locked, scan, left,
                    job>>

\* ClearExtents of file object o.
ClearExtents(o) == [z \in Zones |-> Use(zone[z], -ext[o][z])]

Orphan(j, m) == [j EXCEPT !.file = m]

\* DeleteFile: the object dies with its last reference, so a migrator that
\* has the file keeps its extents.
DeleteFile(w) ==
  /\ w \in Writers /\ pc[w] = "closed" /\ Ready(w)
  /\ \/ /\ \A m \in Migrators : job[m].file # w
        /\ zone' = ClearExtents(w)
        /\ ext'  = [ext EXCEPT ![w] = NoExtents]
        /\ UNCHANGED job
     \/ \E m \in Migrators :
        /\ job[m].file = w
        /\ ext' = [ext EXCEPT ![m] = ext[w], ![w] = NoExtents]
        /\ job' = [job EXCEPT ![m] = Orphan(@, m)]
        /\ UNCHANGED zone
  /\ Goto(w, "reset")
  /\ UNCHANGED <<open_io_zones_, active_io_zones_, migrating_, locked, scan, zn,
                 puts, left, pend, lost>>

\* A writer goes on with a new file.
Rest(t) == IF t \in Writers THEN "idle" ELSE "none"

ResetUnusedIOZones(t) ==
  LET z       == scan[t].i
      garbage == ~IsEmpty(z) /\ ~IsUsed(z)
  IN /\ At(t, "reset")
     /\ \/ /\ ~garbage
           /\ Skip(t)
           /\ UNCHANGED <<pc, puts>>
        \/ /\ garbage
           /\ zone' = [zone EXCEPT ![z] = Reset(@)]
           /\ PutBack(t, IF IsFull(z) THEN <<>> ELSE <<"active">>)
           /\ Advance(t)
           /\ UNCHANGED pc
        \/ /\ garbage /\ "reset" \in MayFail
           /\ Goto(t, Rest(t))
           /\ Rewind(t)
           /\ UNCHANGED <<zone, puts>>
     /\ UNCHANGED <<open_io_zones_, active_io_zones_, migrating_, locked, zn, left,
                    pend, ext, job, lost>>

ResetDone(t) ==
  /\ End(t, "reset")
  /\ Goto(t, Rest(t))
  /\ Rewind(t)
  /\ UNCHANGED <<zone, open_io_zones_, active_io_zones_, migrating_, locked, zn,
                 puts, left, pend, ext, job, lost>>

(***************************************************************************)
(* MigrateFileExtents, for one extent of one closed .sst file.  Nothing in *)
(* the code keeps two migrations off one file; its caller, the GC worker,  *)
(* has one call of MigrateExtents at a time for a file.                    *)
(***************************************************************************)
NoJob == [file |-> None, owner |-> None, src |-> 0, tgt |-> 0, len |-> 0]
Move(f, z) == [file |-> f, owner |-> f, src |-> z, tgt |-> 0, len |-> ext[f][z]]
Copy(j, z) == [j EXCEPT !.tgt = z]

StartMigration(m) ==
  /\ m \in Migrators /\ pc[m] = "none" /\ Ready(m)
  /\ \E f \in Writers \ Wal, z \in Zones :
       /\ pc[f] = "closed" /\ ext[f][z] > 0
       /\ \A o \in Migrators : job[o].file # f
       /\ job' = [job EXCEPT ![m] = Move(f, z)]
  /\ Goto(m, "take")
  /\ UNCHANGED <<zone, open_io_zones_, active_io_zones_, migrating_, locked, scan,
                 zn, puts, left, pend, ext, lost>>

\* A migrator waits for the one before it, then keeps the mutex while it looks
\* for a zone.
TakeMigrateZone(m) ==
  /\ pc[m] = "take" /\ locked = None /\ ~migrating_
  /\ migrating_' = TRUE
  /\ locked' = m
  /\ Goto(m, "match")
  /\ UNCHANGED <<zone, open_io_zones_, active_io_zones_, scan, zn, puts, left, pend,
                 ext, job, lost>>

MigrateZoneTaken(m) ==
  LET z == scan[m].cand
  IN /\ m \in Migrators /\ End(m, "match")
     /\ zn' = [zn EXCEPT ![m] = z]
     /\ migrating_' = (z # 0)
     /\ locked' = None
     /\ Goto(m, IF z = 0 THEN "release" ELSE "copy")
     /\ Rewind(m)
     /\ UNCHANGED <<zone, open_io_zones_, active_io_zones_, puts, left, pend, ext, job,
                    lost>>

\* MigrateData; the copy counts unless the file is gone by now.
MigrateData(m) ==
  LET z == zn[m]
      n == job[m].len
      copied == Append1(zone[z], n)
      counts == job[m].file # m
  IN /\ pc[m] = "copy"
     /\ zone' = [zone EXCEPT ![z] = IF counts THEN Use(copied, n) ELSE copied]
     /\ job'  = [job EXCEPT ![m] = Copy(@, IF counts THEN z ELSE 0)]
     /\ lost' = [lost EXCEPT !.active = IF copied.capacity = 0 THEN @ + 1 ELSE @]
     /\ Goto(m, "release")
     /\ UNCHANGED <<open_io_zones_, active_io_zones_, migrating_, locked, scan, zn,
                    puts, left, pend, ext>>

ReleaseMigrateZone(m) ==
  /\ pc[m] = "release" /\ locked = None
  /\ migrating_' = FALSE
  /\ zone' = IF zn[m] = 0 THEN zone ELSE [zone EXCEPT ![zn[m]] = Release(@)]
  /\ zn' = [zn EXCEPT ![m] = 0]
  /\ Goto(m, "sync")
  /\ UNCHANGED <<open_io_zones_, active_io_zones_, locked, scan, puts, left, pend,
                 ext, job, lost>>

SyncForgetsOldExtents(m) ==
  LET j == job[m]
  IN /\ pc[m] = "sync"
     /\ ext' = [ext EXCEPT ![j.file] =
                  IF j.file = m THEN NoExtents
                  ELSE IF j.tgt = 0 THEN @
                  ELSE [@ EXCEPT ![j.src] = 0, ![j.tgt] = @ + j.len]]
     /\ job' = [job EXCEPT ![m] = NoJob]
     /\ Goto(m, "reset")
     /\ UNCHANGED <<zone, open_io_zones_, active_io_zones_, migrating_, locked, scan,
                    zn, puts, left, pend, lost>>

\* SyncFileExtents, then the migrator drops the file: a deleted one dies now.
SyncFileExtents(m) ==
  LET j     == job[m]
      moved == IF j.tgt = 0 THEN ext[j.file]
               ELSE [z \in Zones |-> ext[j.file][z]
                       + (IF z = j.tgt THEN j.len ELSE 0)
                       - (IF z = j.src THEN j.len ELSE 0)]
      freed == [z \in Zones |->
                  (IF j.tgt # 0 /\ z = j.src THEN j.len ELSE 0)
                  + (IF j.file = m THEN moved[z] ELSE 0)]
  IN /\ pc[m] = "sync"
     /\ zone' = [z \in Zones |-> Use(zone[z], -freed[z])]
     /\ ext'  = [ext EXCEPT ![j.file] = IF j.file = m THEN NoExtents ELSE moved]
     /\ job'  = [job EXCEPT ![m] = NoJob]
     /\ Goto(m, "reset")
     /\ UNCHANGED <<open_io_zones_, active_io_zones_, migrating_, locked, scan, zn,
                    puts, left, pend, lost>>

(***************************************************************************)
(* The specification.                                                      *)
(***************************************************************************)
AllocatorInit ==
  /\ zone = [z \in Zones |-> NewZone]
  /\ open_io_zones_ = 0 /\ active_io_zones_ = 0
  /\ migrating_ = FALSE /\ locked = None
  /\ pc   = [t \in Threads |-> Rest(t)]
  /\ scan = [t \in Threads |-> NewScan]
  /\ zn   = [t \in Threads |-> 0]
  /\ puts = [t \in Threads |-> <<>>]
  /\ left = [w \in Writers |-> 0]
  /\ pend = [w \in Writers |-> 0]
  /\ ext  = [t \in Threads |-> NoExtents]
  /\ job  = [m \in Migrators |-> NoJob]
  /\ lost = [open |-> 0, active |-> 0]

\* The steps of AllocateIOZone, by which it goes on until it returns.
AllocateIOZone(w) ==
  \/ ApplyFinishThreshold(w)
  \/ WaitForOpenIOZoneToken(w)
  \/ MatchedIOZone(w)
  \/ GetActiveIOZoneTokenIfAvailable(w)
  \/ FinishCheapestIOZone(w) \/ FinishVictim(w)
  \/ AllocateEmptyZone(w) \/ NoEmptyZone(w)

\* The steps of a thread inside the file system.
Step(t) ==
  \/ AcquireFails(t) \/ GetBestOpenZoneMatch(t)
  \/ PutOpenIOZoneToken(t) \/ PutActiveIOZoneToken(t)
  \/ ResetUnusedIOZones(t) \/ ResetDone(t)

WriterStep(w) ==
  \/ Step(w) \/ AllocateIOZone(w)
  \/ AppendDirectAtEnd(w) \/ AppendDirect(w) \/ BufferedAppend(w)

MigratorStep(m) ==
  \/ Step(m)
  \/ TakeMigrateZone(m) \/ MigrateZoneTaken(m) \/ MigrateData(m)
  \/ ReleaseMigrateZone(m) \/ SyncFileExtents(m)

\* What the users of the file system call.
Call ==
  \/ \E w \in Writers : StartAppend(w) \/ CloseFile(w) \/ CloseWR(w) \/ DeleteFile(w)
  \/ \E m \in Migrators : StartMigration(m)

AllocatorNext ==
  \/ Call
  \/ \E w \in Writers : WriterStep(w)
  \/ \E m \in Migrators : MigratorStep(m)

AllocatorSpec == AllocatorInit /\ [][AllocatorNext]_avars

(***************************************************************************)
(* Properties.                                                             *)
(***************************************************************************)
Owes(t, token) == \E i \in 1..Len(puts[t]) : puts[t][i] = token

\* A writer has an open token while it has a zone or looks for one.
HoldsOpen(t) ==
  \/ t \in Writers /\ (zn[t] # 0 \/ pc[t] \in {"match", "active", "victim", "empty"})
  \/ Owes(t, "open")

\* An active token belongs to a partly written zone; to a thread before its
\* zone is written, and from the write that fills it until it is put back.
HoldsActive(t) ==
  \/ pc[t] = "empty"
  \/ t \in Writers /\ zn[t] # 0 /\ (IsEmpty(zn[t]) \/ IsFull(zn[t]))
  \/ Owes(t, "active")

\* The token counters are exact: whatever the threads interleave, and whatever
\* device command fails, open_io_zones_ and active_io_zones_ count the tokens
\* that somebody holds plus the lost ones, none twice, and stay within the
\* limits of Open.  The lost ones are those that CloseActiveZone leaves behind
\* for an empty zone or a failed close and MigrateData for a zone it fills.
OpenTokensCount ==
  /\ open_io_zones_ = Cardinality({t \in Threads : HoldsOpen(t)}) + lost.open
  /\ open_io_zones_ <= MaxOpen

ActiveTokensCount ==
  /\ active_io_zones_ = Cardinality({z \in Zones : ~IsEmpty(z) /\ ~IsFull(z)})
                        + Cardinality({t \in Threads : HoldsActive(t)}) + lost.active
  /\ active_io_zones_ <= MaxActive

TokensCount == OpenTokensCount /\ ActiveTokensCount

\* The blocks of zone z that a file object has in its extents, and the ones
\* that MigrateData has copied for an extent not exchanged yet.
InExtents(z) == {b \in Threads \X (1..Capacity) : b[2] <= ext[b[1]][z]}
Copied(z)    == {b \in Migrators \X (1..Capacity) :
                   job[b[1]].tgt = z /\ b[2] <= job[b[1]].len}

\* used_capacity_ is what ResetUnusedIOZones trusts.  It counts the blocks that
\* live extents cover, also across a migration whose file is deleted under it,
\* and with what a writer has not pushed yet never exceeds what was written:
\* a zone that holds data of a file is never taken for garbage.
UsedCountsExtents ==
  \A z \in Zones :
    /\ zone[z].used = Cardinality(InExtents(z)) + Cardinality(Copied(z))
    /\ zone[z].used <= zone[z].wp
    /\ \A w \in Writers : zn[w] = z => zone[z].used + pend[w] <= zone[z].wp

\* A busy zone has one owner.  No two threads hold one zone (as active zone,
\* target of a migration or candidate of a walk), a held zone is busy, and a
\* busy zone is held by the thread that made it so: no path of AllocateIOZone,
\* failed or not, leaves a zone busy for ever.
Held(t) == {zn[t], scan[t].cand} \ {0}

BusyHasOneOwner ==
  /\ \A t \in Threads : \A z \in Held(t) : zone[z].busy = t
  /\ \A z \in Zones : zone[z].busy # None => z \in Held(zone[z].busy)

\* No wake-up is lost: while a writer sleeps in WaitForOpenIOZoneToken, another
\* one holds an open token, and so will notify, or is awake and about to test
\* its limit.  A failed close, which loses its token without notifying, is
\* excepted.
WakeUpComes ==
  lost.open = 0 =>
    \A w \in Writers : pc[w] = "asleep" =>
      \E u \in Threads : HoldsOpen(u) \/ pc[u] = "wait"
=============================================================================
