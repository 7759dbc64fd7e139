------------------------------- MODULE ZenFS -------------------------------
(***************************************************************************)
(* The file layer of ZenFS (fs/fs_zenfs.cc, fs/io_zenfs.cc): the table of  *)
(* files, the metadata log that makes it durable, the extents the writers  *)
(* add to the files, migration, crashes and the recovery at mount.         *)
(*                                                                         *)
(* What survives a crash is what is on the device: log, the records of     *)
(* each metadata zone, and disk, the blocks of each io zone (the write     *)
(* pointer of a zone is the length of its sequence).  Everything else is   *)
(* the memory of the process.  An operation on the table holds files_mtx_  *)
(* from its first change to its last, so one record, op, describes the     *)
(* operation in progress; its steps are the writes it makes to the device  *)
(* and a crash may come between any two.  Writers append to their files    *)
(* without the mutex.                                                      *)
(*                                                                         *)
(* A metadata record is modelled as one unit of the metadata zone and a    *)
(* write of file data as one block.  Addresses count blocks through all    *)
(* the io zones, so the end of one zone is the start of the next.  The     *)
(* choice of an io zone is any the allocator could return;                 *)
(* ZonedBlockDevice models how it chooses.                                 *)
(***************************************************************************)
EXTENDS Naturals, Sequences, SequencesExt

CONSTANTS
    Names,      \* the file names
    Log,        \* those that end in .log
    Sst,        \* those that end in .sst
    NrMeta,     \* metadata zones (ZENFS_META_ZONES)
    MetaCap,    \* records a metadata zone holds
    NrIO,       \* io zones
    IOCap,      \* blocks an io zone holds
    Direct,     \* the values of use_direct_writes the writers use
    MaxFiles,   \* bound: files ever created
    MaxLen,     \* bound: blocks of a file
    MaxSeq,     \* bound: superblock sequence number up to which calls roll
    MaxFaults,  \* bound: crashes and failed metadata writes together
    MayFail,    \* the metadata writes that may fail
    Exposed     \* the behaviours named below that are allowed

ASSUME ZenFSAssumption ==
    /\ Log \subseteq Names /\ Sst \subseteq Names /\ Direct \subseteq BOOLEAN
    /\ NrMeta \in Nat \ {0, 1} /\ NrIO \in Nat \ {0} /\ IOCap \in Nat \ {0}
    /\ MetaCap \in Nat /\ MetaCap > 2
    /\ MaxFiles \in Nat /\ MaxLen \in Nat /\ MaxSeq \in Nat
    /\ MaxFaults \in Nat
    /\ MayFail \subseteq {"record", "replace", "super", "snapshot"}
    /\ Exposed \subseteq {"create_rolls", "unlocked", "torn"}

VARIABLES
    log,        \* log[m]: the records in metadata zone m
    disk,       \* disk[z]: the blocks in io zone z
    status,     \* "down", "mounting", "up" or "dead" (the mount failed)
    files_,     \* files_[n]: the id of the file with name n, or 0
    file,       \* file[i]: the ZoneFile with id i
    used,       \* used[z]: used_capacity_ of io zone z
    meta_log_,  \* the metadata zone in use
    sequence_,  \* of the superblock
    next_file_id_,
    op,         \* the operation that holds files_mtx_
    mig,        \* the file being migrated
    born,       \* ghost: files created so far
    faults      \* crashes and failed metadata writes so far

fvars == <<log, disk, status, files_, file, used, meta_log_, sequence_,
           next_file_id_, op, mig, born, faults>>

Meta == 1..NrMeta
IO == 1..NrIO
Ids == 1..MaxFiles

----------------------------------------------------------------------------
(***************************************************************************)
(* Files, extents and records.  stamp, data and acked are ghosts: the      *)
(* identity of the file's data, the blocks the writer has written and the  *)
(* number of them a completed sync or close has acknowledged.  wait is     *)
(* where the writing thread is: "no" (between calls), "zone" (in           *)
(* AllocateNewZone), "alloc", "sync" or "close" (about to persist the      *)
(* metadata) or "failed".  astray is a ghost of a decoded file: its start  *)
(* was encoded when it was not an address in the zone the file writes to.  *)
(***************************************************************************)
ZoneStart(z) == (z - 1) * IOCap

\* above every address
NO_EXTENT == NrIO * IOCap + 1

\* the zone an address is in, or 0 (nullptr)
GetIOZone(a) == IF a < NrIO * IOCap THEN a \div IOCap + 1 ELSE 0

NoFile == [links |-> <<>>, ext |-> <<>>, synced |-> 0, start |-> NO_EXTENT,
           active |-> 0, open |-> FALSE, wait |-> "no", kind |-> "direct",
           stamp |-> 0, data |-> <<>>, acked |-> 0, astray |-> FALSE]

\* a block says whose it is, the how manieth, and in which form: "plain",
\* "padded" (filled up with zeros) or "sparse" (with a header)
Block(f, form) == <<f.stamp, Len(f.data) + 1, form>>
Padding == <<0, 0, "zeros">>
Lost == <<0, 0, "lost">>
Wp(z) == ZoneStart(z) + Len(disk[z])

\* whole: the length is that of the blocks, not of the data in them
Extent(a, n, whole) == [start |-> a, len |-> n, whole |-> whole]

BlockAt(a) == LET z == GetIOZone(a) IN
              IF a < Wp(z) THEN disk[z][a - ZoneStart(z) + 1] ELSE Lost

Blocks(e) == [j \in 1..e.len |-> BlockAt(e.start + j - 1)]

\* the data a list of extents refers to
Data(ext) ==
    LET Bytes(e, b) == IF e.whole /\ b[3] = "padded" THEN <<b, Padding>> ELSE <<b>>
        Read(e) == FlattenSeq([j \in 1..e.len |-> Bytes(e, BlockAt(e.start + j - 1))]) IN
    FlattenSeq([k \in DOMAIN ext |-> Read(ext[k])])

Super(s) == [tag |-> "super", seq |-> s]
End == [tag |-> "end"]
Torn == [tag |-> "torn"]

Astray(f) ==
    f.start # NO_EXTENT /\ (f.active = 0 \/ GetIOZone(f.start) # f.active)

\* ZoneFile::EncodeTo, the extents from extent_start on
Encoded(i, f, from) ==
    [id |-> i, ext |-> SubSeq(f.ext, from + 1, Len(f.ext)), start |-> f.start,
     links |-> f.links, kind |-> f.kind, astray |-> Astray(f)]

EncodeUpdateTo(tag, i, f) == [tag |-> tag, entry |-> Encoded(i, f, f.synced)]

\* one entry for each name, so a file with two names is there twice
EncodeSnapshotTo ==
    [tag |-> "snapshot",
     entries |-> {Encoded(files_[n], file[files_[n]], 0) :
                      n \in {m \in Names : files_[m] # 0}}]

EncodeFileDeletionTo(i, n) == [tag |-> "delete", id |-> i, name |-> n]

MetadataSynced(f) == [f EXCEPT !.synced = Len(f.ext)]

----------------------------------------------------------------------------
(***************************************************************************)
(* Recovery.  A replay is [status, files, file, next]: "none" until a      *)
(* snapshot is found, "ok", "ended" at an end record, or "corrupt".        *)
(***************************************************************************)
NoReplay == [status |-> "none", files |-> [n \in Names |-> 0],
             file |-> [i \in Ids |-> NoFile], next |-> 1]

Decoded(e) == MetadataSynced([NoFile EXCEPT
    !.links = e.links, !.ext = e.ext, !.start = e.start, !.kind = e.kind,
    !.astray = e.astray])

NextId(r, ids) == Max({r.next} \cup {i + 1 : i \in ids})

DecodeSnapshotFrom(r, entries) ==
    [status |-> "ok",
     files |-> [n \in Names |->
         LET owners == {e \in entries : n \in ToSet(e.links)} IN
         IF owners = {} THEN 0 ELSE (CHOOSE e \in owners : TRUE).id],
     file |-> [i \in Ids |->
         LET own == {e \in entries : e.id = i} IN
         IF own = {} THEN NoFile ELSE Decoded(CHOOSE e \in own : TRUE)],
     next |-> NextId(r, {e.id : e \in entries})]

MergeUpdate(f, e, replace) == MetadataSynced([f EXCEPT
    !.ext = (IF replace THEN <<>> ELSE @) \o e.ext,
    !.start = e.start, !.kind = e.kind, !.links = e.links, !.astray = e.astray])

\* mutant: the names the file had are not erased
UpdateKeepsNames(r, e, replace) ==
    LET known == \E n \in Names : r.files[n] = e.id IN
    [r EXCEPT !.next = NextId(r, {e.id}),
        !.file[e.id] = IF known THEN MergeUpdate(@, e, replace) ELSE Decoded(e),
        !.files = [n \in Names |->
            IF n \in ToSet(e.links) /\ r.files[n] = 0 THEN e.id ELSE r.files[n]]]

DecodeFileUpdateFrom(r, e, replace) ==
    LET known == \E n \in Names : r.files[n] = e.id
        links == ToSet(r.file[e.id].links)
        left == [n \in Names |-> IF n \in links THEN 0 ELSE r.files[n]]
        next == NextId(r, {e.id}) IN
    IF ~known
    THEN [r EXCEPT !.next = next, !.file[e.id] = Decoded(e),
              !.files[e.links[1]] = IF @ = 0 THEN e.id ELSE @]
    ELSE IF \E n \in links : r.files[n] = 0
    THEN [r EXCEPT !.next = next, !.status = "corrupt"]
    ELSE [r EXCEPT !.next = next,
              !.file[e.id] = MergeUpdate(@, e, replace),
              !.files = [n \in Names |->
                  IF n \in ToSet(e.links) /\ left[n] = 0 THEN e.id ELSE left[n]]]

DecodeFileDeletionFrom(r, i, n) ==
    IF r.files[n] # i \/ n \notin ToSet(r.file[i].links)
    THEN [r EXCEPT !.status = "corrupt"]
    ELSE [r EXCEPT !.files[n] = 0, !.file[i].links = Remove(@, n)]

Replay(r, rec) ==
    IF r.status \in {"ended", "corrupt"} THEN r
    ELSE CASE rec.tag = "snapshot" -> DecodeSnapshotFrom(r, rec.entries)
           [] rec.tag = "update"   -> DecodeFileUpdateFrom(r, rec.entry, FALSE)
           [] rec.tag = "replace"  -> DecodeFileUpdateFrom(r, rec.entry, TRUE)
           [] rec.tag = "delete"   -> DecodeFileDeletionFrom(r, rec.id, rec.name)
           [] rec.tag = "end"      ->
                  [r EXCEPT !.status = IF @ = "ok" THEN "ended" ELSE @]
           [] OTHER                -> [r EXCEPT !.status = "corrupt"]

RecoverFrom(m) ==
    LET after[k \in 1..Len(log[m])] ==
            IF k = 1 THEN NoReplay ELSE Replay(after[k - 1], log[m][k]) IN
    after[Len(log[m])]

\* the first record of the zone can be read; a zone without is passed over
HasRecord(m) == log[m] # <<>> /\ log[m][1] # Torn

\* the order in which Mount tries the zones
Before(a, b) ==
    \/ log[a][1].seq > log[b][1].seq
    \/ log[a][1].seq = log[b][1].seq /\ a > b

\* the blocks from the active extent's start to the write pointer of the zone
\* that the start is found to be in
Unlogged(f) == LET z == GetIOZone(f.start) IN Blocks(Extent(f.start, Wp(z) - f.start, TRUE))

\* the errors of ZoneFile::Recover: no zone, a start behind the write pointer,
\* a block where RecoverSparseExtents finds no header
Damaged(f) ==
    LET z == GetIOZone(f.start) IN
    /\ f.start # NO_EXTENT
    /\ \/ z = 0
       \/ Wp(z) < f.start
       \/ f.kind = "sparse" /\ \E b \in ToSet(Unlogged(f)) : b[3] # "sparse"

\* mutant: what the write pointer tells is not used
RecoverNothing(f) == [f EXCEPT !.start = NO_EXTENT]

Recover(f) ==
    LET left == Len(Unlogged(f)) IN
    IF f.start = NO_EXTENT \/ Damaged(f) THEN f
    ELSE [f EXCEPT !.start = NO_EXTENT,
             !.ext = @ \o IF f.kind = "sparse"
                          THEN [k \in 1..left |-> Extent(f.start + k - 1, 1, FALSE)]
                          ELSE IF left = 0 THEN <<>>
                          ELSE <<Extent(f.start, left, TRUE)>>]

\* the outcome of reading the device, as Mount does: the first zone whose
\* replay does not end without a snapshot decides; "damaged" when Repair fails
Recovery ==
    LET read == {k \in Meta : HasRecord(k)}
        tried == {[zone |-> m, replay |-> RecoverFrom(m)] : m \in read}
        usable == {t \in tried : t.replay.status # "none"}
        newest == CHOOSE t \in usable :
                      \A u \in usable \ {t} : Before(t.zone, u.zone)
        r == newest.replay
        named == {r.files[n] : n \in Names} \ {0}
        ids == {t.replay.next :
                    t \in {u \in tried : Before(u.zone, newest.zone)}} IN
    IF (\E m \in read : log[m][1].tag # "super") \/ usable = {}
    THEN [NoReplay EXCEPT !.status = "corrupt"]
    ELSE [status |-> IF r.status = "corrupt" THEN "corrupt"
                     ELSE IF \E i \in named : Damaged(r.file[i]) THEN "damaged" ELSE "ok",
          zone   |-> newest.zone,
          files  |-> r.files,
          file   |-> [i \in Ids |-> IF i \in named THEN Recover(r.file[i]) ELSE NoFile],
          next   |-> Max({r.next} \cup ids)]

----------------------------------------------------------------------------
(***************************************************************************)
(* The operation that holds files_mtx_.  todo is what it still has to do,  *)
(* one entry for each metadata record (a rename over an existing file is   *)
(* a deletion and an update); stage is the next step: "begin" (change the  *)
(* table and encode the record), "record" (append it), or, once the log    *)
(* is full, "super", "encode", "snapshot" and "sweep" of the roll to       *)
(* another metadata zone.  An operation takes the mutex and begins in one  *)
(* step, as nothing another thread does in between could tell.  path is a  *)
(* ghost: the tables of names the operation goes through.                  *)
(***************************************************************************)
Idle == [stage |-> "idle", todo |-> <<>>, rec |-> End, old |-> 0, path |-> <<>>]
NoMig == [stage |-> "none", id |-> 0, new |-> <<>>, old |-> <<>>]

Deletion(n) == [do |-> "delete", id |-> files_[n], name |-> n]
Creation(n, kind) == [do |-> "create", id |-> next_file_id_, name |-> n, kind |-> kind]
Renaming(n, d) == [do |-> "rename", id |-> files_[n], name |-> n, to |-> d]
Linking(n, d) == [do |-> "link", id |-> files_[n], name |-> n, to |-> d]
Syncing(i) == [do |-> "sync", id |-> i]
Replacing(i) == [do |-> "replace", id |-> i]
Mounting == [do |-> "mount", id |-> 0]

\* the table of names after one entry of todo
NamesAfter(t, s) ==
    CASE s.do = "delete" -> [t EXCEPT ![s.name] = 0]
      [] s.do = "create" -> [t EXCEPT ![s.name] = s.id]
      [] s.do = "rename" -> [t EXCEPT ![s.name] = 0, ![s.to] = s.id]
      [] s.do = "link"   -> [t EXCEPT ![s.to] = s.id]
      [] OTHER           -> t

HasRoom == Len(log[meta_log_]) < MetaCap

\* the file of the entry once its part of the table has changed
Begun(s) ==
    CASE s.do = "delete" -> [file[s.id] EXCEPT !.links = Remove(@, s.name)]
      [] s.do = "create" -> [NoFile EXCEPT !.links = <<s.name>>, !.kind = s.kind,
                                           !.stamp = born + 1]
      [] s.do = "rename" -> [file[s.id] EXCEPT !.links = Append(Remove(@, s.name), s.to)]
      [] s.do = "link"   -> [file[s.id] EXCEPT !.links = Append(@, s.to)]
      [] OTHER           -> file[s.id]

RecordOf(s) ==
    CASE s.do = "delete"  -> EncodeFileDeletionTo(s.id, s.name)
      [] s.do = "replace" -> EncodeUpdateTo("replace", s.id, Begun(s))
      [] OTHER            -> EncodeUpdateTo("update", s.id, Begun(s))

\* a new file is not in files_ until its record is written; that its creation
\* meets a full log, and the snapshot of the roll misses it, is "create_rolls"
Begin(todo, path) ==
    LET s == Head(todo) IN
    /\ (s.do = "create" /\ "create_rolls" \notin Exposed) => HasRoom
    /\ files_' = IF s.do = "create" THEN files_ ELSE NamesAfter(files_, s)
    /\ file' = [file EXCEPT ![s.id] = Begun(s)]
    /\ next_file_id_' = IF s.do = "create" THEN next_file_id_ + 1 ELSE next_file_id_
    /\ born' = IF s.do = "create" THEN born + 1 ELSE born
    /\ op' = [Idle EXCEPT !.stage = "record", !.todo = todo, !.rec = RecordOf(s),
                          !.path = path]
    /\ UNCHANGED <<log, disk, status, used, meta_log_, sequence_, mig, faults>>

\* the extents a migration has replaced are not encoded by anyone else before
\* it takes the mutex, unless the model is told so: nothing in the code sees to it
Quiet == "unlocked" \in Exposed \/ mig.stage # "replaced"

Lock(todo) ==
    LET t == NamesAfter(files_, todo[1]) IN
    /\ status = "up" /\ op = Idle
    /\ Begin(todo, <<files_, t>> \o
                   IF Len(todo) = 1 THEN <<>> ELSE <<NamesAfter(t, todo[2])>>)

\* the second record of a call
Continue == op.stage = "begin" /\ status = "up" /\ Begin(op.todo, op.path)

Exists(n) == files_[n] # 0
OpenForWR(n) == Exists(n) /\ file[files_[n]].open

\* a file with the name is deleted first; one that is open makes the call fail
Replacement(n) == IF Exists(n) THEN <<Deletion(n)>> ELSE <<>>

\* RocksDB opens its .log files without direct writes (OptimizeForLogWrite)
OpenWritableFile(n, direct) ==
    /\ n \in Log => ~direct
    /\ Quiet /\ ~OpenForWR(n) /\ born < MaxFiles /\ next_file_id_ <= MaxFiles
    /\ Lock(Replacement(n) \o <<Creation(n,
           IF direct THEN "direct" ELSE IF n \in Log THEN "sparse" ELSE "buffered")>>)

DeleteFile(n) == Quiet /\ Exists(n) /\ ~OpenForWR(n) /\ Lock(<<Deletion(n)>>)

RenameFile(n, d) ==
    /\ Quiet /\ n # d /\ Exists(n) /\ ~OpenForWR(d)
    /\ Lock(Replacement(d) \o <<Renaming(n, d)>>)

LinkFile(n, d) == Quiet /\ Exists(n) /\ ~Exists(d) /\ Lock(<<Linking(n, d)>>)

\* MetadataWriter::Persist for a writer that waits for it
PersistMetadata(i) ==
    Quiet /\ file[i].wait \in {"alloc", "sync", "close"} /\ Lock(<<Syncing(i)>>)

----------------------------------------------------------------------------
(***************************************************************************)
(* The last part: the record is durable.                                   *)
(***************************************************************************)
\* mutant: MetadataSynced is forgotten
PersistedUnmarked(f) ==
    LET g == [f EXCEPT !.wait = "no"] IN
    CASE f.wait = "sync"  -> [g EXCEPT !.acked = Len(f.data)]
      [] f.wait = "close" -> [g EXCEPT !.acked = Len(f.data), !.open = FALSE, !.active = 0]
      [] OTHER            -> g

\* the writer goes on after its metadata is persisted
Persisted(f) ==
    LET g == [MetadataSynced(f) EXCEPT !.wait = "no"] IN
    CASE f.wait = "sync"  -> [g EXCEPT !.acked = Len(f.data)]
      [] f.wait = "close" -> [g EXCEPT !.acked = Len(f.data), !.open = FALSE, !.active = 0]
      [] OTHER            -> g

Gone(i, t) == t[i].links = <<>> /\ mig.id # i

Settled(t, s) ==
    CASE s.do = "delete"  -> IF Gone(s.id, t) THEN [t EXCEPT ![s.id] = NoFile] ELSE t
      [] s.do = "create"  -> [t EXCEPT ![s.id] = [MetadataSynced(@) EXCEPT !.open = TRUE]]
      [] s.do = "sync"    -> [t EXCEPT ![s.id] = Persisted(@)]
      [] s.do = "mount"   -> t
      [] OTHER            -> [t EXCEPT ![s.id] = MetadataSynced(@)]

\* used_capacity_ when extents are added, and when ClearExtents takes them off
Covered(ext, z) ==
    FoldLeft(LAMBDA n, e : IF GetIOZone(e.start) = z THEN n + e.len ELSE n, 0, ext)
Counting(u, ext) == [z \in IO |-> u[z] + Covered(ext, z)]

\* mutant: the zone of a dropped extent counts as unused
ClearZones(u, ext) == [z \in IO |-> IF Covered(ext, z) > 0 THEN 0 ELSE u[z]]

ClearExtents(u, ext) == [z \in IO |-> u[z] - Covered(ext, z)]

\* the extents a migration changed, which SyncFileExtents takes off
Changed(old, new) ==
    LET at == SelectSeq([k \in DOMAIN old |-> k], LAMBDA k : old[k].start # new[k].start) IN
    [j \in DOMAIN at |-> old[at[j]]]

IsBusy(z, t) == \E i \in Ids : t[i].active = z

\* ResetUnusedIOZones, with which a call that may have freed extents ends; it
\* comes after the release of the mutex, so another thread may find fewer zones
ResetUnusedIOZones(t, u) ==
    disk' = [z \in IO |-> IF IsBusy(z, t) \/ u[z] # 0 THEN disk[z] ELSE <<>>]

Sweeps(s) == s.do \in {"delete", "rename", "replace", "mount"} \/ Len(op.path) = 3

\* t: the files, after the MetadataSynced of a snapshot if there was a roll
Complete(t) ==
    LET s == Head(op.todo)
        last == Len(op.todo) = 1 IN
    /\ file' = Settled(t, s)
    /\ files_' = IF s.do = "create" THEN [files_ EXCEPT ![s.name] = s.id] ELSE files_
    /\ used' = CASE s.do = "delete" /\ Gone(s.id, t) -> ClearExtents(used, t[s.id].ext)
                 [] s.do = "replace" -> ClearExtents(used, Changed(mig.old, mig.new))
                 [] OTHER -> used
    /\ mig' = IF s.do = "replace" THEN NoMig ELSE mig
    /\ status' = IF s.do = "mount" THEN "up" ELSE status
    /\ IF last /\ Sweeps(s) THEN ResetUnusedIOZones(file', used') ELSE disk' = disk
    /\ op' = IF last THEN Idle
             ELSE [op EXCEPT !.stage = "begin", !.todo = Tail(@), !.rec = End, !.old = 0]
    /\ UNCHANGED <<next_file_id_, born, faults>>

AddTo(m, rec) == log' = [log EXCEPT ![m] = Append(@, rec)]

PersistRecord ==
    /\ op.stage = "record" /\ HasRoom
    /\ AddTo(meta_log_, op.rec)
    /\ Complete(file)
    /\ UNCHANGED <<meta_log_, sequence_>>

----------------------------------------------------------------------------
(***************************************************************************)
(* RollMetaZoneLocked.                                                     *)
(***************************************************************************)
\* AllocateMetaZone: the first zone no ZenMetaLog holds, reset if it is not empty
AllocateMetaZone == Min(Meta \ {meta_log_})

Rolling == UNCHANGED <<disk, status, files_, used, next_file_id_, mig, born,
                       faults>>

StartRoll ==
    /\ \/ op.stage = "record" /\ ~HasRoom
       \/ op.stage = "begin" /\ status = "mounting"
    /\ sequence_ < MaxSeq \/ status = "mounting"
    /\ meta_log_' = AllocateMetaZone
    /\ log' = [log EXCEPT ![AllocateMetaZone] = <<>>,
                          ![meta_log_] = IF HasRoom THEN Append(@, End) ELSE @]
    /\ op' = [op EXCEPT !.stage = "super", !.old = meta_log_, !.rec = End]
    /\ Rolling /\ UNCHANGED <<file, sequence_>>

\* mutant: the old zone is reset before the snapshot is written
SuperblockResetsOld ==
    /\ op.stage = "super"
    /\ sequence_' = sequence_ + 1
    /\ log' = [log EXCEPT ![meta_log_] = Append(@, Super(sequence_')), ![op.old] = <<>>]
    /\ op' = [op EXCEPT !.stage = "encode"]
    /\ Rolling /\ UNCHANGED <<file, meta_log_>>

WriteSuperblock ==
    /\ op.stage = "super"
    /\ sequence_' = sequence_ + 1
    /\ AddTo(meta_log_, Super(sequence_'))
    /\ op' = [op EXCEPT !.stage = "encode"]
    /\ Rolling /\ UNCHANGED <<file, meta_log_>>

EncodeSnapshot ==
    /\ op.stage = "encode"
    /\ op' = [op EXCEPT !.stage = "snapshot", !.rec = EncodeSnapshotTo]
    /\ Rolling /\ UNCHANGED <<log, file, meta_log_, sequence_>>

WriteSnapshotLocked ==
    /\ op.stage = "snapshot"
    /\ AddTo(meta_log_, op.rec)
    /\ file' = [i \in Ids |-> IF \E n \in Names : files_[n] = i
                              THEN MetadataSynced(file[i]) ELSE file[i]]
    /\ op' = [op EXCEPT !.stage = "sweep", !.rec = End]
    /\ Rolling /\ UNCHANGED <<meta_log_, sequence_>>

ResetOldZone ==
    /\ op.stage = "sweep"
    /\ log' = [log EXCEPT ![op.old] = <<>>]
    /\ Complete(file)
    /\ UNCHANGED <<meta_log_, sequence_>>

----------------------------------------------------------------------------
(***************************************************************************)
(* A metadata write fails and leaves nothing on the device.  The operation *)
(* undoes its change of the table and returns; a writer that gets an error *)
(* stops.  A failed migration keeps the new extents in memory and does not *)
(* take the old ones off used_capacity_.  A roll that fails leaves meta_log_ at the new  *)
(* zone.  A failed mount is a crash.                                       *)
(***************************************************************************)
Undone(s) ==
    CASE s.do = "delete" -> [file EXCEPT ![s.id].links = Append(@, s.name)]
      [] s.do = "create" -> [file EXCEPT ![s.id] = NoFile]
      [] s.do = "rename" -> [file EXCEPT ![s.id].links = Append(Remove(@, s.to), s.name)]
      [] s.do = "link"   -> [file EXCEPT ![s.id].links = Remove(@, s.to)]
      [] s.do = "sync"   -> [file EXCEPT ![s.id].wait = "failed"]
      [] OTHER           -> file

UndoneNames(s) ==
    CASE s.do = "delete" -> [files_ EXCEPT ![s.name] = s.id]
      [] s.do = "rename" -> [files_ EXCEPT ![s.to] = 0, ![s.name] = s.id]
      [] s.do = "link"   -> [files_ EXCEPT ![s.to] = 0]
      [] OTHER           -> files_

FailedWrite ==
    LET s == Head(op.todo) IN
    /\ op.stage \in {"record", "super", "snapshot"} /\ status = "up"
    /\ (IF op.stage = "record" /\ s.do = "replace" THEN s.do ELSE op.stage) \in MayFail
    /\ op.stage = "record" => HasRoom
    /\ faults < MaxFaults
    /\ faults' = faults + 1
    /\ sequence_' = IF op.stage = "super" THEN sequence_ + 1 ELSE sequence_
    /\ file' = Undone(s)
    /\ files_' = UndoneNames(s)
    /\ mig' = IF s.do = "replace" THEN NoMig ELSE mig
    \* RenameFile returns the status of its rollback and goes on
    /\ IF s.do = "rename" THEN ResetUnusedIOZones(file', used) ELSE disk' = disk
    /\ op' = Idle
    /\ UNCHANGED <<log, status, used, meta_log_, next_file_id_, born>>

----------------------------------------------------------------------------
(***************************************************************************)
(* The writers.                                                            *)
(***************************************************************************)
Writer == UNCHANGED <<log, status, files_, meta_log_, sequence_, next_file_id_,
                      op, mig, born, faults>>

Active(i) == status = "up" /\ file[i].open /\ file[i].wait = "no"

IsFull(z) == Len(disk[z]) = IOCap

\* a zone AllocateIOZone may return: an empty one, or one partly written
Allocatable(z) ==
    /\ ~IsBusy(z, file) /\ ~IsFull(z)
    /\ disk[z] = <<>> \/ used[z] # 0

\* no call that encoded the extents of the file has still to mark them synced:
\* the code takes no lock against it, which is "unlocked"
Unwatched(i) ==
    \/ "unlocked" \in Exposed
    \/ /\ op.stage # "snapshot"
       /\ op.stage \notin {"idle", "begin"} => Head(op.todo).id # i

\* the blocks written to the active zone since the last extent
Unpushed(f) ==
    IF f.active = 0 \/ f.start = NO_EXTENT \/ Wp(f.active) = f.start THEN <<>>
    ELSE <<Extent(f.start, Wp(f.active) - f.start, FALSE)>>

PushExtent(f) ==
    IF Unpushed(f) = <<>> THEN f
    ELSE [f EXCEPT !.ext = @ \o Unpushed(f), !.start = Wp(f.active)]

\* Append and its variants find no zone to write to
NeedZone(i) ==
    /\ Active(i) /\ Len(file[i].data) < MaxLen /\ Unwatched(i)
    /\ \/ file[i].active = 0
       \/ file[i].active # 0 /\ file[i].kind = "direct" /\ IsFull(file[i].active)
    /\ file' = [file EXCEPT ![i] = [PushExtent(@) EXCEPT !.active = 0, !.wait = "zone"]]
    /\ used' = Counting(used, Unpushed(file[i]))
    /\ Writer /\ UNCHANGED disk

\* a flush whose last zone is full and finds no other is an error, a direct
\* write that finds none leaves the file as it was
AllocateNewZone(i) ==
    /\ status = "up" /\ file[i].wait = "zone"
    /\ \/ \E z \in {y \in IO : Allocatable(y)} :
             file' = [file EXCEPT ![i].active = z, ![i].wait = "alloc", ![i].start = Wp(z)]
       \/ /\ \A z \in IO : ~Allocatable(z)
          /\ file' = [file EXCEPT ![i].wait =
                 IF file[i].kind = "direct" \/ file[i].start = NO_EXTENT THEN "no" ELSE "failed"]
    /\ Writer /\ UNCHANGED <<disk, used>>

\* what a writer may put into a block: the buffer of a file without headers is
\* flushed in whole blocks, and filled up with zeros by a sync or a close
Forms(kind) == CASE kind = "direct"   -> {"plain"}
                 [] kind = "sparse"   -> {"sparse"}
                 [] kind = "buffered" -> {"plain", "padded"}

\* BufferedAppend and SparseAppend push the extent with the write, and replace
\* a zone they filled at once; DataSync persists the metadata of a padded block
WriteBlock(i, form) ==
    LET z == file[i].active
        b == Block(file[i], form)
        f == [file[i] EXCEPT !.data = Append(@, b)]
        e == Extent(Wp(z), 1, FALSE)
        fills == Len(disk[z]) + 1 = IOCap IN
    /\ Active(i) /\ z # 0 /\ ~IsFull(z) /\ Len(file[i].data) < MaxLen
    /\ disk' = [disk EXCEPT ![z] = Append(@, b)]
    /\ IF f.kind = "direct" THEN file' = [file EXCEPT ![i] = f] /\ UNCHANGED used
       ELSE /\ Unwatched(i)
            /\ file' = [file EXCEPT ![i] = [f EXCEPT
                   !.ext = Append(@, e),
                   !.start = @ + 1,
                   !.active = IF fills THEN 0 ELSE @,
                   !.wait = IF fills THEN "zone" ELSE IF form = "padded" THEN "sync" ELSE @]]
            /\ used' = Counting(used, <<e>>)
    /\ Writer

\* DataSync, as Sync or the first part of Fsync: a buffered file persists its
\* metadata, the others rely on the write pointer
Sync(i) ==
    /\ Active(i) /\ file[i].acked < Len(file[i].data) /\ Unwatched(i)
    /\ file' = [file EXCEPT ![i] =
           IF @.kind = "buffered" THEN [@ EXCEPT !.wait = "sync"]
           ELSE [PushExtent(@) EXCEPT !.acked = Len(file[i].data)]]
    /\ used' = Counting(used, Unpushed(file[i]))
    /\ Writer /\ UNCHANGED disk

Fsync(i) ==
    /\ Active(i) /\ file[i].kind # "buffered" /\ Unwatched(i)
    /\ Unpushed(file[i]) # <<>> \/ file[i].synced < Len(file[i].ext)
    /\ file' = [file EXCEPT ![i] = [PushExtent(@) EXCEPT !.wait = "sync"]]
    /\ used' = Counting(used, Unpushed(file[i]))
    /\ Writer /\ UNCHANGED disk

\* CloseInternal: DataSync, then CloseWR
CloseWR(i) ==
    /\ Active(i) /\ Unwatched(i)
    /\ file' = [file EXCEPT ![i] =
           [PushExtent(@) EXCEPT !.start = NO_EXTENT, !.wait = "close"]]
    /\ used' = Counting(used, Unpushed(file[i]))
    /\ Writer /\ UNCHANGED disk

----------------------------------------------------------------------------
(***************************************************************************)
(* MigrateFileExtents of one extent of a closed .sst file.                 *)
(***************************************************************************)
Migration == UNCHANGED <<log, status, files_, meta_log_, sequence_,
                         next_file_id_, born, faults>>

MigrateData(n) ==
    LET i == files_[n] IN
    /\ status = "up" /\ mig = NoMig /\ n \in Sst /\ Exists(n) /\ ~OpenForWR(n)
    /\ \E k \in DOMAIN file[i].ext, z \in IO :
         LET e == file[i].ext[k]
             copy == Extent(Wp(z), e.len, e.whole) IN
         /\ Allocatable(z) /\ disk[z] # <<>> /\ Len(disk[z]) + e.len <= IOCap
         /\ disk' = [disk EXCEPT ![z] = @ \o Blocks(e)]
         /\ used' = Counting(used, <<copy>>)
         /\ mig' = [stage |-> "copied", id |-> i, old |-> file[i].ext,
                    new |-> [file[i].ext EXCEPT ![k] = copy]]
    /\ UNCHANGED <<file, op>> /\ Migration

\* SyncFileExtents: the list and nr_synced_extents_ change before the mutex is taken
ReplaceExtentList ==
    /\ mig.stage = "copied"
    /\ "unlocked" \in Exposed \/ op = Idle
    /\ file' = [file EXCEPT ![mig.id].ext = mig.new, ![mig.id].synced = 0]
    /\ mig' = [mig EXCEPT !.stage = "replaced"]
    /\ UNCHANGED <<disk, used, op>> /\ Migration

SyncFileExtents ==
    /\ mig.stage = "replaced" /\ file[mig.id].links # <<>>
    /\ Lock(<<Replacing(mig.id)>>)

\* the file was deleted: no record
SkipDeleted ==
    /\ mig.stage = "replaced" /\ file[mig.id].links = <<>> /\ op = Idle
    /\ file' = [file EXCEPT ![mig.id] = NoFile]
    /\ used' = ClearExtents(ClearExtents(used, Changed(mig.old, mig.new)), mig.new)
    /\ mig' = NoMig
    /\ ResetUnusedIOZones(file', used')
    /\ UNCHANGED <<log, status, files_, meta_log_, sequence_,
                   next_file_id_, op, born, faults>>

----------------------------------------------------------------------------
(***************************************************************************)
(* Crash and mount.                                                        *)
(***************************************************************************)
Memory0 ==
    /\ files_' = [n \in Names |-> 0]
    /\ file' = [i \in Ids |-> NoFile]
    /\ used' = [z \in IO |-> 0]
    /\ mig' = NoMig

\* a record longer than a block, as a snapshot of files is, may reach the device
\* in part
Crash ==
    /\ status \in {"up", "mounting"} /\ faults < MaxFaults
    /\ faults' = faults + 1
    /\ status' = "down"
    /\ Memory0
    /\ op' = Idle /\ meta_log_' = 1 /\ sequence_' = 0 /\ next_file_id_' = 1
    /\ log' \in {log} \cup
           IF "torn" \in Exposed /\ op.stage = "snapshot" /\ op.rec.entries # {}
           THEN {[log EXCEPT ![meta_log_] = Append(@, Torn)]} ELSE {}
    /\ UNCHANGED <<disk, born>>

Recovered(f) == [f EXCEPT !.data = Data(f.ext), !.acked = Len(Data(f.ext)), !.astray = FALSE]

Mount ==
    LET r == Recovery IN
    /\ status = "down"
    /\ IF r.status # "ok"
       THEN /\ status' = "dead"
            /\ UNCHANGED <<files_, file, used, meta_log_, sequence_, next_file_id_, op>>
       ELSE /\ status' = "mounting"
            /\ files_' = r.files
            /\ file' = [i \in Ids |-> Recovered(r.file[i])]
            /\ used' = FoldLeft(LAMBDA u, i : Counting(u, r.file[i].ext), used,
                                [i \in Ids |-> i])
            /\ meta_log_' = r.zone
            /\ sequence_' = log[r.zone][1].seq
            /\ next_file_id_' = r.next
            /\ op' = [Idle EXCEPT !.stage = "begin", !.todo = <<Mounting>>,
                         !.path = <<r.files>>]
    /\ UNCHANGED <<log, disk, mig, born, faults>>

\* after MkFS
FSInit ==
    /\ log = [m \in Meta |-> IF m = 1
                 THEN <<Super(1), [tag |-> "snapshot", entries |-> {}]>> ELSE <<>>]
    /\ disk = [z \in IO |-> <<>>]
    /\ status = "down"
    /\ files_ = [n \in Names |-> 0]
    /\ file = [i \in Ids |-> NoFile]
    /\ used = [z \in IO |-> 0]
    /\ meta_log_ = 1 /\ sequence_ = 0 /\ next_file_id_ = 1
    /\ op = Idle /\ mig = NoMig
    /\ born = 0 /\ faults = 0

TableCall ==
    \E n \in Names :
        \/ \E direct \in Direct : OpenWritableFile(n, direct)
        \/ DeleteFile(n)
        \/ \E d \in Names : RenameFile(n, d) \/ LinkFile(n, d)

LogStep ==
    \/ Continue \/ PersistRecord \/ StartRoll \/ WriteSuperblock \/ EncodeSnapshot
    \/ WriteSnapshotLocked \/ ResetOldZone \/ FailedWrite

WriterCall ==
    \E i \in Ids :
        \/ NeedZone(i) \/ AllocateNewZone(i) \/ Sync(i)
        \/ \E form \in Forms(file[i].kind) : WriteBlock(i, form)
        \/ Fsync(i) \/ CloseWR(i) \/ PersistMetadata(i)

Migrate ==
    \/ \E n \in Names : MigrateData(n)
    \/ ReplaceExtentList \/ SyncFileExtents \/ SkipDeleted

FSNext ==
    \/ TableCall \/ LogStep \/ WriterCall \/ Migrate
    \/ Crash \/ Mount

FSSpec == FSInit /\ [][FSNext]_fvars

----------------------------------------------------------------------------
(***************************************************************************)
(* What a crash may leave behind.  Recovery is what a mount would find on  *)
(* the device as it is now, so an invariant about it holds for a crash at  *)
(* any moment.  The invariants are about a device that writes a record     *)
(* whole or not at all and whose failed writes are not those of a roll,    *)
(* and about Exposed = {}; README.md says what each member of Exposed      *)
(* breaks.                                                                 *)
(***************************************************************************)
Running == status \in {"up", "mounting"}

(***************************************************************************)
(* A mount finds a metadata zone to recover from and consistent records in *)
(* it, at whatever moment the process stopped: RollMetaZoneLocked resets   *)
(* the old zone only after the new one has a snapshot, and every deletion  *)
(* or update in the log finds the names it expects.  It also finds the     *)
(* zone of every active extent, but for a file whose record was written    *)
(* when extent_start_ was the end of a zone it had filled: that address is *)
(* looked up as the next zone, or as none.                                 *)
(***************************************************************************)
MountSucceeds ==
    LET r == Recovery IN
    \/ r.status = "ok" /\ status # "dead"
    \/ r.status = "damaged" /\ \A i \in Ids : Damaged(r.file[i]) => r.file[i].astray

(***************************************************************************)
(* The table of names on the device is the one in memory when no call      *)
(* holds files_mtx_; during a call it is one the call goes through: that   *)
(* before it, that after it or, when OpenWritableFile or RenameFile        *)
(* replaces an existing file, the table with the name removed.             *)
(***************************************************************************)
NamesDurable ==
    Running => Recovery.files \in
        (IF op = Idle THEN {files_} ELSE ToSet(op.path))

(***************************************************************************)
(* nr_synced_extents_ tells what is in the log: the extents it counts are  *)
(* those a replay gives the file, no more and no fewer.  An update record  *)
(* leaves them out, so one too many is lost and one too few comes twice.   *)
(***************************************************************************)
SyncedExtentsAreLogged ==
    (status = "up" /\ op = Idle) =>
        LET r == RecoverFrom(meta_log_) IN
        \A i \in Ids : (mig.id # i /\ \E n \in Names : files_[n] = i) =>
            r.file[i].ext = SubSeq(file[i].ext, 1, file[i].synced)

(***************************************************************************)
(* The extents of a file hold what its writer wrote, in order: no zone is  *)
(* reset or handed to a second writer under a file, as used_capacity_ of   *)
(* the zone never falls to 0 while a file has an extent there, by          *)
(* deletions, migrations, closes and sweeps in any order.                  *)
(***************************************************************************)
DataKept ==
    Running => \A i \in Ids :
        file[i].links # <<>> => IsPrefix(Data(file[i].ext), file[i].data)

\* what is left of recovered data without the zeros at its end
Unpadded(d) == IF d # <<>> /\ Last(d) = Padding THEN Front(d) ELSE d

Got(r, n) == Data(r.file[files_[n]].ext)

(***************************************************************************)
(* After a crash a file has everything its completed Sync, Fsync and Close *)
(* calls acknowledged.  Beyond that it has nothing but a prefix of what    *)
(* was written, followed at most by the zeros that fill up the last block  *)
(* of a flush that was not complete: the logged extents and what the write *)
(* pointer adds to them neither miss nor repeat a block.  The second part  *)
(* leaves out a file that was encoded at the end of a zone (see            *)
(* MountSucceeds): Recover gives it the blocks of the next zone.           *)
(***************************************************************************)
DataDurable ==
    LET r == Recovery
        Good(n) ==
            LET f == file[files_[n]] IN
            /\ IsPrefix(SubSeq(f.data, 1, f.acked), Got(r, n))
            /\ r.file[files_[n]].astray \/ IsPrefix(Unpadded(Got(r, n)), f.data) IN
    (Running /\ r.status = "ok") =>
        \A n \in Names : (Exists(n) /\ r.files[n] = files_[n]) => Good(n)

(***************************************************************************)
(* "We don't need to store the active zone as we can look it up from       *)
(* extent_start_", says ZoneFile::EncodeTo: Recover finds the zone of      *)
(* every active extent and the file's own blocks there.                    *)
(***************************************************************************)
ActiveZoneLookedUp ==
    LET r == Recovery IN
    Running => /\ r.status # "damaged"
               /\ \A n \in Names : (Exists(n) /\ r.files[n] = files_[n]) =>
                      \A k \in DOMAIN Got(r, n) :
                          Got(r, n)[k] \in ToSet(file[files_[n]].data) \cup {Padding}
=============================================================================
