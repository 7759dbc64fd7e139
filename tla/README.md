# A verification project for the ZNS SSD emulator and its file system

The repository holds an emulated zoned (ZNS) SSD for FEMU/QEMU (`src/zns`), the
ZenFS file system that runs on zoned devices (`src/zenfs-2.0.0`), and vendored
copies of RocksDB and libzbd. This project models the emulated SSD (its zone state
machine, its mapping of zones to flash, its transaction queues) and ZenFS (its zone
allocator, its metadata log with recovery, and its files). RocksDB and libzbd are
most of the lines under `src` and are not modelled, so the share of all source
lines that the modules stand for is small.

## The system and its parts

| part | source | state | operations | modelled by |
|---|---|---|---|---|
| zoned namespace | `zns/zns.c`, `zns.h` | descriptors (state, wp, w_ptr), four zone lists, open and active counters | Write, Append, Read, Zone Management Send and Receive, shutdown | `ZnsZones`, promise in `ZoneStateMachine` |
| dynamic mapping | `zns/fairness/fairness.c` | die groups, users of each FBG, free counts, opened zones, mapping of each zone | zone_open, zone_close, zone_reset, alloc_fbg, address translation | `DynamicMapping` |
| die queues | `fairness.c` | a FIFO of transactions per die, outstanding requests, start-up count | zns_req_distribute, zone_rw, zns_process_die_queue, release_ts | `DieQueues` |
| geometry, static mapping | `zns/supplement` | constants | initialisation | taken as constants |
| ZenFS allocator | `fs/zbd_zenfs.cc` | io zones with busy flags, open and active tokens, migration flag | AllocateIOZone, finishing, resets, waiting, migration zone | `ZonedBlockDevice` |
| ZenFS metadata log | `fs/fs_zenfs.cc` | metadata zones, records, file table | create, delete, rename, link, persist, roll, mount | `ZenFS` |
| ZenFS files | `fs/io_zenfs.cc` | extents, links, active zone | append, sync, close, migrate, recover | `ZenFS`, and as callers in `ZonedBlockDevice` |

A command first goes through `zns.c`, which decides about the logical zone, and
then through `zns_req_distribute` in `fairness.c`, which decides about flash and
time. The two keep separate books: `zns.c` opens zones implicitly and treats some
commands as no-ops, and `fairness.c` sees neither. Several findings come from
that gap. An FBG is the set of blocks at one offset in all dies of a die group.
ZenFS is a user of such a device, on the other side of the kernel.

| modules | role |
|---|---|
| `ZnsZones`, `DynamicMapping`, `DieQueues`, `ZonedBlockDevice`, `ZenFS` | the components; `DieQueues` extends `DynamicMapping` |
| `ZoneStateMachine`, `ZnsZonesAbstraction` | the abstract zone state machine, and the mapping under which `ZnsZones` implements it |
| `MCZnsZones`, `MCDynamicMapping`, `MCDieQueues`, `MCZonedBlockDevice` | values and symmetry for TLC |
| `ZnsZonesHandlers`, `ZnsZonesTheorems`, `ZnsZonesRefinement` | proofs about `ZnsZones` |
| `DynamicMappingTheorems` | proofs about `DynamicMapping` |
| `DieQueuesSteps`, `DieQueuesTheorems` | proofs about `DieQueues` |
| `ZonedBlockDeviceSteps`, `ZonedBlockDeviceTheorems` | proofs about `ZonedBlockDevice` |

## Zones: `ZnsZones`, `ZoneStateMachine`

The device is one record `dev`. Each C function that changes it is an operator
from device to device with the function's name, and a handler composes them in
the order of the calls. `status` is the completion status of the last command.
`phase` and `left` are the position of the shutdown loops, which take one step
per zone. Write pointers are relative to the start of the zone. A block address
is a pair of zone and offset. `TailBlocks` is what the namespace has behind its last
whole zone: the first loop of Zone Management Receive goes by that size and the second
by the number of zones, so the first may look at one zone behind the array, whose
contents are any (`beyond`). The Select All commands are closed forms, and
`BulkIsOneByOne` compares them with the walk over the lists in the code.
`QTAILQ_REMOVE` is defined in the module and not taken from the community modules:
those would be part of every proof obligation.

`ZoneStateMachine` is what a host is promised: which state changes a command can
cause, that limits hold, and when the device may close a zone by itself.
`ImplementsStateMachine` states that `ZnsZones` implements it.

| run | instance | shows |
|---|---|---|
| zones_limits | 3 zones, capacity 2 of 3 blocks, 1 open, 2 active, 1 block behind the zones | lists, counters, pointers, reports, bulk commands, action properties, refinement |
| zones_faults | 2 zones, buffers that fail to map, appends that overrun | what survives those failures |

Three zones are the fewest with one open, one closed and one more that wants a
resource. Limits 1 and 2 make both be reached. Capacity 2 separates a partly
written zone from a full one, and a zone size of 3 separates capacity from size.
`MaxNlb` bounds a command, and `WpBound` bounds how far appends can overrun. The
code ships without limits; no run is spent on that, since the theorems below hold
for every limit, none included.

## Mapping: `DynamicMapping`

`map` is `zns_dynamic_mapping_t`. Every function is an operator on it, and a
second operator names the assertion that stops the emulator, recorded in
`fault`; nothing happens after a fault, so deadlock is not checked. `held` is a
history variable: the zones opened since their last reset. `die_groups[]` always
holds consecutive groups, so only the first one and their number are kept.
`opened_zones` has `MaxOpened` entries; an open that finds them all taken overwrites what is
behind the array and is the fault `opened_overrun`. Counters wrap at `Word`, which stands for 2^32. A zone is taken to be as large as
one FBG; the zone size itself is configured outside the repository.

Hosts are disciplined unless a constant says otherwise: `MayReopen` lets them
open a zone that is open or holds data, and `MayResetUnused` lets them reset a
zone that was not opened. The zone state machine accepts both.

| run | instance | shows |
|---|---|---|
| mapping_full | 4 zones, 2 groups of 2 FBGs, `OpenLimit = NumGroups` as shipped, 3 entries in `opened_zones` | exact counts, no shared block, distinct addresses; only exhaustion, or as many open zones as entries, stops the emulator |
| mapping_partial | 2 zones in parts of 2 groups | users and addresses |

Three entries for four zones make the array overrun. Two groups of two FBGs and four zones exhaust a group and the whole flash, and
make `next_fbg_id` wrap. In the partial run the free count drifts (see Findings), so
a small `Word` keeps it finite: wrap-around, which the code meets after 2^32
steps, happens early there. The properties of that run do not use the count.

## Queues: `DieQueues`

`DieQueues` extends the mapping with requests, one queue per die, the time each
die stays busy and, as a history variable, whose data each block holds. One
thread distributes requests and polls dies, so requests are accepted only between
two rounds of the poller (`cur = 0`). Times are relative to now and `Tick` lets
one unit pass. The clock and the completion of expired requests belong to FEMU
and are marked external. `MayStayInPage` and `MayWriteUnopened` switch on the
requests of two findings. `zone_rw` counts the LBAs of a page (`LbasPerPage`) and
`get_ppa_by_lba_base` its sectors (`SecsPerPg`); the runs give them one value, as in the
builds with LBAs of 512 bytes that the comment at `fairness.c:605` has in mind. With another
LBA size `PagesReachTheirDies` is violated: `QueuesComplete.cfg` with `SecsPerPg = 4` sends
two pages in a row to one die.

| run | instance | shows |
|---|---|---|
| queues_order | 2 zones, 2 requests, 2 dies | nothing lost or submitted twice, no write overtakes the erase of its block |
| queues_complete | 1 zone, 2 requests, 2 dies, pages of 2 blocks | for every start and length, over page and die boundaries, each page reaches its die; every accepted request is submitted, during and after start-up |
| lost_in_page | as above with `MayStayInPage` | violation, see Findings |

Two dies are the fewest on which transactions of one request finish in either
order. Two passing runs, because their bounds multiply: the first has two zones that
pass blocks on to each other, the second has pages of two blocks.

Fairness is weak fairness of `PollDie` and `Tick`: the poller is a loop that never
blocks, and time passes. Nothing is assumed of hosts. `queues_complete` has one
zone and one FBG, so that disciplined hosts cannot exhaust the flash: after a
failed assertion nothing completes. It is the only specification of the project
that assumes fairness.

## Allocator: `ZonedBlockDevice`

Writers (one file each at a time) and migrators share the io zones. `busy` holds the
thread that won the try-lock of a zone's `busy_` flag. The walks over `io_zones` in
`ApplyFinishThreshold`, `GetBestOpenZoneMatch`, `FinishCheapestIOZone`,
`AllocateEmptyZone` and `ResetUnusedIOZones` take one step per zone, so that
other threads come in between; a failed `Acquire` passes the zone by, also when
another walk merely looks at it (`Glimpsed`). `pc` is where a thread is, `puts` the tokens
it is about to put back, `pend` the blocks of a direct file that no extent covers
yet, `ext` the blocks of each file in each zone, `job` the extent a migrator moves.
`lost` is a history variable: tokens that nobody will put back.

The run zenfs_alloc has two zones of two blocks, a write-ahead log through a buffer,
a table file written directly and a migration, two open tokens and one active token for
data (`DevMaxOpen` and `DevMaxActive` minus the two kept for metadata), and device
commands that fail. With so few tokens writers wait for each other, finish zones to get the
active token and meet resets of zones they are about to use. With `DevMaxActive = 4`, two
active tokens, it passes as well (2,097,771 states) but takes too long to be run each time; for
other limits the four properties are proved, under the hypotheses given below. A thread may stop
between calls, so deadlock is not checked. It checks that the token
counters are exact (`TokensCount`), that `used_capacity_`, which decides about resets,
counts live extents (`UsedCountsExtents`), that a busy zone has exactly one owner
(`BusyHasOneOwner`), and that no wake-up is lost (`WakeUpComes`).

Assumed of the callers: one file per writer, the record of a migration is
persisted, and the metadata write of `AllocateNewZone` does not fail. What happens
when such writes fail is the subject of `ZenFS`.

## Files and the metadata log: `ZenFS`

`log` and `disk` are what survives a crash: the records of each metadata zone and
the blocks of each io zone. Everything else is the memory of the process. An
operation on the table holds `files_mtx_` from first to last, so one record `op`
describes it; its steps are the writes it makes, and `Crash` or `FailedWrite` may
come between any two. Writers append without the mutex. `Recovery` is what a mount would
find on the device as it is now, so an invariant about it holds for a crash at any
moment. `stamp`, `data`, `acked`, `astray` and `born` are history variables.

Addresses are block numbers that run through all io zones, as on the device: `extent_start_`
is such an address, and `Recover` looks its zone up with `GetIOZone`, as the code does, so the
address behind a full zone belongs to the next zone or, behind the last one, to none. A block
says who wrote it and whether it is plain, has a sparse header, or was filled up with
zeros by a flush that ended inside it. An extent knows the length of its data, except one that
`Recover` makes from the write pointer, which takes the zeros for data (`whole`).
`used` is `used_capacity_`, changed where the code changes it; resets and the allocator go by it.
When a flush has filled a zone and finds no other, its call has failed after the data was
written: the file is then left alone, because a repeated flush writes the buffer twice (see
Not modelled).

Two exceptions are written into the properties rather than kept out of the model. A file
whose record was written when it had filled its zone and not yet got another (`astray`) may make
the mount fail (`MountSucceeds`) or come back with the blocks of the next zone behind its own
(second part of `DataDurable`); `ActiveZoneLookedUp` states what the code expects, and zone_end
violates it. What such a file acknowledged is there also then, if the mount succeeds. And a file recovered in the middle of
a flush may have zeros at its end.

The constant `Exposed` switches on behaviours of the code that break properties, one
by one, so that the rest can be checked without them:

| member | behaviour | broken |
|---|---|---|
| `create_rolls` | the record of a creation does not fit and the log is rolled | `NamesDurable` |
| `torn` | a snapshot of files reaches the device in part | `MountSucceeds` |
| `unlocked` | an extent is pushed, or a list exchanged, while another thread encodes the file | `DataDurable`, `SyncedExtentsAreLogged` |

`MayFail` names the metadata writes that fail. The passing run has `"record"`. With
`"replace"` (the record of a migration) `DataDurable` is violated: the new extents stay in
memory with `nr_synced_extents_ = 0`, and the next update appends all of them to the
old ones (`fs_zenfs.cc:428`). With `"super"` or `"snapshot"` `NamesDurable` is violated: a
failed roll leaves `meta_log_` at a zone without a snapshot, and later records go
there (`fs_zenfs.cc:370`).

| run | instance | shows |
|---|---|---|
| zenfs_files | 2 names, 2 files, 3 metadata zones of 4 records, 2 io zones of 2 blocks, one fault | mount succeeds; names, acknowledged data and synced extents are what memory says |
| create_roll, unlocked_extents | the same with one member of `Exposed` | violations, see Findings |
| zone_end | the same with direct writes only, nothing of `Exposed` | violation, see Findings |

Metadata zones of four records roll after every second operation; three of them are
`ZENFS_META_ZONES`. Two names are what a rename or a link needs, one of them a log and
one a table that migrates. Files of two blocks cross from one zone to the next.
One fault is a crash or a failed record, and the mount after it is part of the run.

Assumed of the callers: a rename has two different names, log files are not written
directly (`OptimizeForLogWrite`, `fs_posix.cc:910`), one migration at a time, no
file is reopened for writing, metadata zones have capacity equal to size, and there
are no directories.

## Findings

Four are runs in which TLC shows a trace that contradicts a comment of the source,
quoted in `PROJECT.json`:

- **lost_in_page**: a request inside an already written page is never completed.
- **create_roll**: a file whose creation finds the metadata zone full is in no record,
  and a crash loses it.
- **zone_end**: a file synced when it has just filled its zone is recorded with the address
  of the next zone; after a crash the mount fails, or the file gets that zone's blocks. This
  takes a device whose zones can be written to their end: with a capacity below the zone
  size the address stays in the zone.
- **unlocked_extents**: an extent pushed while another thread persists the file counts
  as synced without being in the record, and a crash loses acknowledged data.

Six more have no run of their own. The property is defined, and violated by
the instance given here, which differs from the named configuration in what is listed:

| property | instance | what the code does |
|---|---|---|
| `OpenFindsFreeFbg` | `MappingFull` | `zone_open` takes the least used group without looking for a free FBG, and an assertion fails while other groups are free; a `Todo` at `fairness.c:326` names the missing test |
| `ResetsUsedFbg` | `MappingFull`, 3 zones, `MayResetUnused = TRUE` | a reset of an empty zone fails the assertion at line 430 |
| `EraseSparesOthers` | `MappingPartial`, 4 zones, `NumFbgs = 3`, `MaxOpened = 4`, `Word = 32` | a reset erases an FBG that another zone still uses; only with an `INITIAL_OPEN_LIMIT` below the number of groups, which the shipped build does not select |
| `ExpireCoversTransactions` | `LostInPage` with `MayStayInPage = FALSE` | `maxlat` is the latency of the transaction executed last, where the header says the maximum; the comment at line 163 describes the code |
| `WritesFindMapping` | the same with `MayWriteUnopened = TRUE` | a write that opens its zone implicitly finds no mapping and fails the assertion at line 637 |
| `MountSucceeds` | `FilesDurable` with `Exposed = {"torn"}` | a snapshot of several blocks of which a part reached the device fails its checksum, and `RecoverFrom` returns Corruption; `Mount` goes on to the previous, complete zone only after NotFound, where the comment at `fs_zenfs.cc:1345` says "If that fails go to the previous as we might have crashed when rolling metadata zone" |

Others were met while modelling:

- opening an open zone enters it twice, and its close fails the assertion at
  `fairness.c:404`: `MappingFull.cfg` with `MayReopen = TRUE` violates
  `StopsOnlyExhausted` (and `BitmapCountsZones`: the first FBG is never given back);
- with partial mappings the count of free FBGs drifts, which the comment at line 207
  forbids: `RemainIsExact` fails when added to `MappingPartial.cfg`, and with it
  `NoSharedBlocks` and `StopsOnlyExhausted` hold only in the full mapping;
- a partial mapping whose parts do not divide the pages of a block (3 pages, 2 parts)
  gives two zones one address;
- `pl_idx` is always 0 (cleared at line 651, set at 662 only if it is 0xff), where
  the comment at line 663 says the first plane;
- an active token is lost when a zone is closed while empty, or filled by a
  migration, and an open one when `Zone::Close` fails; when all active tokens are
  lost the loop at `zbd_zenfs.cc:857` spins. `TokensCount` counts lost tokens as such;
- `notify_one` may wake a writer whose limit is lower than that of a sleeping
  write-ahead log, which then sleeps on while a token is free for it; this takes
  three writers;
- a device with two open zones gives files that are not logs an unsigned limit of
  0 - 1, and one with three leaves them none: the theorems on tokens exclude those;
- `SetZoneDeferredStatus` never stores the first error (`zbd_zenfs.cc:940`);
- `ReleaseMigrateZone(nullptr)` clears `migrating_`, so two migrations may run at once
  (the busy flags keep them apart, see `OneOwner`);
- a failed rename or link is rolled back and the caller told of success
  (`fs_zenfs.cc:979`, `:1022`), and a rename over an existing file is not atomic: a crash
  may leave the target removed and the source not renamed, which `NamesDurable` allows;
- an update record for a file that the replay does not know enters only its first
  name.

The instances are scaled down, and the traces were not replayed on the programs.
What names no property is read from the code.

## Proofs

Eight modules hold the theorems. They hold for every value of the constants that
satisfies the component's named assumption (`GeometryAssumption`,
`MappingAssumption`, `QueueAssumption`, `AllocatorAssumption`), which TLC evaluates on
every run, and the hypotheses listed here. `Disciplined` is
`~MayReopen /\ ~MayResetUnused`; "full mapping" is `OpenLimit = NumGroups`.

| theorem | states | hypotheses |
|---|---|---|
| `TypeCorrect`, `ListsAlwaysMatch`, `CountersAlwaysCount` | lists and counters agree with the states, so no assertion of `zns_aor_*` fails | |
| `ShutdownStaysInside` | the shutdown loops stay in their lists | |
| `FullAtBoundary`, `WpNeverPasses`, `EmptyIsUnwritten`, `NeverPastCapacity` | the write pointers agree with the states | |
| `FailuresKeepZones`, `OnlyResetRewinds`, `ExplicitZonesStayOpen` | what no step may do | |
| `DeviceImplementsMachine` | `ZnsZones` implements `ZoneStateMachine` | |
| `MappingWellFormed`, `UsersCounted`, `OpenZonesCounted` | indices (up to an overrun of `opened_zones`), users of FBGs, open zones | `Disciplined` |
| `PagesApart` | addresses are distinct | `Disciplined`, `PgsPerBlk % Parts = 0` |
| `FreeFbgsCounted`, `BlocksApart`, `OnlyExhaustionStops` | free counts, no shared block, no other failed assertion, no overrun of `opened_zones` below `MaxOpened` open zones | `Disciplined`, full mapping |
| `RequestsWellFormed` | requests, queues and times | `Disciplined` |
| `NoRequestLost` | a pending request has work | `Disciplined`, `~MayStayInPage` |
| `QueuesImplementMapping`, `WritesAreMapped` | the request path implements the mapping | `Disciplined`, `~MayWriteUnopened` |
| `ErasesComeFirst` | no write overtakes the erase of its block | the same, full mapping |
| `OneOwner` | a busy zone has one owner | |
| `OpenTokensExact` | the open token counter is exact | `MaxOpen > 0` |
| `ActiveTokensExact` | the active token counter is exact | |
| `TokensExact` | both are | `MaxOpen > 0` |
| `UsedExact` | `used_capacity_` counts the blocks of live extents | |
| `NoLostWakeUp` | a sleeping writer has somebody to wake it | `MaxOpen > 1` |

**Zones.** All invariants follow from `Invariance`, `Spec => []IInv`. The counters
cannot be proved alone: that a release does not go below zero depends on the zone
being in the list its state names, and the length of a list says something about the
number of zones only if it has no duplicates. `IInv` therefore joins lists, counters,
pointers and the shutdown position. Inside a handler the counters run ahead of the
lists; `PreDevice` and `ListsBut` in `ZnsZonesHandlers` describe those points, and each
handler, each command on all zones and each shutdown step has a lemma that leads from
one good device to the next. `ZnsZonesRefinement` gives the effect of each command on
states and pointers (`WriteEffect`, `SendEffect`, `SendAllEffect`, `ShutdownEffect`), from
which the three action properties follow. For the refinement, `ListCounts` shows that
the length of a list is the number of zones in that state, so a limit on the counters
is a limit on the zones counted one by one.

**Mapping.** `MappingInv` says that users, open zones and placements agree with `held` and
`opened_zones`, in the full and every partial mapping. `FullInv` adds that free
counts are exact and that zones that hold data are in different FBGs; it needs the full
mapping and does not hold in partial ones. `PagesApart` splits a page number into die,
plane and page, which is injective when the parts divide the block evenly.

**Queues.** `QueueInv` joins `MappingInv` with `WorkInv` (a transaction is in the queue of its
die, and `ts_num` is the number of a request's transactions in the queues) and
`ClockInv`. Counting needs that `InsertInTail` puts each transaction in exactly one place
(`InsertedCount`). Every step is a step of the mapping or leaves it alone, hence
`QueuesImplementMapping`, and the mapping's theorems hold of the request path. For
`ErasesComeFirst`, `EraseInv` says of each die queue that ahead of every write its block holds
nothing or the data of the same zone (`Clean`), and that this will be so at the end of the
queue for every zone that has the block (`Covered`); a reset
puts its erase at the end, before the FBG can go to another zone.

**Allocator.** `IInv` joins types, where a thread may have a zone, a candidate or a debt
(`Places`), and `BusyHasOneOwner`. A step of one thread touches only its own part of the
state and may wake a sleeper (`LocalStep`), lets go of its own zones and takes
free ones (`OwnStep`); so one lemma per action suffices. Steps are then sorted by what
they do to open tokens (`Quiet`, `Gains`, `Sleeps`, `PutsOpen`, `LosesOpen`), from which the
theorems about open tokens and wake-ups follow.

Active tokens and used blocks need a second invariant, `DInv`, because both depend on
how far the zones are written: `Sound` (no more of a zone is used than written, and what is
not written is left), `Backed` (with the blocks a writer has not pushed, its zone still counts
no more used than written), `Fit` (the candidate of a walk and the target of a copy are partly
written, with room for the copy) and `JobsOK` (a migrator moves an extent that its file has, of a
closed file or one it has inherited, and no file has two migrators). Its proof uses `IInv`: a step changes a
zone only if no other thread has it, apart from counting fewer blocks as used (`Calm`), so what
other threads know of their zones stays true. Each action has a second lemma
(`<Action>Data`) that says what it does to the active tokens (`ActiveStep`: one zone and one
thread account for the change of the counter) and to the blocks (`Ledger`: one thread's extents
and one migrator's copy account for the change of `used`, or a deleted file's extents pass to the
migrator that still moves them). `ActiveTokensExact` counts one zone and one thread apart from
the others (`CountOne`). `UsedExact` counts the blocks of a zone as cells, a column for each
thread (`Cells`): when one column changes, their number changes by as much
(`CellsChange`).

Leaves name SMT where they need arithmetic or records and are left to Zenon elsewhere.
Induction over numbers is done with the least member of a set (`LeastMember`), where a
recursive function has to be shown defined.

Only model-checked:

- `EveryRequestCompletes`: liveness under fairness is out of the prover's reach;
- `BulkIsOneByOne` and `PagesReachTheirDies`, which fold over lists and sum over sets,
  for which the prover has no induction;
- `ReportConsistent`, whose `SelectSeq` takes an operator, which the prover cannot unfold;
- everything about `ZenFS`: recovery replays the log record by record and flattens lists
  of extents, and the links of a file are changed by `Remove`, a `SelectSeq`; what these compute
  for every log takes inductions the prover cannot do.

## Not modelled

Identify data, data transfer and statistics do not influence the states modelled.
The `PARA_ZNS 0` branches, the static mapping and `reset_open_infos` are not
compiled or not called. Rings that are full and several poller threads depend on
FEMU, outside the repository. What the emulator does after `opened_zones` has overrun is not
modelled: it is a fault like a failed assertion.

Of ZenFS: directories, the auxiliary file system, reopening files for writing, read-only
mounts, the framing of records, reads, and failing data writes. An io zone can be written to
its end; with a capacity below the zone size, the write pointer a device reports for a full zone
may lie behind the data, which `Recover` (`io_zenfs.cc:677`) would then take for data. A flush
that filled its zone and found no other returns an error with the buffer still full
(`io_zenfs.cc:507`, `:914`), so a second attempt writes the same data again; the model stops
the writer.
The choice of an io zone in `ZenFS` is any the allocator could return; the two modules
are not composed. `ZnsZones` and `DynamicMapping` are not composed either: the commands
on which they disagree are the switches of `DynamicMapping` and `DieQueues`.
