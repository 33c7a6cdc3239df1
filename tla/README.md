# Verification of whefs

TLA+ models of the whefs embedded filesystem library (`src/src`, `src/include/wh`),
checked with TLC and, for all but encodings, texts and the command line tools, proved
with TLAPS.

A whefs container is one file or one memory buffer that holds a table of inodes, a
table of fixed-size data blocks and a table of names. A pseudofile is an inode whose
data is a chain of blocks linked on disk by `next_block`. Clients work on pseudofiles
through i/o devices (`whio_dev`), several of which may share one inode.

## 1. Inventory

The library is single threaded. One process holds an `fcntl` lock on the container file,
where the build and the device support it. Interleaving is therefore between whole calls
on several devices of one process, between processes around the lock, and between a
crash and the writes of a call.

| component | state | operations | what makes it correct |
|---|---|---|---|
| block table (`whefs_block.c`) | per block: Used flag, `next_block`; `hints.unused_block_start` | read, flush, `next_free`, `wipe` (deep) | a block is free or owned by one chain; chains end; nothing free below the hint |
| inode table, opened inodes (`whefs_inode.c`) | per inode: Used, `first_block`, `data_size`; sorted list of opened inodes with `open_count` and `writer` | `next_free`, open, close, flush, unlink, `by_name` | one shared record per opened inode, as many openers as counted, one writer, record and disk agree when nobody writes |
| pseudofile device (`whefs_nodedev.c`) | cursor, mode, the inode's cached block list | read, write, seek, truncate, flush, close | cached list = chain; size is backed by blocks; short writes only when full; reads return what was written; no call changes another file |
| pseudofile API (`whefs_file.c`) | `whefs_file` around a device | fopen, dev_open, unlink, fstat, rename | an open that fails leaves no trace; a name has one inode |
| container (`whefs_fs.c`) | offsets, options, hints, `opened_nodes`, closers | mkfs, openfs, finalize, append_blocks | a crash between two writes loses at most blocks, and shares none unless a wipe was torn; what opens is complete; hints on disk never hide free space |
| container lock (`whefs_fs.c`, `whio_dev_fileno.c`) | one fcntl lock on the file, per process | lock, unlock | a writer is alone; a process sees all that the one before it wrote; waiting ends |
| names and hash cache (`whefs_cache.c`, `whefs_hash.c`) | name per inode; sorted list of (hash, id, hits) | name_set, by_name, cache add, chomp | a lookup finds the inode that has the name, cache or not |
| used-bit caches (`whbits.c`, `whefs_fs.c`) | one bit per inode and block | set, unset, load | a set bit means used on disk |
| closers list (`whefs_fs_closer.c`) | doubly linked list of files, devices, streams | add, remove, close all | finalize closes every open object once |
| i/o devices (`whio_dev*.c`) | buffer, size, memory; window on a parent | read, write, seek, truncate, rebound | behaves as a sequence of bytes with a cursor per view |
| encoding (`whio_encode.c`, `whefs_encode.c`) | - | encode, decode | records do not overlap; what decodes is what was sent |
| glob, printf | - | match, print | matches what the pattern spells; text and count are what was asked for, or an error |
| tools (`app/`) | options, the work left | cp, rm, mkfs, addblocks, cat, ls | what a tool reports is what it did |
| strings, zlib, streams, debug output | - | - | thin wrappers; see section 7 |

How they interact: a device call maps its position to a block (`whefs_block_for_pos`),
which loads or extends the inode's cached block list, which allocates blocks through
`whefs_block_next_free` and links them on disk; truncation and unlink hand chains back
through the deep `whefs_block_wipe`. All devices of an inode share one `whefs_inode`
record, flushed when a writable device is flushed or closed. Names lead to inode ids
through the hash cache or a scan. `whefs_fs_finalize` closes what is still open through
the closers list, writes the hints, gives the lock up and lets go of the device.

What is hard: a device call changes four things that must stay in step (cached list,
on-disk links, used flags, inode record), each in another function; devices on one
inode open and close in any order; errors (full container) hit a call half way; hints
are raised and lowered in different places; the truncations reach states ordinary
writes never do; a crash can fall between any two of the records a call writes; names
are found through hashes that collide. `PROJECT.json` lists every hazard at its line.

## 2. Modules

| module | models | extends |
|---|---|---|
| `BlockStore` | block table, chains, the allocator and its hint | - |
| `NodeDev` | inodes, opened records, devices; one action per library call | `BlockStore` |
| `FileData` | the bytes of files through those calls | `NodeDev` |
| `Files` | abstract: pseudofiles as strings of bytes | - |
| `CrashSafety` | the calls as sequences of records written, with crashes | `BlockStore` |
| `Container` | mkfs, open, append_blocks, finalize, write by write | - |
| `ContainerLock` | several processes and the fcntl lock | - |
| `SharedUse` | abstract: many readers or one writer | - |
| `Names` | name table, hash cache, calls by name | - |
| `Handles` | opened list, closers list, static slots, pointer by pointer | - |
| `Devices` | memory, file, sub- and block devices | - |
| `Device` | abstract: a string of bytes with windows and cursors | - |
| `Encoding` | tags and widths, strings, lists, packs, the records of a container | - |
| `Glob`, `Printf` | pattern matching; formats through an appender | - |
| `Tools` | the command line tools on a container and local files | - |
| `MCNodeDev`, `MCFileData`, `MCNames`, `MCDevices` | constants and symmetry for TLC | the module named |
| `MCToolkit` | `Encoding`, `Glob`, `Printf`, `Tools` and `Handles` on one bench | those |
| `BlockStoreProofs` | lemmas about chains, the allocator and the hint | `BlockStore`, TLAPS |
| `NodeDevProofs` | theorems about `NodeDev`: records, open counts and hints; chains, file by file; clients that never truncate; then about the bytes, and that `FileData` implements `Files` | `FileData`, `BlockStoreProofs` |
| `CrashSafetyProofs` | theorems about what crashes leave on disk | `CrashSafety`, `BlockStoreProofs` |
| `ContainerProofs` | theorems about containers that are made, opened, grown and closed | `Container`, TLAPS |
| `ContainerLockProofs` | theorems about the lock, and that it implements `SharedUse` | `ContainerLock`, TLAPS |
| `DevicesProofs` | theorems about the devices, and that they implement `Device` | `Devices`, TLAPS |
| `HandlesProofs` | theorems about linked lists kept in order, and about the handles | `Handles`, TLAPS |
| `NamesProofs` | theorems about names and their cached hashes | `Names`, TLAPS |

### Block table and device, state by state

| TLA+ | code |
|---|---|
| `used`, `next` | `whefs_block.flags & WHEFS_FLAG_Used`, `whefs_block.next_block`, on disk. The copies in `blocks.list` are written together with them, so they are not kept twice |
| `blockHint`, `inodeHint` | `fs->hints` |
| `disk[i]` | the encoded inode: flags, `first_block`, `data_size` |
| `opened[i]` | the entry of `fs->opened_nodes` for `i`: `open_count`, `writer`, `first_block`, `data_size`, `blocks.list` cut at `blocks.count` |
| `handle[h]` | a `whio_dev`: its inode and `meta->rw` |

Inode 1 is the reserved root node, so `Inode` starts at 2. `count = 0` stands for "no
entry". The device cursor is not kept: seek followed by read or write is one action with
the position as a parameter; the bytes and mtime are not kept either. A call is one
action because nothing else of the process runs during it.

`OpenDev`, `CreateDev`, `FlushDev`, `CloseDev`, `ReadDev`, `WriteDev` and `Unlink` are the
calls named after them. `whio_dev_inode_trunc` is four actions, one for each of its
paths: to zero (`TruncateToZero`), up (`TruncateUp`), down within the last block
(`TruncateInLastBlock`, which also covers a failure to get that block) and down over a
block boundary (`TruncateChain`). They are modelled as written, defects included:

* the test of the read's result in truncation to zero is inverted, so the chain is not
  wiped;
* truncation inside the last block sets `blocks.count = 1`;
* truncation up sets and flushes the size before it allocates.

`Reach` and `ChainLists` describe the loops over `next_block` without recursion, as a
least closed set and the list that enumerates it, so that `TLAPS` can reason about them.
In a build with assertions the append behind a list cut too short aborts; the model
follows the build without them, where the call returns `InternalError` with one more
block marked used.

Two more views of the same calls: `FileData` says of each what it does to the bytes, and
`CrashSafety` takes each apart into the records it writes, sizes counted in whole blocks.

The bitset caches are not consulted in the default build (`b_loaded` and `i_loaded` stay
false unless `WHEFS_LOAD_CACHES_ON_OPEN` is set), so the model has none. Errors of the
container device are left out of `NodeDev`.

### The other modules

* `FileData`. `bytes` is what lies in each block; wiping leaves zeroes. A read maps
  positions to blocks through the cached list, or through the chain when the inode is not
  opened. `Careful` keeps clients off three truncations the code does wrong: up in a
  container too full for it (`whefs_nodedev.c:742`), down to a multiple of the block size
  (line 776, which zeroes the last block kept), and inside the last of several blocks
  (line 781). Each of the three conditions is needed: without it TLC finds `FilesSpec`
  violated.
* `CrashSafety`. `todo` holds the block and inode records a call still has to write, in
  the order of the code; `WriteRecord` writes one, `Crash` drops the rest and the memory.
  A crash in a wipe leaves an inode that leads to blocks already free, and the calls go on:
  the allocator hands those blocks out again, with the links left in them. `mem` therefore
  keeps what the code caches of the blocks of such a file: those that were not flagged
  used when the list was loaded (`unmarked`), which the next flush writes back that way, and
  the `next_block` of the last one (`after`), behind which an append is refused. `spoiled` is
  the history of whom a torn wipe may have harmed: the file that was wiped (`Crash`), those
  that share a block with a spoiled file when that one is changed (`Spoils`), and those that
  are handed a free block with a link left in it (`Handed`).
* `Container`. `fs.pc` is the write a call has reached. A fault is a crash, or a write of
  the device that fails and is reported or - where the code does not look - ignored;
  `harm` remembers which, so that a property can say from which faults it recovers. The
  device is the library's own file or one a client passed, with or without ownership.
  Several writes of the header are not looked at: those of the magic words, of the block size
  and of the file name length, and the size and options that an append writes. When one of
  them fails, the words behind it slip forward or an older one stays (`Overlooked`,
  `SlippedOptions`). Ids wrap at `MaxId`: an append beyond it wraps the count unnoticed
  (`Grows`), a container of just `MaxId` blocks ends the loop of the wipe with an error, since
  `++id` gives 0. The properties count overlooked losses and the wrap as `"ignored"`.
* `ContainerLock`. `pc` is the step between library calls; `fresh[p]` is true while no
  other process has written since `p` got its lock. `lock` is what `fcntl` granted. Where
  locks are not supported the code goes on without one (`whefs_fs.c:992`): not modelled.
* `Names`. The hash list is a bag: `qsort` leaves equal hashes in any order, and `tie`
  is the choice. `ChompCache` drops any half, which covers the choice by hits; only a
  client calls it (in the repository, a test): a full list answers `RangeError` and is not
  halved. A file's data are `none`, `live` or `wiped`.
* `Handles`. The `next` and `prev` fields of both lists are variables, and the actions
  assign them as the code does, one list operation per action; finalizing goes through
  the list one handle at a time because closing edits it. What a loop along a pointer visits
  is `Reach`, the least closed set, as in `BlockStore`. The static slots exist in a build with
  `ENABLE_STATIC_MALLOC` only, which is off by default: that is `Slots = 0`.
* `Devices`. `dev` is the device under test, `sub` a sub-device of it and `fence` the one
  below the block device; a view's call moves its parent's cursor and puts it back where
  the code does. `Device`, the interface, names the two places where that is not what
  `whio_devs.h` says: a window with the upper bound 0 lets nothing through (`Shut`), and a
  seek takes the device's own cursor along (`Place`, and the transfers of `Placed` views).
* `Encoding`. Numbers keep their width in bytes; a byte takes `Base` values. `store` is
  the image of a container whose records are rewritten, possibly cut; `parcel` a value on
  a device too small for some of them. Lists are those for a device; the variants for a
  buffer never advance their pointer, nothing calls them, and they are left out.
* `Glob`. `Compare` is `patternCompare`; `InLanguage` the set of strings the tokens of a
  pattern spell.
* `Printf`. A format goes out phrase by phrase through the appender of a stream, a device
  or a string, which takes what it has room for. It is the default build, where
  `WHPRINTF_OMIT_SQL` makes `%q`, `%Q` and `%w` end the call.
* `Tools`. One `job` at a time: reading arguments, opening, one step per file and chunk,
  closing. `Matches` is given by `Glob`. What a tool does not look at is `unseen`, the
  records mkfs and addblocks write among it.

## 3. Runs

| run | what it checks | bounds |
|---|---|---|
| `nodedev_shared` | type invariant, ownership of blocks, chain ends, cached list against disk, shared record against disk, openers and writer, hints, and that a call changes one file only - under every call, truncations included | 3 blocks of 2 bytes, 2 inodes (ids 2 and 3), 2 devices, positions to 4 |
| `nodedev_no_truncation` | no lost blocks, size backed by blocks, cached list complete, short write only in a full container - for clients that never truncate | same, positions to 7, so beyond the 6 bytes of the container |
| `file_data` | `FilesSpec`: reads return what was written, zeroes where nothing was, never another file's bytes | 2 blocks of 2 bytes, 2 inodes, 2 devices, positions to 5 (beyond the container), two strings written |
| `crash_safety` | one block lost per crash at most, sizes backed, and files share no blocks; the file of a torn wipe may, which harms no other until it is changed | 3 blocks, 2 files, 2 crashes, 1 change of a spoiled file (`MaxHarms`) |
| `container_life` | what reopens, that it is complete, its blocks readable, its hint right, used blocks kept | ids to 4 (`MaxId`), files of up to 5 blocks, 2 faults |
| `container_lock` | `SharedSpec`, views of an existing container hold, locks are given up, waiting ends | 3 processes |
| `names` | names are found, the cache tells the truth, creation succeeds, a half done unlink happens on a collision only | 2 inodes, 4 names: two with one hash, one alone, one too long |
| `devices` | `DeviceSpec`, memory bounds, blocks keep their contents | positions to 3 (writes reach farther), 2 blocks of 2 bytes, windows fixed and open |
| `toolkit` | records apart, values received as sent, patterns against their language, printed text, tools honest, lists and slots of handles exact | see `MCToolkit`; 3 handles on 2 static slots, 2 tools in a row, patterns of up to 4 pieces |
| `truncate_loses_blocks` | finding: `NoLostBlocks` is violated by truncation to zero | as `nodedev_shared` |
| `truncate_cuts_list` | finding: `ListComplete` is violated by truncation in the last block | as `nodedev_shared` |
| `unlink_half_done` | finding: `UnlinkAllOrNothing` is violated by unlinking a name whose hash another has | as `names` |

Why the bounds are enough for the cases that matter: 3 blocks let one file hold two
blocks while the other holds one, a full container, an append that fails half way, and
reuse of a freed block by the other file; 2 bytes a block separate "inside the last
block" from "at its boundary"; positions to 4 give chains of two blocks that truncation
cuts and extends; two devices give two writers on two files, writer and reader on one
file, and the refused second writer. In `file_data` two blocks are enough for a freed
block to come back with another file. Two faults allow a crash during the recovery from
a crash. Ids that end at 4 and files of 5 blocks let a count wrap to 0. In
`crash_safety` two crashes tear a wipe and then cut the call that was handed the freed
block; one change of a spoiled file is enough to spread the harm, and more of them only
spread it farther. Three processes let one wait while two others take turns. Three handles on two
slots put one object past the static ones and give the opened list a head, a middle and
an end. The bounds that are no parameters of the code (`MaxPos`, `MaxCrashes`,
`MaxHarms`, `MaxFaults`, `MaxBlocks`, `MaxSize`, `MaxRuns`, `MaxHandles`, ...) are named as such where
they are declared. `SYMMETRY` permutes the devices, which no definition tells apart.

`toolkit` runs machines that share nothing: a state picks one and stays with it, so
its invariants are independent of each other. It allows deadlock because each machine
is bounded, and because a container left without closing its files is an end. `crash_safety`
allows it because a chain made into a circle by a torn file cannot be loaded any more, and
because its bounds may leave no call to make.

`NoLostBlocks`, `SizeBacked` and `ListComplete` are promises the code keeps until a
client truncates, hence the two runs of `NodeDev`. The properties of the first run hold
in spite of the defects: a lost block is never owned by two files, and a cut list stays a
prefix of the chain.

`Container`, `CrashSafety` and `Names` state a type invariant `TypeOK` as documentation of
their variables and as the start of a proof; it holds on the instances above, and the runs
spend their properties on the rest.

### Fairness

Only `ContainerLock` has liveness properties: nothing else waits. `FairSpec` assumes
that a call which can go on does so until it returns (weak fairness of each of its
steps; making and changing a container end, `Make` and `Change` being fair towards their
last write), that `fcntl` grants a lock that stays grantable (weak fairness of `Lock`),
and that a client finalizes what it opened (strong fairness of `Finalize`, since a client
may go on making changes in between). The last is the promise `whefs.h` asks of clients
of `whefs_openfs`. No fairness is assumed of `Open`, `Crash` or `LockFails`. Since
`fcntl` promises no order among those who wait, a process can starve while others keep
coming; `WaitEnds` therefore says that waiting ends once no new ones open the file.

### Refinements

* `FileData` implements `Files`: `exists` is the set of inodes used on disk, `content`
  what a read of the whole file returns. A short write of a full container is a write of
  the first bytes. Checked and proved.
* `ContainerLock` implements `SharedUse`: a process uses the container from the lock
  granted to the lock given up. Checked and proved.
* `Devices` implements `Device`: every read and write, through the device or a view,
  transfers bytes at its own cursor inside its own window, and changes no others. A transfer
  through the device or the sub-device moves no other cursor; one of the block device
  begins with a seek, and a seek of a view leaves the device's cursor at the place sought.
  Checked and proved.

### Findings

* Truncation to zero loses the chain (`truncate_loses_blocks`): a test is inverted.
* Truncation in the last block cuts the cached list (`truncate_cuts_list`).
* Unlinking can stop half way (`unlink_half_done`): the chain is wiped first, then the
  name is refused because the hash cache holds another inode with the same name hash; the
  inode stays used, and points at a free block.

### Observations

Read in the code while modelling, and modelled as they are or left out; no run shows them as
findings.

* `whefs_nodedev.c:742, 776`: the other two truncations `Careful` excludes.
* `whefs_fs.c:1562`: `ownsDev` is set before the second stage of `whefs_openfs_dev`, so a
  failure with `takeDev` finalizes the device, while `whefs.h` says that on error its
  ownership does not change (`Container`, variable `dev`).
* `whefs_fs.c:987`: the `"w+b"` of mkfs empties a file another process may have made
  and locked in between; `ViewsHold` is about containers that were there before.
* `whio_stream.c:132`: copying a stream whose length is a multiple of the buffer's reports
  an error; `whefs_string.c:49` leaves the copy of a string of one character
  unterminated.
* `whefs_block.c:306` and `whefs_nodedev.c:96`: after a torn wipe the torn file still leads to
  blocks that are free. Opened again and written, it can be handed its own last block
  and link it to itself, and `whefs_inode_block_list_load` then never ends; truncated or
  unlinked, it frees blocks other files got meanwhile. Other files stay apart until then
  (`TornWipeContained`).
* `whefs_fs.c:1497, 1518`: `offsets[WHEFS_OFF_EOF]` is set from the size read, then again from
  the options. After a crash between the two in an append, the next append that fails
  truncates the file below the size in its header, and it does not open any more
  (`GrowthUndone`).
* `whefs_fs.c:1714`: the block count wraps in 16 bits; with 65535 blocks the loops that wipe
  them end with an error (`for` with `++id`), so that mkfs fails.
* `whefs_fs.c:584-588, 669-674, 1717-1718`: results of header writes that are not looked at.
* `whio_devs.h:335-337` and `whio_dev_subdev.c:40-41` call a sub-device with upper bound 0
  unlimited; reading (line 142) and writing (line 170) let nothing through. `whio_devs.h:373-374`
  calls seeks of a sub-device independent of the parent; they leave the parent's cursor at
  the place sought. `Device` is the interface as the code has it.
* `whprintf.c:731-732` says a call returns -1 on errors; `whprintf.h:87-93` and the code return
  the count sent so far, and `PrintedIsAsked` says so.
* `whio_encode.c:284-310`: the list encoders for a buffer write each item over the last.
* `app/mkfs.c:66` empties the container before its options are checked; `app/ls.c:256`
  leaves out the last block; identifiers read with `%hu` wrap (`WHEFSApp.c`).
* `whprintf.c:484`: some conversions go on after their appender failed and add up what
  it answers; `PrintedIsAsked` says what text and count mean then.

## 4. Proofs

TLC checks each property below on the instance of its run; the theorems hold for every
value of the constants. What they assume of the constants is named in the modules:

* `BlockCountAssumption` (`BlockStore`) and `NodeDevAssumption` (`NodeDev`, which also says
  that `Handle` is finite: devices are counted): every number and size of blocks, every
  number of inodes, every finite set of devices.
* Those two and `FileDataAssumption` for the bytes: any strings of at least one byte.
* `BlockCountAssumption` and `CrashSafetyAssumption`: every number of blocks and inodes, and
  every bound on the number of crashes and of changes to spoiled files.
* `ContainerAssumption`: every width of ids, and every bound on the size of the file, as long as
  it is not below that of the ids, and on the faults.
* `DevicesAssumption`: every size of device, of blocks and of the bytes written, any bounds
  of a sub-device that clients can reach.
* `HandlesAssumption`: every set of inode ids other than 0, and every number of handles and of
  static slots.
* `NamesAssumption`: every number of inodes from 2, every set of names, every hash function,
  those that give several names one hash included.
* The theorems about `ContainerLock` hold for every set of processes, without assumption.

| theorem | module | what it establishes |
|---|---|---|
| `RecordTheorem` | `NodeDevProofs` | the inductive invariant `RecordInv` |
| `TypeCorrect`, `OpenersCountedAlways`, `RecordInSyncAlways` | `NodeDevProofs` | `TypeOK`, `OpenersCounted`, `RecordInSync`, parts of `RecordInv` |
| `NothingFreeBelowHintsAlways` | `NodeDevProofs` | `NothingFreeBelowHints`, inductive relative to `RecordInv` |
| `ChainTheorem` | `NodeDevProofs` | `RecordInv /\ ChainInv`, inductive |
| `BlocksOwnedAlways`, `ListMirrorsChainAlways`, `ChainsEndAlways` | `NodeDevProofs` | `BlocksOwned`, `ListMirrorsChain`, `ChainsEnd`, from `ChainInv` |
| `OneFilePerStepAlways` | `NodeDevProofs` | `OneFilePerStep`, from `RecordInv /\ ChainInv` |
| `NoTruncTheorem` | `NodeDevProofs` | the inductive invariant `NoTruncAll` of `SpecNoTrunc` |
| `NoLostBlocksAlways`, `SizeBackedAlways`, `ListCompleteAlways`, `ShortWriteMeansFullAlways` | `NodeDevProofs` | `NoLostBlocks`, `SizeBacked`, `ListComplete`, `ShortWriteMeansFull`, from `NoTruncAll` |
| `FileDataTheorem` | `NodeDevProofs` | the inductive invariant `FileInv` of `FileSpec` |
| `FilesTheorem` | `NodeDevProofs` | `FilesSpec`: `FileData` implements `Files`, with `FileInv` |
| `FileCallsAreCalls` | `NodeDevProofs` | `FileSpec => Spec`, so the theorems about `NodeDev` hold of `FileData` |
| `CarefulListsComplete` | `NodeDevProofs` | `ListComplete` for clients that truncate carefully, from `FileInv` |
| `CrashTheorem` | `CrashSafetyProofs` | the inductive invariant `CrashInv` |
| `LeakBoundedAlways`, `SizeBackedAfterCrashAlways`, `TornWipeContainedAlways` | `CrashSafetyProofs` | `LeakBounded`, `SizeBackedAfterCrash`, `TornWipeContained`, from `CrashInv` |
| `ContainerTheorem` | `ContainerProofs` | the inductive invariant `ContainerInv` |
| `ReopensAlways`, `OpenIsCompleteAlways`, `BlocksReadableAlways`, `HintsFindFreeAlways`, `UsedBlocksKeptAlways` | `ContainerProofs` | the five properties of run `container_life`, from `ContainerInv` |
| `LockTheorem` | `ContainerLockProofs` | the inductive invariant `LockInv` |
| `ViewsHoldAlways`, `WriterAloneAlways` | `ContainerLockProofs` | `ViewsHold`, `WriterAlone`, from `LockInv` |
| `SharingTheorem` | `ContainerLockProofs` | `SharedSpec`: `ContainerLock` implements `SharedUse` |
| `ShapeTheorem`, `DevicesOKAlways` | `DevicesProofs` | the inductive invariant `ShapeInv`, and `DevicesOK` from it |
| `BlocksKeptAlways` | `DevicesProofs` | `BlocksKept`, inductive relative to `ShapeInv` |
| `DeviceTheorem` | `DevicesProofs` | `DeviceSpec`: `Devices` implements `Device` |
| `HandlesInvariant` | `HandlesProofs` | the inductive invariant `HandlesInv` |
| `OpenedIsSorted`, `ClosersAreExact`, `SlotsAreKept` | `HandlesProofs` | `OpenedSorted`, `ClosersExact`, `SlotsKept`, from `HandlesInv` |
| `NamesInvariant` | `NamesProofs` | the inductive invariant `NamesInv` |
| `CacheTellsTruthAlways`, `NamesFoundAlways`, `NameGivenAlways`, `WipedOnlyOnCollisionAlways` | `NamesProofs` | `CacheTellsTruth`, `NamesFound`, `NameGiven`, `WipedOnlyOnCollision`, from `NamesInv` |

**Records.** `RecordInv == TypeOK /\ ClosedDevs /\ OpenersCounted /\ RecordInSync`. None
of its parts is inductive alone. That memory and disk agree when nobody writes
(`RecordInSync`) needs to know, when the last writer closes, that the closing device is
the one that may flush, which is `OpenersCounted`; and that a new inode has no old entry
needs the count of an unused inode to be zero. `CloseDev` is the long case: removing one
device from the set counted lowers its cardinality by one.

**Chains.** `BlocksOwned`, `ListMirrorsChain` and `ChainsEnd` speak of `Reach`, the set of
blocks that a chain visits; no step says directly how that set changes. `ChainInv` is
local instead: *some* assignment `own` of a file to every block exists such that

* free blocks are unlinked, links lead to used blocks, no block follows two (`Links`);
* a link stays with its owner (`Along`);
* the first block of a file is used, its own, and follows none (`Heads`);
* a cached list starts at the first block, follows the links, and repeats nothing
  (`Lists`).

The witness changes only when a block is taken: it goes to the file that takes it. A lost
block keeps its last owner, which is why truncation may lose blocks without making them
shared. From this follow: all of a chain has the owner of its head (`ReachOwned`), hence
two files' chains are disjoint; no block of a chain but its head is without predecessor
in it (`ReachPredecessor`); and injective links with a head that follows none make a
chain a finite path that ends (`ChainsEnd`, by counting: an injection from a finite set
into itself that misses an element cannot exist).

**File by file.** A call that is about inode `i` changes links only of blocks that `own`
gives to `i` (`Touches`), and a chain is decided by the links of its own blocks
(`SameReach`), so the other chains stand still: `OneFilePerStep`.

**Without truncation.** A client that never truncates gets more, and each part of
`NoTruncInv` is what another one needs:

* every cached list that is not empty ends at a block without successor (`ListsEnd`). An
  append to a list that ended too early would mark a block used, fail to link it, and lose
  it; `NoLostBlocks` rests on this;
* the record of an inode that nobody has opened is blank (`UnopenedBlank`), so that an
  opening takes size and list from the disk;
* a write that grows the file first appends the blocks (`SizeBacked`), and appends stop
  early only when `AllocIds` finds no free block (`ShortWriteMeansFull`).

The run `truncate_loses_blocks` shows that truncation breaks this.

**The bytes.** `FilesSpec` compares what reads return, and a read goes through a cached list
or a chain, block by block. `FileInv` says of every file that there is one list `l` of blocks
such that (`IsFile`)

* `l` is the chain on disk, and a cached list is `l` or not loaded: which of the two a read
  takes makes no difference (`ReadsWhole`). The append, the truncations and the read all
  find the same list (`ListFound`). This is the part the truncation inside the last of
  several blocks breaks;
* the size, that of the opened record or the one on disk, is not beyond the end of `l`.
  Truncation up in a full container breaks it;
* behind the size the blocks hold zeroes (`Blank`), and so do free blocks (`FreeBlank`).
  Otherwise truncation up, which writes nothing, or a write behind the end would show old
  bytes, of this file or of one that had the block before.

It rests on `RecordInv` and `ChainInv`, which hold because every call is one of `NodeDev`
(`FileNextIsNext`). A position and a pair of block and offset determine each other
(`PositionParts`, `PositionUnique`), so a write changes just the bytes at its positions
(`StoredBytes`, from blocks that are not twice in a list) and the bytes behind a cut are those
the code zeroes (`CutResizes`). The files a call is not about keep their bytes because files
share no block: that is one lemma for all calls (`OneFileChanged`), and what is left to each
is what it does to its own file, as `Resized` or `Overwritten` of `Files` says (`UpResizes`,
`DownResizes`, `WriteOverwrites`), or nothing (`OpenKeeps`, `CloseKeeps`, `ReadKeeps`). A write
that found no block for its first byte, and one of the bytes that were there, are
stuttering steps.

**Between two writes.** `CrashSafety` writes one record per step, so its invariant must
say what a half-done call still has to do. `PendingInv` does, for the one inode a call
is changing: it *records* (one record is left, whose size the chain backs), it *extends*
(the record of a new block is written before what leads to it, a link or the inode), or it
*shrinks* (blocks to free, then the write that ends the chain behind the blocks kept, or
that clears the record). What a pending write is about
to lead to is `Spare`: a used block that no chain reaches is spare or `Leaked`, and a crash
turns at most one spare block into a leaked one, which is `LeakBounded`. `MemInv` says that
memory agrees with the disk for inodes that no call is changing, `CleanInv` that no block
was cached before it was used, `ApartInv` and `MarkedInv` are ownership, `SizeInv` is the size
on disk. All are needed at once: that a `Spare` block is in nobody's chain needs
`MarkedInv`, and that a wipe hits its own file only needs `ApartInv`. All speak of the files
that are `Sound`, not spoiled. What a call on a spoiled file has left to write is of that file
and of blocks no sound file reaches (`Tainted`, `Harmless`); the allocator finds its blocks
among those too, since what a sound file reaches is used. Before the first torn wipe there
is no spoiled file and no free block with a link (`UntornInv`).

That a cached list is the whole chain, and that the blocks of a list are those that
following the links reaches (`LinkedReach`, `WholeChain`, `LoadedFollows` in
`BlockStoreProofs`), needs induction along the list. It is done by a least
counterexample: a set of naturals that is not empty has a least element (`LeastNatural`,
from the well-foundedness of `<`), so no operator has to be instantiated.

**The container.** `ContainerInv` follows the steps of `whefs_mkfs_stage2`,
`whefs_openfs_stage2` and `whefs_fs_append_blocks` in the order in which they write.
`MakingInv` says what each step of mkfs has already put in the file; the size in the
header is written last and cleared first, so a size that is not zero vouches for tables
and blocks (`CompleteInv`); in an open container the end in `offsets[]` is that of the
counted blocks, so what an append adds, or cuts when it fails, lies behind every block in
use (`Reshaped`). `HeaderInv`, `ReadableInv` and `HintInv` each hold unless one
kind of `harm` happened: that is what makes them inductive through crashes and failed writes. `Full`,
that everything below the hint is used, is kept for the hint in memory while a writer is
open and for that on disk otherwise, since `whefs_fs_finalize` copies one to the other.

**The devices.** `ShapeInv` adds to `DevicesOK` that the fence of the block device has the
bounds it was made with and that no device ends behind `Farthest`. One lemma per
operator says what it leaves of a device (`TruncLemma`, `WriteLemma`, `ReadLemma`,
`SubReadLemma`, `SubWriteLemma`): the memory is long enough, bytes outside the transfer
are the old ones, the cursor moves by what was transferred. All kinds of device satisfy
the same statement `Written`, so the steps above them are proved once. That one block
does not reach into another is arithmetic on products (`BlocksApart`); that every step is a
`Put`, a `Get`, a `Settle`, a `Place` or a `Rebound` of `Device` then says what each call is to the
interface.

**The lock.** `LockInv` adds to `ViewsHold` what makes it inductive: a process holds the
lock it asked for exactly from `Lock` to `Unlock` (`LockIsUse`), granted locks do not
conflict (`LocksAgree`), only who asked for a writer's lock reaches a step that writes
(`WritersAsked`), and a container that was there is never opened with `"w+b"`
(`NeverCreated`). Who writes then has the container to itself (`Alone`), so nobody's view
is spoilt. For `SharingTheorem` the invariant says `use = lock`: what the mapping shows is
what `fcntl` granted, so `Lock` is `Enter`, `Unlock` and `Crash` are `Leave`, and all other
steps stutter.

**The handles.** Both linked lists are the same thing: a set whose elements have *ranks*,
where `next` leads to the element next in rank, `prev` to the one before, and the head has
the least (`Chained`). An inode's rank is its id; the rank of an entry of the closers list
is when it was added, so `Listing` says that *some* ranks exist and a new entry gets one
above all. Four lemmas about `Chained` serve both lists: `ReachAll` (from the head one
reaches every element), `BothWays` (`next` and `prev` undo each other), `PutIn` and
`TakenOut` (the assignments of the code keep the order). `PassedIs` says where the walk of
`whefs_inode_search_opened` stops, hence that an opened inode is found and a new one is put
in its place. `HandlesInv` ties the lists to the devices: each entry of the closers list is
of an open device, of the kind that owns it, and each open device has one (`Matched`); an
inode's count and writer are those of its open devices (`UsersKnown`). The two depend on
the slots: that a new device is nobody's user yet, and that its entry is new, is `DevSlots`
and `ListOK`. When the closers list is done no device is open (`AllClosed`), so no inode is:
the loop of `whefs_fs_finalize` over the opened inodes has nothing to do unless the client
kept its objects.

**The names.** `CacheTellsTruth` is not inductive: `whefs_inode_name_set` replaces one
entry, so an entry that is there twice would leave a stale one behind, and a cache that is
switched off is not looked at. `Sound` therefore says that an entry is true and, unless its
hash is that of the empty name, there once (`Single`), and `OffEmpty` that a cache switched
off is empty. Entries left by unlinked files all have the hash of the empty name and may be
there many times. Then a name set takes the one entry of the old name away (`RehashSound`)
or there is none (`UncachedSound`), and names that are read add only hashes no entry has
(`ReadIntoSound`). `Walk` says where a lookup starts and stops; an entry of a hash that is
not ambiguous is of the file looked for (`HashTellsName`), hence `ByNameFinds` and
`FindOrCreateGives`. For `WipedOnlyOnCollision` the case of two files of one name matters,
which renaming allows: the entry that refuses the unlink would have to be the other file's,
but the lookup that began the unlink found by the cache the file it then renames, or walked
to the first of that name and cached no other (`NameTakenAway`). A name whose hash is that
of the empty name is ambiguous too (`Collides`): the lookup would find what an unlinked
file left in the cache.

**Only model-checked.** The properties of `Encoding`, `Glob`, `Printf` and `Tools`, whose
operators are folds and recursive definitions over lists, patterns and formats: what a
fold computes for every input is an induction over data that takes an operator as its
parameter, and the provers cannot instantiate one. `LockReleased` and `WaitEnds` stay with
TLC because liveness and `ENABLED` are out of the prover's reach.

## 5. Plan

Proofs to come: none of the safety properties that the provers can reach is left; those of
the text machines wait for a prover that instantiates induction theorems.

Models to come: reads of the container device that fail half way through a block list
(`whefs_nodedev.c:160`); the 16-bit block arithmetic at a scaled width
(`whefs_nodedev.c:247`); the used-bit caches in a build that loads them.

## 6. How the modules divide the work

A whole call is one action where nothing else of the process can run during it
(`NodeDev`, `FileData`, `Names`, `Handles`, `Devices`). It is a sequence of actions where a
crash or another process can come in between (`CrashSafety`, `Container`,
`ContainerLock`, `Tools`). `CrashSafety` and `NodeDev` share `BlockStore`, so the allocator
and its hint are the same in both.

## 7. Not modelled

* The used-bit caches: written, and in this build never consulted.
* `whefs_string.c`, `whdbg.c`: allocation and logging, without a protocol.
* `whio_zlib.c`: a loop around an external library, off unless configured.
* The STL stream adapter; reading and writing a stream forwards to the device. Opening and
  closing streams is in `Handles`, `whio_stream_copy` in `Tools` (`CatChunk`).
* The list encoders for a buffer (`whio_encode.c:284-310`), which nothing calls.
* Containers where locks are not supported (`whefs_fs.c:992`).
* Floating point conversions of `whprintf.c`, and those compiled out (`%q`, `%Q`, `%w`);
  the layout of listings, `ls -B` and the dumps of options and statistics.
* mmap of the container (off in this build), mtime, and the stdio buffer of the device in
  `whio_dev_FILE.c`, which `whio_dev_for_filename` does not use in this build.
* The test programs and the samples in `app/`: they make the calls the modules allow in
  any order.
