------------------------------ MODULE Container ------------------------------
(***************************************************************************)
(* The life of a container (whefs_fs.c): made by whefs_mkfs(), opened by    *)
(* whefs_openfs(), grown by whefs_fs_append_blocks(), let go of by          *)
(* whefs_fs_finalize() - each as the sequence of writes it makes, with a    *)
(* crash of the program, or a failure of the device, between any two.       *)
(*                                                                          *)
(* The device under the container is a file of buffered writes that reach   *)
(* the disk in the order they were made, so that a crash which loses the    *)
(* last of them is a crash before them.  Sizes are counted in blocks behind *)
(* a header of one unit.  What the blocks hold is not kept; NodeDev is about*)
(* that.  The inode hint is treated as the block hint is, and left out.     *)
(* Ids and counts are MaxId wide and wrap, as whefs_id_type does.           *)
(***************************************************************************)
EXTENDS Integers, Sequences, FiniteSets

CONSTANTS
    InodeCount,  \* whefs_fs_options.inode_count
    MaxId,       \* the greatest whefs_id_type
    MaxBlocks,   \* bound: the blocks a container file may hold
    MaxFaults    \* bound: the crashes and device failures of one behaviour

ASSUME ContainerAssumption ==
    /\ MaxId \in Nat /\ InodeCount \in 2 .. MaxId
    /\ MaxBlocks \in Nat /\ MaxId <= MaxBlocks
    /\ MaxFaults \in Nat

VARIABLES
    disk,    \* what the container file holds
    fs,      \* the whefs_fs object, and the step of the call in progress
    dev,     \* the whio_dev a client passed: "live", or "gone" once finalized
    faults,  \* how many faults happened
    harm     \* history: what the last mkfs, crash or failure left behind;
             \* "ignored": a lost header write, or a wrapped count, overlooked

vars == <<disk, fs, dev, faults, harm>>

\* What a block's slot in the file holds: a whefs_block record, or bytes that
\* are none (zeroes of a file just grown, or whatever was there before).
Slot == {"junk", "free", "used"}

\* magic: the words of the header can be read, those of the options included.
\* hint 0 stands for bytes that are no hints record.
Disk == [exists: BOOLEAN, magic: BOOLEAN, filesize: 0 .. MaxBlocks + 1, blocks: 0 .. MaxId,
         hint: 0 .. MaxId, names: BOOLEAN, inodes: BOOLEAN, slots: Seq(Slot)]

\* The header is one unit; a file that is no container is shorter than that.
Length(d) == IF d.exists THEN 1 + Len(d.slots) ELSE 0

Steps == {"closed", "mk_truncate", "mk_magic", "mk_options", "mk_hints", "mk_names", "mk_inodes",
          "mk_blocks", "mk_filesize", "open", "ap_filesize", "ap_options", "ap_wipe", "finalize"}

\* located: offsets[] are known; eof: offsets[WHEFS_OFF_EOF], in blocks;
\* slipped: a header write of the mkfs in progress was lost unnoticed.
Fs == [pc: Steps, rw: BOOLEAN, located: BOOLEAN, owns: BOOLEAN, fromDev: BOOLEAN,
       slipped: BOOLEAN, hint: 1 .. MaxId, blocks: 0 .. MaxId, wiped: 0 .. MaxId,
       eof: 0 .. MaxBlocks]

NoFs == [pc |-> "closed", rw |-> FALSE, located |-> FALSE, owns |-> TRUE, fromDev |-> FALSE,
         slipped |-> FALSE, hint |-> 1, blocks |-> 0, wiped |-> 0, eof |-> 0]

TypeOK ==
    /\ disk \in Disk
    /\ fs \in Fs
    /\ dev \in {"live", "gone"}
    /\ faults \in 0 .. MaxFaults
    /\ harm \subseteq {"header", "blocks", "hints", "ignored"}

Slots(n, s) == [k \in 1 .. n |-> s]

NoFile == [exists |-> FALSE, magic |-> FALSE, filesize |-> 0, blocks |-> 0, hint |-> 0,
           names |-> FALSE, inodes |-> FALSE, slots |-> <<>>]

\* No file yet, or one of another program.
Init ==
    /\ disk \in {NoFile, [NoFile EXCEPT !.exists = TRUE, !.slots = Slots(1, "junk")]}
    /\ fs = NoFs
    /\ dev = "live"
    /\ faults = 0
    /\ harm = {"header"}

Goto(step) == fs' = [fs EXCEPT !.pc = step]

\* The device refuses a write: the file stays as it is.
WriteFails ==
    /\ faults < MaxFaults
    /\ faults' = faults + 1
    /\ UNCHANGED disk

Writes(d) == disk' = d /\ UNCHANGED faults

\* The step of a call that writes d and goes on, or finalizes on an error.
Checked(at, d, then) ==
    /\ fs.pc = at
    /\ \/ Writes(d) /\ Goto(then)
       \/ WriteFails /\ Goto("finalize")

-----------------------------------------------------------------------------
(* whefs_mkfs() and whefs_mkfs_dev().                                       *)

\* whefs_mkfs_stage1(): the options are checked, the object is set up with
\* its offsets known, and the file is opened, created if it is not there.
\* whefs_mkfs_dev() owns the device only once all has gone well, if at all.
Mkfs(n, viaDev) ==
    /\ fs.pc = "closed"
    /\ n >= InodeCount
    /\ viaDev => dev = "live" /\ disk.exists
    /\ disk' = [disk EXCEPT !.exists = TRUE]
    /\ fs' = [NoFs EXCEPT !.pc = "mk_truncate", !.rw = TRUE, !.located = TRUE,
                          !.owns = ~viaDev, !.fromDev = viaDev, !.blocks = n, !.eof = n]
    /\ UNCHANGED <<dev, faults, harm>>

\* The file gets the size of n blocks.  What it held below that size stays.
Resized(d, n) ==
    [d EXCEPT !.slots = [k \in 1 .. n |-> IF k <= Len(@) THEN @[k] ELSE "junk"]]

\* Block b's record is written, behind the end of the file if it is there.
WithSlot(d, b, s) ==
    [Resized(d, IF b > Len(d.slots) THEN b ELSE Len(d.slots)) EXCEPT !.slots[b] = s]

\* whefs_mkfs_stage2(): truncate, then every part of the container in turn.
MkfsTruncate ==
    /\ Checked("mk_truncate", Resized(disk, fs.blocks), "mk_magic")
    /\ harm' = harm \cup {"header", "blocks"}
    /\ UNCHANGED dev

\* Mutated form of WithMagic: the size is written with the magic, too early.
WithMagicAndSize(d) == [d EXCEPT !.magic = TRUE, !.filesize = Length(d)]

\* whefs_mkfs_write_magic(): with fs->filesize, which is 0 until all is done.
WithMagic(d) == [d EXCEPT !.magic = TRUE, !.filesize = 0]

\* The device refuses one of the writes whose results are not looked at.
Overlooked(at, then) ==
    /\ fs.pc = at
    /\ faults < MaxFaults
    /\ faults' = faults + 1
    /\ fs' = [fs EXCEPT !.pc = then, !.slipped = TRUE]

\* Only the write of the client's magic data is checked.  Without one of the
\* words before it those behind it slip forward, and none can be read.
MkfsMagic ==
    \/ Checked("mk_magic", WithMagic(disk), "mk_options")
    \/ Overlooked("mk_magic", "mk_options") /\ disk' = [disk EXCEPT !.magic = FALSE, !.filesize = 0]

\* The options without block_size, which slip forward in the same way, or
\* without filename_length, in place of which an older one may be found.
SlippedOptions(d, n) == {[d EXCEPT !.magic = @ /\ readable, !.blocks = n] : readable \in BOOLEAN}

\* whefs_mkfs_write_options(): the writes of the two counts are checked.
MkfsOptions ==
    \/ Checked("mk_options", [disk EXCEPT !.blocks = fs.blocks], "mk_hints")
    \/ Overlooked("mk_options", "mk_hints") /\ disk' \in SlippedOptions(disk, fs.blocks)

MkfsHints == Checked("mk_hints", [disk EXCEPT !.hint = fs.hint], "mk_names")
MkfsNames == Checked("mk_names", [disk EXCEPT !.names = TRUE], "mk_inodes")
MkfsInodes == Checked("mk_inodes", [disk EXCEPT !.inodes = TRUE], "mk_blocks")

\* Mutated form of WipeNewBlock: < where the loop has <=.
WipeNewBlockButLast(at, then, failed) ==
    /\ fs.pc = at
    /\ LET b == fs.wiped + 1
       IN  IF b >= fs.blocks
           THEN Goto(then) /\ UNCHANGED <<disk, faults>>
           ELSE \/ /\ Writes(WithSlot(disk, b, "free"))
                   /\ fs' = [fs EXCEPT !.wiped = b, !.hint = IF b < @ THEN b ELSE @]
                \/ WriteFails /\ Goto(failed)

\* whefs_block_wipe() of one new block; the hint drops to it.  After the block
\* with the greatest id the loop goes on with id 0, which is refused.
WipeNewBlock(at, then, failed) ==
    /\ fs.pc = at
    /\ LET b == fs.wiped + 1
       IN  IF fs.wiped >= fs.blocks
           THEN Goto(IF fs.blocks = MaxId THEN failed ELSE then) /\ UNCHANGED <<disk, faults>>
           ELSE \/ /\ Writes(WithSlot(disk, b, "free"))
                   /\ fs' = [fs EXCEPT !.wiped = b, !.hint = IF b < @ THEN b ELSE @]
                \/ WriteFails /\ Goto(failed)

MkfsBlocks == WipeNewBlock("mk_blocks", "mk_filesize", "finalize")

MkfsTables ==
    /\ \/ MkfsMagic
       \/ MkfsOptions
       \/ MkfsHints
       \/ MkfsNames
       \/ MkfsInodes
       \/ MkfsBlocks
    /\ UNCHANGED <<dev, harm>>

\* whefs_fs_write_filesize(), last; whether it worked is not looked at.  A
\* device that was passed is taken over if takeDev says so.
MkfsFilesize ==
    /\ fs.pc = "mk_filesize"
    /\ \E takeDev \in BOOLEAN :
        /\ ~fs.fromDev => takeDev
        /\ fs' = [fs EXCEPT !.pc = "open", !.owns = takeDev]
    /\ \/ /\ Writes([disk EXCEPT !.filesize = Length(disk)])
          /\ harm' = IF fs.slipped THEN {"ignored"} ELSE {}
       \/ WriteFails /\ harm' = harm \cup {"ignored"}
    /\ UNCHANGED dev

-----------------------------------------------------------------------------
(* whefs_openfs() and whefs_openfs_dev().                                   *)

\* The header checks of whefs_openfs_stage2() up to the point where the
\* offsets are known, and the hints record behind it.
HeaderOK(d) == d.magic /\ d.filesize # 0 /\ d.filesize = Length(d)
Openable(d) == HeaderOK(d) /\ d.hint # 0

\* Only reads, so one step; an error of any of them finalizes the object.  The
\* end of the file is in the end computed from the count (whefs_fs_init_sizes()).
Open(w, viaDev, take) ==
    /\ fs.pc = "closed"
    /\ disk.exists
    /\ viaDev => dev = "live" /\ w
    /\ ~viaDev => take
    /\ LET new == [NoFs EXCEPT !.rw = w, !.owns = take, !.fromDev = viaDev,
                               !.located = HeaderOK(disk)]
       IN  fs' = IF Openable(disk)
                 THEN [new EXCEPT !.pc = "open", !.hint = disk.hint, !.blocks = disk.blocks,
                                  !.eof = disk.blocks]
                 ELSE [new EXCEPT !.pc = "finalize"]
    /\ UNCHANGED <<disk, dev, faults, harm>>

\* whefs_fs_hints_write(): 7 bytes at offsets[WHEFS_OFF_HINTS] - over the
\* magic when an open failed before the offsets were set.
WithHints(d) == IF fs.located THEN [d EXCEPT !.hint = fs.hint]
                ELSE [d EXCEPT !.magic = FALSE]

\* whefs_fs_finalize(): the hints of a writable container, then the device.
Finalize ==
    /\ fs.pc \in {"open", "finalize"}
    /\ \/ fs.rw /\ Writes(WithHints(disk)) /\ harm' = harm
       \/ fs.rw /\ WriteFails /\ harm' = harm \cup {"hints"}
       \/ ~fs.rw /\ UNCHANGED <<disk, faults, harm>>
    /\ fs' = NoFs
    /\ dev' = IF fs.fromDev /\ fs.owns THEN "gone" ELSE dev

\* The client makes itself another device object.
NewDevice ==
    /\ dev = "gone"
    /\ dev' = "live"
    /\ UNCHANGED <<disk, fs, faults, harm>>

-----------------------------------------------------------------------------
(* An open container at work: the blocks its files take and give back.      *)

SlotAt(b) == IF b <= Len(disk.slots) THEN disk.slots[b] ELSE "junk"

FreeFrom(h) == {b \in h .. fs.blocks : SlotAt(b) # "used"}

\* whefs_block_next_free(fs, bl, true): from the hint up; a block that cannot
\* be read (no record) ends the search with an error.  Behind the greatest id
\* the hint is 0, which the search reads as 1.
AllocBlock ==
    /\ fs.pc = "open" /\ fs.rw
    /\ \E b \in FreeFrom(fs.hint) :
        /\ \A c \in FreeFrom(fs.hint) : b <= c
        /\ SlotAt(b) = "free"
        /\ disk' = [disk EXCEPT !.slots[b] = "used"]
        /\ fs' = [fs EXCEPT !.hint = IF b = MaxId THEN 1 ELSE b + 1]
    /\ UNCHANGED <<dev, faults, harm>>

\* Mutated form of FreeBlock: the hint stays where it was.
FreeBlockKeepingHint(b) ==
    /\ fs.pc = "open" /\ fs.rw
    /\ b <= fs.blocks
    /\ SlotAt(b) = "used"
    /\ disk' = [disk EXCEPT !.slots[b] = "free"]
    /\ UNCHANGED <<fs, dev, faults, harm>>

\* whefs_block_wipe() of a file's block.
FreeBlock(b) ==
    /\ fs.pc = "open" /\ fs.rw
    /\ b <= fs.blocks
    /\ SlotAt(b) = "used"
    /\ disk' = [disk EXCEPT !.slots[b] = "free"]
    /\ fs' = [fs EXCEPT !.hint = IF b < @ THEN b ELSE @]
    /\ UNCHANGED <<dev, faults, harm>>

-----------------------------------------------------------------------------
(* whefs_fs_append_blocks().                                                *)

\* Mutated form of AppendBlocks: the wipe starts at the old last block.
AppendBlocksFromLast(k) ==
    /\ fs.pc = "open" /\ fs.rw
    /\ fs.eof + k <= MaxBlocks
    /\ fs.blocks + k <= MaxId
    /\ Writes(Resized(disk, fs.eof + k))
    /\ fs' = [fs EXCEPT !.pc = "ap_filesize", !.blocks = @ + k, !.wiped = fs.blocks - 1,
                        !.eof = @ + k]
    /\ UNCHANGED <<dev, harm>>

\* The file gets k blocks behind the end that offsets[] knows, and the count
\* grows by k, in the width of an id: unnoticed, it may wrap.
Grows(k) ==
    /\ Writes(Resized(disk, fs.eof + k))
    /\ fs' = [fs EXCEPT !.pc = "ap_filesize", !.blocks = (@ + k) % (MaxId + 1),
                        !.wiped = fs.blocks, !.eof = @ + k]
    /\ harm' = IF fs.blocks + k <= MaxId THEN harm ELSE harm \cup {"ignored"}

\* A failure is answered by a truncation back to that end, which may fail too.
\* It cuts a file that is longer: one an append was caught in by a crash,
\* after the new size was written and before the new count was.
GrowthUndone ==
    /\ faults < MaxFaults
    /\ faults' = faults + 1
    /\ UNCHANGED fs
    /\ disk' \in {disk, Resized(disk, fs.eof)}
    /\ harm' = IF Len(disk'.slots) = Len(disk.slots) THEN harm ELSE harm \cup {"header"}

AppendBlocks(k) ==
    /\ fs.pc = "open" /\ fs.rw
    /\ fs.eof + k <= MaxBlocks
    /\ Grows(k) \/ GrowthUndone
    /\ UNCHANGED dev

\* Mutated form of AppendFilesize: the header keeps the old size.
AppendNoFilesize ==
    /\ fs.pc = "ap_filesize"
    /\ Goto("ap_options")
    /\ UNCHANGED <<disk, faults, dev, harm>>

\* whefs_fs_write_filesize(): its result is not looked at.
AppendFilesize ==
    /\ fs.pc = "ap_filesize"
    /\ Goto("ap_options")
    /\ \/ Writes([disk EXCEPT !.filesize = Length(disk)]) /\ harm' = harm
       \/ WriteFails /\ harm' = harm \cup {"ignored"}
    /\ UNCHANGED dev

\* whefs_mkfs_write_options(): nor is its, and any of its writes may be lost.
AppendOptions ==
    /\ fs.pc = "ap_options"
    /\ Goto("ap_wipe")
    /\ \/ Writes([disk EXCEPT !.blocks = fs.blocks]) /\ harm' = harm
       \/ /\ faults < MaxFaults
          /\ faults' = faults + 1
          /\ disk' \in SlippedOptions(disk, disk.blocks) \cup SlippedOptions(disk, fs.blocks)
          /\ harm' = harm \cup {"ignored"}
    /\ UNCHANGED dev

\* The new blocks are wiped; the first failure ends the call, with the block
\* count raised all the same.
AppendWipe ==
    /\ WipeNewBlock("ap_wipe", "open", "open")
    /\ harm' = IF faults' = faults THEN harm ELSE harm \cup {"blocks"}
    /\ UNCHANGED dev

-----------------------------------------------------------------------------
\* What a crash in the middle of a call leaves behind: a header that does not
\* fit the file, new blocks that are not wiped, hints older than the blocks.
HarmDone ==
    {h \in {"header", "blocks", "hints"} :
        \/ h = "header" /\ fs.pc = "ap_filesize"
        \/ h = "blocks" /\ fs.pc = "ap_wipe"
        \/ h = "hints" /\ fs.rw}

\* The program dies; the next one makes itself a new device object.
Crash ==
    /\ fs.pc # "closed"
    /\ faults < MaxFaults
    /\ faults' = faults + 1
    /\ fs' = NoFs
    /\ dev' = "live"
    /\ harm' = harm \cup HarmDone
    /\ UNCHANGED disk

Next ==
    \/ \E n \in 1 .. MaxId, viaDev \in BOOLEAN : Mkfs(n, viaDev)
    \/ MkfsTruncate
    \/ MkfsTables
    \/ MkfsFilesize
    \/ \E w, viaDev, take \in BOOLEAN : Open(w, viaDev, take)
    \/ Finalize
    \/ NewDevice
    \/ AllocBlock
    \/ \E b \in 1 .. MaxId : FreeBlock(b)
    \/ \E k \in 1 .. MaxId : AppendBlocks(k)
    \/ AppendFilesize
    \/ AppendOptions
    \/ AppendWipe
    \/ Crash

Spec == Init /\ [][Next]_vars

-----------------------------------------------------------------------------
(* Properties.                                                              *)

\* A container that was made to the end can be opened again, unless a crash
\* caught an append between growing the file and writing its size, or an
\* append failed in a file longer than its count: closing, appending, hints
\* written back and crashes and failures anywhere else leave a header that
\* fits the file, while nothing lost was overlooked.
Reopens ==
    fs.pc = "closed" /\ harm \cap {"header", "ignored"} = {} => Openable(disk)

\* Whatever crash or reported failure came before, a container that opens has
\* its tables in place and room in the file for every block it counts: an
\* interrupted mkfs, over an older container of any size too, is refused.
OpenIsComplete ==
    fs.pc = "open" /\ "ignored" \notin harm =>
        disk.names /\ disk.inodes /\ fs.blocks <= Len(disk.slots)

\* Every block of an open container has a record to read, unless an append or
\* a mkfs was stopped after the file had changed its size; the search for a
\* free block ends with an error at the first that has none.
BlocksReadable ==
    fs.pc = "open" /\ harm \cap {"blocks", "ignored"} = {} =>
        \A b \in 1 .. fs.blocks : SlotAt(b) # "junk"

\* The search for a free block starts at the hint: a container always closed
\* by whefs_fs_finalize() has no free block below it, while nothing lost was
\* overlooked.
HintsFindFree ==
    fs.pc = "open" /\ harm \cap {"hints", "ignored"} = {} =>
        \A b \in 1 .. fs.blocks : b < fs.hint => SlotAt(b) = "used"

\* No step but the wipe of a file's block, or mkfs, frees a block in use: not
\* the reopening, growing or finalizing of the container, nor the truncation
\* after a growth that failed, while nothing lost was overlooked.
UsedBlocksKept ==
    [][\A b \in 1 .. Len(disk.slots) : disk.slots[b] = "used" =>
        \/ b <= Len(disk'.slots) /\ disk'.slots[b] = "used"
        \/ fs.pc \in {"mk_truncate", "mk_blocks"}
        \/ /\ fs.pc = "open" /\ fs'.pc = "open" /\ b <= fs.blocks
           /\ Len(disk'.slots) = Len(disk.slots)
        \/ "ignored" \in harm]_vars
=============================================================================
