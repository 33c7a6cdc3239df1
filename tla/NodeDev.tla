------------------------------- MODULE NodeDev -------------------------------
(***************************************************************************)
(* The core of whefs: inodes, the table of opened inodes                    *)
(* (whefs_inode.c) and the i/o devices that read, write and truncate an     *)
(* inode's block chain (whefs_nodedev.c), over the block table of           *)
(* BlockStore.  One action is one call of the library, made to its end: the *)
(* library is single threaded and holds a lock on the container file.       *)
(*                                                                          *)
(* The bytes themselves are left out; positions and sizes are kept.  A      *)
(* device's cursor is not: a seek followed by a write at that position is   *)
(* one action with the position as its parameter.                           *)
(***************************************************************************)
EXTENDS BlockStore

CONSTANTS
    InodeCount,  \* whefs_fs_options.inode_count
    BlockSize,   \* whefs_fs_options.block_size
    MaxPos,      \* bound: the file positions and sizes explored
    Handle,      \* the whio_dev objects a client may hold
    NoHandle     \* the null writer key

ASSUME NodeDevAssumption ==
    /\ InodeCount \in Nat \ {0}
    /\ BlockSize \in Nat \ {0}
    /\ MaxPos \in Nat
    /\ IsFiniteSet(Handle)
    /\ NoHandle \notin Handle

VARIABLES
    disk,       \* inode |-> its on-disk record: Used flag, first_block, data_size
    inodeHint,  \* fs->hints.unused_inode_start
    opened,     \* inode |-> its entry of fs->opened_nodes (open_count 0: no entry)
    handle      \* device |-> the inode it is open on (NoInode: closed) and meta->rw

vars == <<used, next, blockHint, disk, inodeHint, opened, handle>>

Inode == 2 .. InodeCount    \* id 1 is the reserved root node
NoInode == 0
Pos == 0 .. MaxPos

DiskInode == [used: BOOLEAN, first: Block \cup {NoBlock}, size: Pos]

\* blocks.list, cut at blocks.count; <<>> stands for "not loaded" too, since
\* a loaded list is empty only for an inode without blocks.
OpenInode == [count: Nat, writer: Handle \cup {NoHandle},
              first: Block \cup {NoBlock}, size: Pos, list: Seq(Block)]

NotOpen == [count |-> 0, writer |-> NoHandle, first |-> NoBlock, size |-> 0, list |-> <<>>]
NoDev == [inode |-> NoInode, rw |-> FALSE]

TypeOK ==
    /\ BlockTypeOK
    /\ disk \in [Inode -> DiskInode]
    /\ inodeHint \in 2 .. InodeCount + 1
    /\ opened \in [Inode -> OpenInode]
    /\ handle \in [Handle -> [inode: Inode \cup {NoInode}, rw: BOOLEAN]]

\* A container fresh from whefs_mkfs().
Init ==
    /\ BlockInit
    /\ disk = [i \in Inode |-> [used |-> FALSE, first |-> NoBlock, size |-> 0]]
    /\ inodeHint = 2
    /\ opened = [i \in Inode |-> NotOpen]
    /\ handle = [h \in Handle |-> NoDev]

-----------------------------------------------------------------------------
(* Opening and closing.                                                     *)

\* whefs_inode_open(fs, i, &ino, writeKey): a second opener shares the
\* entry; the write key of the first one that has one is kept.
WithOpener(i, rec, h, w) ==
    IF opened[i].count = 0
    THEN [count |-> 1, writer |-> IF w THEN h ELSE NoHandle,
          first |-> rec.first, size |-> rec.size, list |-> <<>>]
    ELSE [opened[i] EXCEPT !.count = @ + 1,
                           !.writer = IF w THEN h ELSE @]

\* whefs_dev_for_inode() on an inode found by name.  A second writer is
\* refused (AccessError).
OpenDev(h, i, w) ==
    /\ handle[h] = NoDev
    /\ disk[i].used
    /\ w => opened[i].writer = NoHandle
    /\ opened' = [opened EXCEPT ![i] = WithOpener(i, disk[i], h, w)]
    /\ handle' = [handle EXCEPT ![h] = [inode |-> i, rw |-> w]]
    /\ UNCHANGED <<blockVars, disk, inodeHint>>

FreeInodes == {i \in Inode : i >= inodeHint /\ ~disk[i].used}

\* whefs_dev_open() for writing, of a name no inode has:
\* whefs_inode_next_free(fs, &ino, true), then the device for it.
CreateDev(h) ==
    /\ handle[h] = NoDev
    /\ \E i \in FreeInodes :
        /\ \A j \in FreeInodes : i <= j
        /\ disk' = [disk EXCEPT ![i].used = TRUE]
        /\ inodeHint' = i + 1
        /\ opened' = [opened EXCEPT ![i] = WithOpener(i, disk[i], h, TRUE)]
        /\ handle' = [handle EXCEPT ![h] = [inode |-> i, rw |-> TRUE]]
    /\ UNCHANGED blockVars

\* whefs_inode_flush() of an opened inode: the whole record is written.
Flushed(i, m) == [disk EXCEPT ![i] = [used |-> TRUE, first |-> m.first, size |-> m.size]]

FlushDev(h) ==
    /\ handle[h].rw
    /\ LET i == handle[h].inode IN disk' = Flushed(i, opened[i])
    /\ UNCHANGED <<blockVars, inodeHint, opened, handle>>

\* Mutated form of CloseDev: the write key outlives its device.
CloseDevKeepingWriter(h) ==
    LET i == handle[h].inode
        m == opened[i]
    IN  /\ handle[h] # NoDev
        /\ disk' = IF handle[h].rw THEN Flushed(i, m) ELSE disk
        /\ opened' = [opened EXCEPT ![i] =
                        IF m.count = 1 THEN NotOpen ELSE [m EXCEPT !.count = @ - 1]]
        /\ handle' = [handle EXCEPT ![h] = NoDev]
        /\ UNCHANGED <<blockVars, inodeHint>>

\* whio_dev_inode_close(): flush when writable, then whefs_inode_close(),
\* which takes the entry off the list with its last user.
CloseDev(h) ==
    LET i == handle[h].inode
        m == opened[i]
    IN  /\ handle[h] # NoDev
        /\ disk' = IF handle[h].rw THEN Flushed(i, m) ELSE disk
        /\ opened' = [opened EXCEPT ![i] =
                        IF m.count = 1 THEN NotOpen
                        ELSE [m EXCEPT !.count = @ - 1,
                                       !.writer = IF @ = h THEN NoHandle ELSE @]]
        /\ handle' = [handle EXCEPT ![h] = NoDev]
        /\ UNCHANGED <<blockVars, inodeHint>>

-----------------------------------------------------------------------------
(* whefs_block_for_pos(): from a position to a block of the list.           *)

BlocksFor(pos) == 1 + pos \div BlockSize

\* Mutated form of ListFor: the load stops after the first block.
ListForFirstOnly(m, n) ==
    IF m.list = <<>> /\ m.first # NoBlock THEN {<<m.first>>} ELSE {m.list}

\* The list to find the n-th block in, loaded from disk if it is not there
\* yet; a container without n blocks is an error (RangeError) before that.
ListFor(m, n) ==
    IF m.list = <<>> /\ m.first # NoBlock /\ n <= BlockCount
    THEN ChainLists(m.first) ELSE {m.list}

\* whefs_inode_block_list_append() refuses to append behind a block that
\* has a successor on disk (InternalError; an assertion in a debug build).
Severed(l) == l # <<>> /\ next[l[Len(l)]] # NoBlock

\* The blocks whefs_block_next_free() hands out to make l n blocks long.
\* Behind a severed list the first append fails, with its block marked used.
NewBlocks(l, n) ==
    IF n <= Len(l) \/ n > BlockCount THEN {<<>>}
    ELSE Taken(IF Severed(l) THEN 1 ELSE n - Len(l))

Extended(l, s) == IF Severed(l) THEN l ELSE l \o s

\* The on-disk next_block of every block once l has become Extended(l, s).
Linked(l, s) ==
    LET e == Extended(l, s)
        From(b) == {k \in 1 .. Len(e) - 1 : k >= Len(l) /\ e[k] = b}
    IN  [b \in Block |-> IF From(b) = {} THEN next[b] ELSE e[1 + CHOOSE k \in From(b) : TRUE]]

\* m with its list grown from l by the blocks s: the first block of an
\* empty chain becomes first_block.
Attached(m, l, s) ==
    LET e == Extended(l, s)
    IN  [m EXCEPT !.list = e,
                  !.first = IF @ = NoBlock /\ e # <<>> THEN e[1] ELSE @]

\* Mutated form of FlushedFirst: the new first_block waits for the next flush.
FlushedFirstLater(i, m, a) == disk

\* ... and the record is flushed at once, with the size it has by then.
FlushedFirst(i, m, a) ==
    IF m.first = a.first THEN disk ELSE Flushed(i, [m EXCEPT !.first = a.first])

-----------------------------------------------------------------------------
(* Reading and writing.                                                     *)

\* whio_dev_inode_read() below EOF: nothing changes but the list, loaded on
\* the first use.
ReadDev(h, pos) ==
    LET i == handle[h].inode
        m == opened[i]
    IN  /\ handle[h] # NoDev
        /\ pos < m.size
        /\ BlocksFor(pos) <= BlockCount
        /\ \E l \in ListFor(m, 1) : opened' = [opened EXCEPT ![i].list = l]
        /\ UNCHANGED <<blockVars, disk, inodeHint, handle>>

\* Mutated form of SizeAfterWrite: a short write counts as a full one.
SizeAsAsked(size, pos, end, n) ==
    IF BlocksFor(pos) <= n /\ end > size THEN end ELSE size

\* The size after a write at pos up to end over a list of n blocks: what
\* does not fit is a short write, and nothing is written if pos is beyond it.
SizeAfterWrite(size, pos, end, n) ==
    LET stop == Least(end, n * BlockSize)
    IN  IF BlocksFor(pos) <= n /\ stop > size THEN stop ELSE size

\* m after the write: grown from l by s, and its size.
Written(m, l, s, pos, end) ==
    LET a == Attached(m, l, s)
    IN  [a EXCEPT !.size = SizeAfterWrite(@, pos, end, Len(a.list))]

\* Mutated form of WriteDev: meta->rw is not checked.
WriteDevUnchecked(h, pos, len) ==
    LET i == handle[h].inode
        m == opened[i]
    IN  /\ handle[h] # NoDev
        /\ len > 0
        /\ BlocksFor(pos + len - 1) <= BlockCount
        /\ \E l \in ListFor(m, 1) : \E s \in NewBlocks(l, BlocksFor(pos + len - 1)) :
             /\ MarkUsed(s)
             /\ next' = Linked(l, s)
             /\ opened' = [opened EXCEPT ![i] = Written(m, l, s, pos, pos + len)]
             /\ disk' = FlushedFirst(i, m, Attached(m, l, s))
        /\ UNCHANGED <<inodeHint, handle>>

\* whio_dev_inode_write(): block by block through whio_dev_inode_write_impl()
\* until len bytes are written or no block can be had.
WriteDev(h, pos, len) ==
    LET i == handle[h].inode
        m == opened[i]
        end == pos + len
    IN  /\ handle[h].rw
        /\ len > 0
        /\ BlocksFor(pos) <= BlockCount
        /\ \E l \in ListFor(m, 1) :
           \E s \in NewBlocks(l, Least(BlocksFor(end - 1), BlockCount)) :
             /\ MarkUsed(s)
             /\ next' = Linked(l, s)
             /\ opened' = [opened EXCEPT ![i] = Written(m, l, s, pos, end)]
             /\ disk' = FlushedFirst(i, m, Attached(m, l, s))
        /\ UNCHANGED <<inodeHint, handle>>

-----------------------------------------------------------------------------
(* whio_dev_inode_trunc(): three cases.                                     *)

\* To zero.  The chain is read but not wiped: the test of the read's result
\* is inverted, so the wipe would run only after a failed read.
TruncateToZero(h) ==
    LET i == handle[h].inode
        m == [opened[i] EXCEPT !.list = <<>>, !.first = NoBlock, !.size = 0]
    IN  /\ handle[h].rw
        /\ opened[i].size # 0
        /\ opened' = [opened EXCEPT ![i] = m]
        /\ disk' = Flushed(i, m)
        /\ UNCHANGED <<blockVars, inodeHint, handle>>

\* To a larger size: the size is set and flushed first, then the list is
\* grown.  (The bytes in between are not rewritten: the write asks for 0.)
TruncateUp(h, len) ==
    LET i == handle[h].inode
        m == [opened[i] EXCEPT !.size = len]
        n == BlocksFor(len - 1)
    IN  /\ handle[h].rw
        /\ len > opened[i].size
        /\ \E l \in ListFor(m, n) : \E s \in NewBlocks(l, n) :
             LET a == Attached(m, l, s)
             IN  /\ MarkUsed(s)
                 /\ next' = Linked(l, s)
                 /\ opened' = [opened EXCEPT ![i] = a]
                 /\ disk' = Flushed(i, a)
        /\ UNCHANGED <<inodeHint, handle>>

\* To a smaller size, when the last block kept has no successor, or cannot
\* be had: no block is freed, yet blocks.count is set to 1 in the first case.
TruncateInLastBlock(h, len) ==
    LET i == handle[h].inode
        m == [opened[i] EXCEPT !.size = len]
        n == BlocksFor(len - 1)
    IN  /\ handle[h].rw
        /\ len \in 1 .. opened[i].size - 1
        /\ \E l \in ListFor(m, n) : \E s \in NewBlocks(l, n) :
             LET a == Attached(m, l, s)
             IN  /\ n <= Len(a.list) => Linked(l, s)[a.list[n]] = NoBlock
                 /\ MarkUsed(s)
                 /\ next' = Linked(l, s)
                 /\ opened' = [opened EXCEPT ![i] =
                        IF n <= Len(a.list) THEN [a EXCEPT !.list = <<a.list[1]>>] ELSE a]
                 /\ disk' = Flushed(i, a)
        /\ UNCHANGED <<inodeHint, handle>>

\* Mutated form of TruncateChain: blocks.count is left as it was.
TruncateChainKeepingList(h, len) ==
    LET i == handle[h].inode
        n == BlocksFor(len - 1)
    IN  /\ handle[h].rw
        /\ len \in 1 .. opened[i].size - 1
        /\ \E l \in ListFor(opened[i], n) :
             /\ n < Len(l)
             /\ LET W == Reach(next, l[n+1])
                IN  /\ Wipe(W)
                    /\ next' = [b \in Block |-> IF b \in W \cup {l[n]} THEN NoBlock ELSE next[b]]
             /\ opened' = [opened EXCEPT ![i].size = len, ![i].list = l]
             /\ disk' = Flushed(i, opened'[i])
        /\ UNCHANGED <<inodeHint, handle>>

\* To a smaller size that frees blocks: the successor of the last block kept
\* is looked up in the list and wiped with all that follows it.  The lookup
\* fails (InternalError) when the list is shorter than the chain.
TruncateChain(h, len) ==
    LET i == handle[h].inode
        m == [opened[i] EXCEPT !.size = len]
        n == BlocksFor(len - 1)
    IN  /\ handle[h].rw
        /\ len \in 1 .. opened[i].size - 1
        /\ \E l \in ListFor(m, n) :
             /\ n <= Len(l)
             /\ next[l[n]] # NoBlock
             /\ LET cut == {x \in 2 .. Len(l) : l[x] = next[l[n]]}
                    W == Reach(next, next[l[n]])
                IN  \/ /\ cut = {}
                       /\ opened' = [opened EXCEPT ![i] = [m EXCEPT !.list = l]]
                       /\ UNCHANGED blockVars
                    \/ \E x \in cut :
                         /\ Wipe(W)
                         /\ next' = [b \in Block |-> IF b \in W \cup {l[x-1]} THEN NoBlock
                                                     ELSE next[b]]
                         /\ opened' = [opened EXCEPT ![i] =
                                         [m EXCEPT !.list = SubSeq(l, 1, x - 1)]]
        /\ disk' = Flushed(i, m)
        /\ UNCHANGED <<inodeHint, handle>>

-----------------------------------------------------------------------------
\* Mutated forms of Unlink: opened inodes are not refused; the wipe is not deep.
UnlinkOpened(i) ==
    /\ disk[i].used
    /\ LET W == Reach(next, disk[i].first)
       IN  /\ Wipe(W)
           /\ next' = [b \in Block |-> IF b \in W THEN NoBlock ELSE next[b]]
    /\ disk' = [disk EXCEPT ![i] = [used |-> FALSE, first |-> NoBlock, size |-> 0]]
    /\ inodeHint' = Least(i, inodeHint)
    /\ UNCHANGED <<opened, handle>>

UnlinkShallow(i) ==
    /\ disk[i].used
    /\ opened[i].count = 0
    /\ LET W == {disk[i].first} \ {NoBlock}
       IN  /\ Wipe(W)
           /\ next' = [b \in Block |-> IF b \in W THEN NoBlock ELSE next[b]]
    /\ disk' = [disk EXCEPT ![i] = [used |-> FALSE, first |-> NoBlock, size |-> 0]]
    /\ inodeHint' = Least(i, inodeHint)
    /\ UNCHANGED <<opened, handle>>

\* whefs_inode_unlink(): refused while the inode is opened; otherwise its
\* chain is wiped and an empty record is flushed, which lowers the hint.
Unlink(i) ==
    /\ disk[i].used
    /\ opened[i].count = 0
    /\ LET W == Reach(next, disk[i].first)
       IN  /\ Wipe(W)
           /\ next' = [b \in Block |-> IF b \in W THEN NoBlock ELSE next[b]]
    /\ disk' = [disk EXCEPT ![i] = [used |-> FALSE, first |-> NoBlock, size |-> 0]]
    /\ inodeHint' = Least(i, inodeHint)
    /\ UNCHANGED <<opened, handle>>

Truncate(h) ==
    \/ TruncateToZero(h)
    \/ \E len \in Pos :
        \/ TruncateUp(h, len)
        \/ TruncateInLastBlock(h, len)
        \/ TruncateChain(h, len)

NextNoTrunc ==
    \/ \E h \in Handle :
        \/ CreateDev(h)
        \/ FlushDev(h)
        \/ CloseDev(h)
        \/ \E i \in Inode, w \in BOOLEAN : OpenDev(h, i, w)
        \/ \E pos \in Pos : ReadDev(h, pos)
        \/ \E pos, len \in Pos : pos + len <= MaxPos /\ WriteDev(h, pos, len)
    \/ \E i \in Inode : Unlink(i)

Next == NextNoTrunc \/ \E h \in Handle : Truncate(h)

Spec == Init /\ [][Next]_vars

\* A client that never truncates.
SpecNoTrunc == Init /\ [][NextNoTrunc]_vars

-----------------------------------------------------------------------------
(* Properties.                                                              *)

\* The blocks of file i: its on-disk chain.
FileChain(i) == Reach(next, disk[i].first)

\* No block belongs to two files, and no block of a file can be handed out
\* by whefs_block_next_free(): what any interleaving of writes, truncations
\* and unlinks through several devices must keep, or files overwrite each other.
BlocksOwned ==
    /\ \A i \in Inode :
        /\ FileChain(i) \subseteq used
        /\ disk[i].first # NoBlock => disk[i].used
    /\ \A i, j \in Inode : i # j => FileChain(i) \cap FileChain(j) = {}

\* Every chain ends: the loops of whefs_inode_block_list_load() and of the
\* deep whefs_block_wipe(), which only stop at next_block 0, terminate.
ChainsEnd ==
    \A i \in Inode : disk[i].first # NoBlock =>
        \E b \in FileChain(i) : next[b] = NoBlock

\* The block list an opened inode caches is a prefix of its chain on disk:
\* every change to one is made to the other in the same call.
ListMirrorsChain ==
    \A i \in Inode : LET l == opened[i].list IN l # <<>> =>
        /\ l[1] = disk[i].first
        /\ \A k \in 1 .. Len(l) - 1 : next[l[k]] = l[k+1]

\* The shared record of an opened inode against the one on disk: the chain's
\* head is never ahead of the disk (a crash cannot orphan the chain), and
\* without a writer nothing is left to flush.
RecordInSync ==
    \A i \in Inode : opened[i].count > 0 =>
        /\ disk[i].used
        /\ disk[i].first = opened[i].first
        /\ opened[i].writer = NoHandle => disk[i].size = opened[i].size

Users(i) == {h \in Handle : handle[h].inode = i}

\* An entry of the opened list counts exactly the devices on it, and its
\* write key is the one writable device, whatever the order of closing.
OpenersCounted ==
    \A i \in Inode :
        /\ opened[i].count = Cardinality(Users(i))
        /\ {h \in Users(i) : handle[h].rw} = {opened[i].writer} \ {NoHandle}

\* The search for a free block or inode starts at the hint and never looks
\* below it, so nothing free may be there (or FSFull is reported too early).
NothingFreeBelowHints ==
    /\ \A b \in Block : b < blockHint => b \in used
    /\ \A i \in Inode : i < inodeHint => disk[i].used

\* A step changes the chain of one file at most: that of the unlinked inode,
\* or that of an inode some device holds open for writing.
OneFilePerStep ==
    [][\A i \in Inode : FileChain(i)' # FileChain(i) =>
        /\ \A j \in Inode \ {i} : FileChain(j)' = FileChain(j) /\ disk'[j] = disk[j]
        /\ opened[i].writer # NoHandle \/ ~disk'[i].used \/ ~disk[i].used]_vars

\* Every block marked used is reachable from a file: whefs.h calls a block
\* that is not a lost block, recovered only by repairing the container.
NoLostBlocks == used = UNION {FileChain(i) : i \in Inode}

\* Every byte below a file's size lies in a block of its chain, in memory and
\* on disk, even after a write that filled the container half way.
SizeBacked ==
    \A i \in Inode :
        LET room == BlockSize * Cardinality(FileChain(i))
        IN  disk[i].size <= room /\ opened[i].size <= room

\* A write comes up short only when the container has no free block left, or
\* the position is beyond what the whole container could hold.
ShortWriteMeansFull ==
    [][used' # Block => \A h \in Handle, pos, len \in Pos :
        LET i == handle[h].inode
            end == Least(pos + len, BlockSize * BlockCount)
        IN  /\ handle[h].rw /\ handle' = handle
            /\ pos + len <= MaxPos
            /\ opened'[i].size < end
            => ~WriteDev(h, pos, len)]_vars

\* A cached block list is the whole chain of the inode.
ListComplete ==
    \A i \in Inode : opened[i].list # <<>> =>
        Len(opened[i].list) = Cardinality(FileChain(i))
=============================================================================
