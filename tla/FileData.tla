------------------------------- MODULE FileData -------------------------------
(***************************************************************************)
(* The bytes of pseudofiles: NodeDev with what the blocks hold, and what a  *)
(* read of a file returns (whefs_nodedev.c, whefs_block.c).  The calls are  *)
(* those of NodeDev; each says what it does to the bytes.                   *)
(*                                                                          *)
(* A client here keeps off the truncations the code does wrong: Careful     *)
(* says which those are.                                                    *)
(***************************************************************************)
EXTENDS NodeDev

CONSTANT Data   \* the strings of bytes clients write

ASSUME FileDataAssumption == Data \subseteq Seq(Nat) \ {<<>>}

VARIABLE bytes  \* block -> offset -> the byte on disk; 0 is what wiping leaves

fileVars == <<used, next, blockHint, disk, inodeHint, opened, handle, bytes>>

Offset == 0 .. BlockSize - 1

FileInit == Init /\ bytes = [b \in Block |-> [o \in Offset |-> 0]]

\* The place in the file of offset o of the k-th block.
PosOf(k, o) == (k - 1) * BlockSize + o

\* whio_dev_inode_write_impl(), block after block: the bytes after d was written
\* at pos, up to stop, over the blocks l.
Stored(l, pos, d, stop) ==
    [b \in Block |-> [o \in Offset |->
        LET At == {PosOf(k, o) : k \in {x \in DOMAIN l : l[x] = b}} \cap pos .. stop - 1
        IN  IF At = {} THEN bytes[b][o] ELSE d[1 + (CHOOSE p \in At : TRUE) - pos]]]

\* Mutant: a wiped block keeps its bytes.
ZeroedNot(W, b, from) == bytes

\* whefs_block_wipe() of the blocks W, whefs_block_wipe_data() of block b.
Zeroed(W, b, from) ==
    [c \in Block |-> [o \in Offset |->
        IF c \in W \/ (c = b /\ o >= from) THEN 0 ELSE bytes[c][o]]]

FileWrite(h, pos, d) ==
    /\ WriteDev(h, pos, Len(d))
    /\ LET l == opened'[handle[h].inode].list
       IN  bytes' = Stored(l, pos, d, Least(pos + Len(d), Len(l) * BlockSize))

FileUnlink(i) ==
    /\ Unlink(i)
    /\ bytes' = Zeroed(used \ used', NoBlock, 0)

-----------------------------------------------------------------------------
(* Truncation. *)

\* To zero: no block is wiped, the file just lets go of them.
FileTruncateToZero(h) ==
    /\ TruncateToZero(h)
    /\ UNCHANGED bytes

\* To a larger size nothing is written: what is added must be zeroes already.
FileTruncateUp(h, len) ==
    /\ TruncateUp(h, len)
    /\ UNCHANGED bytes

\* To a smaller size: the rest of the last block kept is zeroed, from offset 0
\* when the size is a multiple of the block size, and what follows is wiped.
FileTruncateDown(h, len) ==
    LET m == opened[handle[h].inode]
        n == BlocksFor(len - 1)
    IN  /\ TruncateInLastBlock(h, len) \/ TruncateChain(h, len)
        /\ \E l \in ListFor(m, n) :
             bytes' = IF n <= Len(l) THEN Zeroed(used \ used', l[n], len % BlockSize) ELSE bytes

\* The other truncations that do what they should: not up in a container too
\* full for it, which leaves a size without blocks; not down to a multiple of
\* the block size, which zeroes the last block kept; not inside the last of
\* several blocks, which forgets all but the first of them.
Careful(h, len) ==
    LET i == handle[h].inode
        n == BlocksFor(len - 1)
    IN  /\ len > opened[i].size => n <= Len(opened'[i].list)
        /\ len < opened[i].size =>
              /\ len % BlockSize # 0
              /\ n > 1 => \A l \in ListFor(opened[i], n) : n < Len(l)

FileTruncate(h, len) ==
    \/ len = 0 /\ FileTruncateToZero(h)
    \/ (FileTruncateUp(h, len) \/ FileTruncateDown(h, len)) /\ Careful(h, len)

FileNext ==
    \/ \E h \in Handle :
        \/ CreateDev(h) /\ UNCHANGED bytes
        \/ FlushDev(h) /\ UNCHANGED bytes
        \/ CloseDev(h) /\ UNCHANGED bytes
        \/ \E i \in Inode, w \in BOOLEAN : OpenDev(h, i, w) /\ UNCHANGED bytes
        \/ \E pos \in Pos : ReadDev(h, pos) /\ UNCHANGED bytes
        \/ \E pos \in Pos, d \in Data : pos + Len(d) <= MaxPos /\ FileWrite(h, pos, d)
        \/ \E len \in Pos : FileTruncate(h, len)
    \/ \E i \in Inode : FileUnlink(i)

FileSpec == FileInit /\ [][FileNext]_fileVars

-----------------------------------------------------------------------------
(* Properties *)

\* The blocks a read of file i goes through: the cached list of an opened
\* inode, or the chain on disk, which the first read loads.
BlocksRead(i) ==
    IF opened[i].list # <<>> THEN opened[i].list
    ELSE CHOOSE l \in ChainLists(IF opened[i].count > 0 THEN opened[i].first ELSE disk[i].first) : TRUE

\* What a read of the whole of file i returns: it ends at the size, or at a
\* position whose block is not there.
ReadAll(i) ==
    LET l == BlocksRead(i)
        size == IF opened[i].count > 0 THEN opened[i].size ELSE disk[i].size
    IN  [k \in 1 .. Least(size, Len(l) * BlockSize) |-> bytes[l[BlocksFor(k - 1)]][(k - 1) % BlockSize]]

F == INSTANCE Files WITH
        File <- Inode, MaxSize <- MaxPos,
        exists <- {i \in Inode : disk[i].used},
        content <- [i \in Inode |-> ReadAll(i)]

\* Pseudofiles are strings of bytes of their own, as whefs.h promises: through
\* any device and after reopening, a read returns what was written last, zeroes
\* where nothing was, and never what another file held in the same block.
FilesSpec == F!Spec
=============================================================================
