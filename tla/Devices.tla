------------------------------- MODULE Devices -------------------------------
(***************************************************************************)
(* The i/o devices: memory buffers and memory maps (whio_dev_mem.c), files  *)
(* (whio_dev_fileno.c), a sub-device fenced into one of them                *)
(* (whio_dev_subdev.c) and a block device over a fence of its own           *)
(* (whio_dev.c).  The sequence of bytes counts from 1, positions from 0.    *)
(*                                                                          *)
(* Sizes stay below MaxSize: the checks for a wrapping whio_size_t, which   *)
(* the code makes before it moves anything, never strike.  Memory does not  *)
(* run out.                                                                 *)
(***************************************************************************)
EXTENDS Naturals, Sequences, SequencesExt

CONSTANTS
    Byte,       \* the bytes clients write; 0 is what fresh memory holds
    MaxSize,    \* bound: clients seek to, truncate to and write up to MaxSize
    Data,       \* what clients write in one call, not empty
    MaxRead,    \* bound: the most bytes one call reads
    Bounds,     \* the bounds clients give the sub-device, <<lower, upper>>, up to MaxSize
    BlockSize, BlockCount, BlocksAt  \* the block device and where it starts

ASSUME DevicesAssumption ==
    /\ 0 \in Byte /\ {MaxSize, MaxRead, BlockSize, BlockCount} \subseteq Nat \ {0}
    /\ BlocksAt \in Nat
    /\ Data \subseteq Seq(Byte) \ {<<>>}
    /\ Bounds \subseteq (0..MaxSize) \X (0..MaxSize)
    /\ \A b \in Bounds : b[2] = 0 \/ b[1] < b[2]

VARIABLES
    dev,      \* the device: [kind, buf, size, pos]; buf is all its memory
    sub,      \* the sub-device: [lower, upper, pos]
    fence,    \* the sub-device under the block device
    moved,    \* the bytes the last call read or wrote
    block     \* history: what the block device last put in a block, or <<>>

vars == <<dev, sub, fence, moved, block>>

Kinds == {"fixed", "growing", "map", "romap", "file"}
BlockId == 0..BlockCount - 1
Position == 0..MaxSize
Fence == [lower |-> BlocksAt, upper |-> BlocksAt + BlockCount * BlockSize, pos |-> BlocksAt]

Init ==
    /\ \E k \in Kinds, n \in {0, MaxSize} :
          /\ (k \in {"map", "romap"} => n > 0) /\ (k = "file" => n = 0)
          /\ dev = [kind |-> k, buf |-> [i \in 1..n |-> 0], size |-> n, pos |-> 0]
    /\ sub \in {[lower |-> b[1], upper |-> b[2], pos |-> b[1]] : b \in Bounds}
    /\ fence = Fence
    /\ moved = <<>>
    /\ block = [id \in BlockId |-> <<>>]

Zeros(n) == [i \in 1..n |-> 0]
Bytes(d) == SubSeq(d.buf, 1, d.size)
Least(a, b) == IF a < b THEN a ELSE b
Most(a, b) == IF a > b THEN a ELSE b

-----------------------------------------------------------------------------
(* One device: what a call leaves of it and what it moves *)

\* Memory that grows by its factor of 1.5 (plus the 0.01 the code adds).
Grown(d, n) == IF d.kind = "growing" THEN Most(n, (Len(d.buf) * 151) \div 100) ELSE n

\* Mutant: a buffer that is long enough already is not looked at again.
TruncKeepsMemory(d, n) ==
    [d EXCEPT !.size = n, !.buf = IF Len(@) = 0 THEN Zeros(n) ELSE @]

\* whio_dev_membuf_trunc(): memory is added zeroed, and given back when less
\* than 1/1.5 of it is left in use.
TruncBuf(d, n) ==
    CASE n = 0 -> [d EXCEPT !.size = 0, !.buf = IF d.kind = "growing" THEN <<>> ELSE @]
      [] n > Len(d.buf) ->
            [d EXCEPT !.size = n, !.buf = @ \o Zeros(Grown(d, n) - Len(@))]
      [] OTHER ->
            [d EXCEPT !.size = n,
                      !.buf = IF d.kind = "growing" /\ 3 * n < 2 * Len(@) THEN SubSeq(@, 1, n) ELSE @]

\* whio_dev_memmap_trunc(): within the memory that is mapped.
TruncMap(d, n) == IF n > Len(d.buf) THEN d ELSE [d EXCEPT !.size = n]

\* whio_dev_fileno_trunc(): ftruncate().
TruncFile(d, n) == [d EXCEPT !.size = n, !.buf = SubSeq(@ \o Zeros(n), 1, n)]

Trunc(d, n) ==
    CASE d.kind \in {"fixed", "growing"} -> TruncBuf(d, n)
      [] d.kind \in {"map", "romap"} -> TruncMap(d, n)
      [] OTHER -> TruncFile(d, n)

\* memcpy() of w to position p of the memory.
Stored(buf, p, w) == [i \in DOMAIN buf |-> IF i \in p + 1..p + Len(w) THEN w[i - p] ELSE buf[i]]

Moved(d, w) == [d EXCEPT !.buf = Stored(@, d.pos, w), !.pos = @ + Len(w)]

\* whio_dev_membuf_write(): the end moves first, even if nothing is written.
Room(d, n) ==
    IF d.pos + n < d.size THEN d
    ELSE IF d.kind = "growing" THEN TruncBuf(d, d.pos + n)
    ELSE [d EXCEPT !.size = Least(d.pos + n, Len(d.buf))]

WriteBuf(d, w) ==
    LET r == Room(d, Len(w)) IN
    IF r.pos >= r.size THEN [dev |-> r, moved |-> <<>>]
    ELSE LET put == SubSeq(w, 1, Least(Len(w), r.size - r.pos)) IN [dev |-> Moved(r, put), moved |-> put]

\* whio_dev_memmap_write(): inside the size, and not to read-only memory.
WriteMap(d, w) ==
    IF d.kind = "romap" \/ d.pos >= d.size THEN [dev |-> d, moved |-> <<>>]
    ELSE LET put == SubSeq(w, 1, Least(Len(w), d.size - d.pos)) IN [dev |-> Moved(d, put), moved |-> put]

\* whio_dev_fileno_write(): write(); a gap before it reads as zeros.
WriteFile(d, w) ==
    [dev |-> Moved(TruncFile(d, Most(d.size, d.pos + Len(w))), w), moved |-> w]

Write(d, w) ==
    CASE d.kind \in {"fixed", "growing"} -> WriteBuf(d, w)
      [] d.kind \in {"map", "romap"} -> WriteMap(d, w)
      [] OTHER -> WriteFile(d, w)

\* The read handler of every kind: up to the end, and the cursor follows.
Read(d, n) ==
    LET got == SubSeq(d.buf, d.pos + 1, Least(d.pos + n, d.size)) IN
    [dev |-> [d EXCEPT !.pos = @ + Len(got)], moved |-> got]

\* The seek handlers: any position, also past the end.
Seek(d, p) == [d EXCEPT !.pos = p]

-----------------------------------------------------------------------------
(* A sub-device s of device d *)

\* Never with the upper bound 0, which whio_dev_subdev.c:40-41 has for "no bound".
Readable(s) == s.lower <= s.pos /\ s.pos < s.upper

\* Mutant: the end of the transfer is not cut at the upper bound.
Unclipped(s, n) == n

\* How much of n bytes lies inside the bounds.
Clipped(s, n) == Least(n, s.upper - s.pos)

\* After a transfer r the parent's cursor is put back, the sub-device's moves on.
Restored(d, s, r) ==
    [dev |-> Seek(r.dev, d.pos), sub |-> [s EXCEPT !.pos = @ + Len(r.moved)], moved |-> r.moved]

\* whio_dev_subdev_read(), whio_dev_subdev_write()
SubRead(d, s, n) ==
    IF ~Readable(s) THEN [dev |-> d, sub |-> s, moved |-> <<>>]
    ELSE Restored(d, s, Read(Seek(d, s.pos), Clipped(s, n)))

SubWrite(d, s, w) ==
    IF ~Readable(s) THEN [dev |-> d, sub |-> s, moved |-> <<>>]
    ELSE Restored(d, s, Write(Seek(d, s.pos), SubSeq(w, 1, Clipped(s, Len(w)))))

-----------------------------------------------------------------------------
(* Calls on the device and on the sub-device *)

\* What anybody but the block device writes may lie in a block.
Unknown == [id \in BlockId |-> <<>>]

DevWrite == \E w \in Data :
    LET r == Write(dev, w) IN
    /\ dev.pos + Len(w) <= MaxSize
    /\ dev' = r.dev /\ moved' = r.moved /\ block' = Unknown
    /\ UNCHANGED <<sub, fence>>

DevRead == \E n \in 1..MaxRead :
    LET r == Read(dev, n) IN
    /\ dev' = r.dev /\ moved' = r.moved
    /\ UNCHANGED <<sub, fence, block>>

DevSeek == \E p \in Position :
    /\ dev' = Seek(dev, p) /\ moved' = <<>>
    /\ UNCHANGED <<sub, fence, block>>

DevTruncate == \E n \in 0..MaxSize :
    /\ dev' = Trunc(dev, n) /\ moved' = <<>> /\ block' = Unknown
    /\ UNCHANGED <<sub, fence>>

SubDevWrite == \E w \in Data :
    LET r == SubWrite(dev, sub, w) IN
    /\ dev' = r.dev /\ sub' = r.sub /\ moved' = r.moved /\ block' = Unknown
    /\ UNCHANGED fence

SubDevRead == \E n \in 1..MaxRead :
    LET r == SubRead(dev, sub, n) IN
    /\ dev' = r.dev /\ sub' = r.sub /\ moved' = r.moved
    /\ UNCHANGED <<fence, block>>

\* whio_dev_subdev_seek(): any whence; the parent's cursor goes along and stays.
\* whio_dev_size() of a sub-device ends with such a seek to where it was.
SubDevSeek == \E p \in Position :
    /\ sub' = [sub EXCEPT !.pos = p] /\ dev' = Seek(dev, p) /\ moved' = <<>>
    /\ UNCHANGED <<fence, block>>

\* whio_dev_subdev_create(), whio_dev_subdev_rebound()
SubDevRebound == \E b \in Bounds :
    /\ sub' = [lower |-> b[1], upper |-> b[2], pos |-> b[1]] /\ moved' = <<>>
    /\ UNCHANGED <<dev, fence, block>>

-----------------------------------------------------------------------------
(* The block device *)

\* Mutant: block id starts at byte id.
OffsetOfByte(id) == id

\* whio_block_offset_for_id(), for an id that is in range.
BlockOffset(id) == id * BlockSize

\* The fence is sought to block id: its parent's cursor goes along.
AtBlock(id) == [fence EXCEPT !.pos = fence.lower + BlockOffset(id)]

\* whio_blockdev_write(), and whio_blockdev_wipe() when w is the prototype.
BlockWrite == \E id \in BlockId, w \in [1..BlockSize -> Byte] :
    LET f == AtBlock(id)
        r == SubWrite(Seek(dev, f.pos), f, w)
    IN
    /\ dev' = r.dev /\ fence' = r.sub /\ moved' = r.moved
    /\ block' = [block EXCEPT ![id] = IF r.moved = w THEN w ELSE <<>>]
    /\ UNCHANGED sub

\* whio_blockdev_read()
BlockRead == \E id \in BlockId :
    LET f == AtBlock(id)
        r == SubRead(Seek(dev, f.pos), f, BlockSize)
    IN
    /\ dev' = r.dev /\ fence' = r.sub /\ moved' = r.moved
    /\ UNCHANGED <<sub, block>>

-----------------------------------------------------------------------------
Next ==
    \/ DevWrite \/ DevRead \/ DevSeek \/ DevTruncate
    \/ SubDevWrite \/ SubDevRead \/ SubDevSeek \/ SubDevRebound
    \/ BlockWrite \/ BlockRead

Spec == Init /\ [][Next]_vars

\* Every device and every view of it stays well formed: in particular the size
\* of a memory device never passes the memory it has, which growing, shrinking
\* and refused writes in any order could bring about; and a file's is all of it.
DevicesOK ==
    /\ dev.kind \in Kinds /\ dev.buf \in Seq(Byte)
    /\ dev.pos \in Nat /\ dev.size \in Nat
    /\ dev.size <= Len(dev.buf) /\ (dev.kind = "file" => dev.size = Len(dev.buf))
    /\ sub.pos \in Nat /\ <<sub.lower, sub.upper>> \in Bounds
    /\ fence.pos \in fence.lower..fence.upper
    /\ moved \in Seq(Byte)

\* A block that whio_blockdev_write() reported as written holds what was written
\* until it is written again or somebody passes by the block device: no write
\* of another block, whole or cut short, touches it.
BlocksKept == \A id \in BlockId :
    block[id] # <<>> =>
        /\ dev.size >= BlocksAt + (id + 1) * BlockSize
        /\ SubSeq(Bytes(dev), BlocksAt + id * BlockSize + 1, BlocksAt + (id + 1) * BlockSize) = block[id]

\* No bound of a view or of a client is farther.
Farthest == MaxSize + BlocksAt + BlockCount * BlockSize

\* The views of the device: the whole of it, the sub-device and the fence.
Window == [
    dev   |-> [lo |-> 0, hi |-> Farthest],
    sub   |-> [lo |-> sub.lower, hi |-> sub.upper],
    fence |-> [lo |-> fence.lower, hi |-> fence.upper]]

D == INSTANCE Device WITH
    View <- {"dev", "sub", "fence"}, Whole <- "dev", Placed <- {"fence"}, MaxPos <- Farthest,
    bytes <- Bytes(dev),
    at <- [dev |-> dev.pos, sub |-> sub.pos, fence |-> fence.pos],
    window <- Window

\* Every kind of device, with its sub-device and its block device, keeps the
\* promise of the interface as the code has it: bytes change only where a call
\* reports them written, inside the bounds of the view it used, what is read is
\* what is there, and a transfer through the device or the sub-device moves no
\* other cursor.  Two things are not as whio_devs.h says: a sub-device whose
\* upper bound is 0 transfers nothing (lines 335-337: unlimited), and a seek of
\* a view, which every transfer of the block device begins with, leaves the
\* device's own cursor at the place sought (lines 373-374: independent).
DeviceSpec == D!Spec
=============================================================================
