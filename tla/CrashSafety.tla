---------------------------- MODULE CrashSafety ----------------------------
(***************************************************************************)
(* A crash in the middle of a call of the library.  Each call is the        *)
(* sequence of records it writes to the container, in the order             *)
(* whefs_nodedev.c, whefs_block.c and whefs_inode.c write them; the writes  *)
(* reach the disk one by one, and a crash forgets the rest.                 *)
(*                                                                          *)
(* A crash in the middle of a wipe leaves an inode that still leads to      *)
(* blocks already free.  The calls go on after it: those blocks are handed  *)
(* out again, and the torn inode shares them with the file that got them.   *)
(* `spoiled' is the history of whom that may have harmed.                   *)
(*                                                                          *)
(* Sizes are counted in whole blocks, a file is open once at most, and no   *)
(* session ends with whefs_fs_finalize(): after a crash the hint is the one *)
(* whefs_mkfs() left on disk.  NodeDev has what is left out.                *)
(***************************************************************************)
EXTENDS BlockStore

CONSTANTS
    InodeCount,  \* whefs_fs_options.inode_count
    MaxCrashes,  \* bound: the crashes of one behaviour
    MaxHarms     \* bound: the calls of one behaviour that change a spoiled file

ASSUME CrashSafetyAssumption ==
    InodeCount \in Nat \ {0} /\ MaxCrashes \in Nat /\ MaxHarms \in Nat

VARIABLES
    disk,     \* inode |-> its on-disk record
    mem,      \* inode |-> the opened inode: first_block, data_size, and its block
              \* list: the ids, the positions cached without the flag Used, and
              \* the next_block cached with the last one
    todo,     \* the writes the call in progress still has to make
    busy,     \* the inode that call is about (0: none), and what it does
    torn,     \* history: a crash came in the middle of a wipe
    spoiled,  \* history: the inodes a torn wipe may have harmed
    grown,    \* history: the inodes truncated to a larger size
    crashes,
    harms     \* the calls so far that changed a spoiled file

vars == <<used, next, blockHint, disk, mem, todo, busy, torn, spoiled, grown, crashes, harms>>

Inode == 2 .. InodeCount
NoInode == 0

DiskInode == [used: BOOLEAN, first: Block \cup {NoBlock}, size: 0 .. BlockCount]
Unused == [used |-> FALSE, first |-> NoBlock, size |-> 0]
MemInode == [open: BOOLEAN, first: Block \cup {NoBlock}, size: 0 .. BlockCount,
             list: Seq(Block), unmarked: SUBSET (1 .. BlockCount), after: Block \cup {NoBlock}]
NotOpened == [open |-> FALSE, first |-> NoBlock, size |-> 0,
              list |-> <<>>, unmarked |-> {}, after |-> NoBlock]

\* One record written: a block's flags and next_block, or an inode.
BlockWrite(b, u, n) == [kind |-> "block", id |-> b, used |-> u, next |-> n]
InodeWrite(i, rec) == [kind |-> "inode", id |-> i, rec |-> rec]

Idle == [inode |-> NoInode, op |-> "none"]

TypeOK ==
    /\ BlockTypeOK
    /\ disk \in [Inode -> DiskInode]
    /\ mem \in [Inode -> MemInode]
    /\ \A k \in DOMAIN todo : todo[k].kind \in {"block", "inode"}
    /\ busy \in [inode: Inode \cup {NoInode}, op: {"none", "write", "wipe"}]
    /\ torn \in BOOLEAN /\ spoiled \subseteq Inode /\ grown \subseteq Inode
    /\ crashes \in 0 .. MaxCrashes /\ harms \in 0 .. MaxHarms

Init ==
    /\ BlockInit
    /\ disk = [i \in Inode |-> Unused]
    /\ mem = [i \in Inode |-> NotOpened]
    /\ todo = <<>>
    /\ busy = Idle
    /\ torn = FALSE /\ spoiled = {} /\ grown = {}
    /\ crashes = 0 /\ harms = 0

\* A call on inode i begins: no other one is in progress.
Begin(i, op, writes) ==
    /\ todo = <<>>
    /\ busy' = IF writes = <<>> THEN Idle ELSE [inode |-> i, op |-> op]
    /\ todo' = writes
    /\ UNCHANGED <<used, next, disk, torn, crashes>>

FileChain(i) == Reach(next, disk[i].first)

\* What a call that changes file i may reach: its chain, and what its block
\* list leads to.
Held(i) == FileChain(i) \cup UNION {Reach(next, b) :
               b \in {mem[i].list[k] : k \in DOMAIN mem[i].list} \cup {mem[i].after}}

\* A call that changes a spoiled file may harm the files it shares blocks with.
Spoils(i) == IF i \in spoiled THEN {j \in Inode : FileChain(j) \cap Held(i) # {}} ELSE {}

-----------------------------------------------------------------------------
(* The calls.                                                               *)

\* whefs_inode_next_free(): the used flag of the first free inode is written.
\* whefs_inode_open() then makes the shared record.
Create(i) ==
    /\ ~disk[i].used /\ \A j \in Inode : j < i => disk[j].used
    /\ Begin(i, "write", <<InodeWrite(i, [Unused EXCEPT !.used = TRUE])>>)
    /\ mem' = [mem EXCEPT ![i] = [NotOpened EXCEPT !.open = TRUE]]
    /\ spoiled' = spoiled \ {i}
    /\ UNCHANGED <<blockHint, grown>>

\* whefs_inode_open() of a file there is, and its block list.  A chain
\* that runs in a circle (one of a spoiled file) has no such list: the call that
\* loads it never returns.
OpenFile(i) ==
    /\ disk[i].used /\ ~mem[i].open
    /\ \E l \in ChainLists(disk[i].first) :
        mem' = [mem EXCEPT ![i] =
                    [open |-> TRUE, first |-> disk[i].first, size |-> disk[i].size, list |-> l,
                     unmarked |-> {k \in DOMAIN l : l[k] \notin used}, after |-> NoBlock]]
    /\ Begin(i, "write", <<>>)
    /\ UNCHANGED <<blockHint, spoiled, grown>>

RecordOf(m) == [used |-> TRUE, first |-> m.first, size |-> m.size]

\* The block at position k of a list, flushed with its cached flags.
Flushed(m, k, n) == BlockWrite(m.list[k], k \notin m.unmarked, n)

\* What leads to block b: the record of an inode that had no block, or the
\* block that was the last one.  One that leads elsewhere already is an error.
LinkWrites(i, m, b) ==
    IF m.list = <<>> THEN <<InodeWrite(i, RecordOf([m EXCEPT !.first = b]))>>
    ELSE IF m.after = NoBlock THEN <<Flushed(m, Len(m.list), b)>>
    ELSE <<>>

\* Mutated form of AppendWrites: the block is linked before it is marked used.
AppendWritesLinkFirst(i, m, b) == LinkWrites(i, m, b) \o <<BlockWrite(b, TRUE, next[b])>>

\* whefs_block_for_pos() takes a block and marks it used, keeping its
\* next_block; then whefs_inode_block_list_append() writes what leads to it.
AppendWrites(i, m, b) == <<BlockWrite(b, TRUE, next[b])>> \o LinkWrites(i, m, b)

\* The opened inode after that: unchanged by the error.
WithBlock(m, b) ==
    IF m.after \in {NoBlock, b}
    THEN [m EXCEPT !.list = Append(@, b), !.first = IF @ = NoBlock THEN b ELSE @, !.after = next[b]]
    ELSE m

\* A free block that still leads on was left by a spoiled file.
Handed(i, b) == IF next[b] # NoBlock THEN {i} ELSE {}

\* Mutated form of WriteBlock: the new size is flushed before the block is linked.
WriteBlockSizeFirst(i) ==
    /\ mem[i].open /\ Len(mem[i].list) < BlockCount
    /\ \E s \in Taken(1) : \E b \in {s[k] : k \in DOMAIN s} :
        /\ LET m == [mem[i] EXCEPT !.size = Len(mem[i].list) + 1]
           IN  /\ Begin(i, "write", <<InodeWrite(i, RecordOf(m))>> \o AppendWrites(i, m, b))
               /\ mem' = [mem EXCEPT ![i] = WithBlock(m, b)]
        /\ blockHint' = b + 1
        /\ spoiled' = spoiled \cup Spoils(i) \cup Handed(i, b)
    /\ UNCHANGED grown

\* whio_dev_inode_write() of one block behind the end of the chain; the new
\* size stays in memory.
WriteBlock(i) ==
    /\ mem[i].open /\ Len(mem[i].list) < BlockCount
    /\ \E s \in Taken(1) : \E b \in {s[k] : k \in DOMAIN s} :
        LET m == WithBlock(mem[i], b)
        IN  /\ Begin(i, "write", AppendWrites(i, mem[i], b))
            /\ mem' = [mem EXCEPT ![i] = [m EXCEPT
                   !.size = IF m.list = mem[i].list THEN @ ELSE Len(m.list)]]
            /\ blockHint' = b + 1
            /\ spoiled' = spoiled \cup Spoils(i) \cup Handed(i, b)
    /\ UNCHANGED grown

\* whio_dev_inode_trunc() to one block more: the size is flushed before the
\* block is looked for, and stays when there is none.
TruncateUp(i) ==
    LET m == [mem[i] EXCEPT !.size = @ + 1]
    IN  /\ mem[i].open
        /\ m.size = Len(mem[i].list) + 1
        /\ m.size <= BlockCount
        /\ grown' = grown \cup {i}
        /\ \/ /\ Taken(1) = {<<>>}
              /\ Begin(i, "write", <<InodeWrite(i, RecordOf(m))>>)
              /\ mem' = [mem EXCEPT ![i] = m]
              /\ UNCHANGED <<blockHint, spoiled>>
           \/ \E s \in Taken(1) : \E b \in {s[k] : k \in DOMAIN s} :
              /\ Begin(i, "write", <<InodeWrite(i, RecordOf(m))>> \o AppendWrites(i, m, b))
              /\ mem' = [mem EXCEPT ![i] = WithBlock(m, b)]
              /\ blockHint' = b + 1
              /\ spoiled' = spoiled \cup Spoils(i) \cup Handed(i, b)

\* whio_dev_inode_flush(), and whefs_inode_close() of a writer.
CloseFile(i) ==
    /\ mem[i].open
    /\ Begin(i, "write", <<InodeWrite(i, RecordOf(mem[i]))>>)
    /\ mem' = [mem EXCEPT ![i] = NotOpened]
    /\ UNCHANGED <<blockHint, spoiled, grown>>

\* Mutated form of WipeWrites: the chain is forgotten, only its head is wiped.
WipeWritesHeadOnly(l) ==
    [k \in 1 .. Least(Len(l), 1) |-> BlockWrite(l[1], FALSE, NoBlock)]

\* whefs_block_wipe(), deep: the successors in order, the block itself last.
WipeWrites(l) ==
    [k \in 1 .. Len(l) |-> BlockWrite(IF k < Len(l) THEN l[k+1] ELSE l[1], FALSE, NoBlock)]

\* The blocks whefs_block_wipe() meets from block b, in order.  A chain that runs
\* in a circle ends where the wipe comes to a block it has cleared.
ChainWalks(b) ==
    {l \in [1 .. Cardinality(Reach(next, b)) -> Reach(next, b)] :
        /\ l # <<>> => l[1] = b
        /\ \A k \in 1 .. Len(l) - 1 : next[l[k]] = l[k+1]
        /\ \A j, k \in DOMAIN l : l[j] = l[k] => j = k}

Lowest(l) == CHOOSE h \in {blockHint} \cup {l[k] : k \in DOMAIN l} :
                \A k \in DOMAIN l : h <= l[k] /\ h <= blockHint

\* whio_dev_inode_trunc() to fewer blocks: the size, the wiped tail, and the
\* end of the chain last.  The first block of the tail is the cached one; the
\* wipe reads the rest from the disk.
TruncateDown(i, n) ==
    LET m == mem[i]
        second == IF n + 2 <= Len(m.list) THEN m.list[n+2] ELSE m.after
    IN  /\ m.open
        /\ n \in 1 .. Len(m.list) - 1 /\ n < m.size
        /\ \E l \in ChainWalks(second) :
            LET tail == <<m.list[n+1]>> \o l
            IN  /\ Begin(i, "wipe", <<InodeWrite(i, [RecordOf(m) EXCEPT !.size = n])>>
                                    \o WipeWrites(tail)
                                    \o <<Flushed(m, n, NoBlock)>>)
                /\ blockHint' = Lowest(tail)
        /\ mem' = [mem EXCEPT ![i] = [m EXCEPT !.size = n, !.list = SubSeq(@, 1, n),
                                              !.unmarked = @ \cap 1 .. n, !.after = NoBlock]]
        /\ spoiled' = spoiled \cup Spoils(i)
        /\ UNCHANGED grown

\* whefs_inode_unlink(): the chain is wiped, then the record is cleared.
Unlink(i) ==
    /\ disk[i].used /\ ~mem[i].open
    /\ \E l \in ChainWalks(disk[i].first) :
        /\ Begin(i, "wipe", WipeWrites(l) \o <<InodeWrite(i, Unused)>>)
        /\ blockHint' = Lowest(l)
    /\ grown' = grown \ {i}
    /\ spoiled' = spoiled \cup Spoils(i)
    /\ UNCHANGED mem

-----------------------------------------------------------------------------
\* The next record reaches the disk.
WriteRecord ==
    /\ todo # <<>>
    /\ LET w == Head(todo)
       IN  IF w.kind = "block"
           THEN /\ used' = IF w.used THEN used \cup {w.id} ELSE used \ {w.id}
                /\ next' = [next EXCEPT ![w.id] = w.next]
                /\ UNCHANGED disk
           ELSE /\ disk' = [disk EXCEPT ![w.id] = w.rec]
                /\ UNCHANGED <<used, next>>
    /\ todo' = Tail(todo)
    /\ busy' = IF Tail(todo) = <<>> THEN Idle ELSE busy
    /\ UNCHANGED <<blockHint, mem, torn, spoiled, grown, crashes, harms>>

Crash ==
    /\ crashes < MaxCrashes
    /\ crashes' = crashes + 1
    /\ mem' = [i \in Inode |-> NotOpened]
    /\ todo' = <<>>
    /\ busy' = Idle
    /\ blockHint' = 1
    /\ IF busy.op = "wipe"
       THEN torn' = TRUE /\ spoiled' = spoiled \cup {busy.inode}
       ELSE UNCHANGED <<torn, spoiled>>
    /\ UNCHANGED <<used, next, disk, grown, harms>>

Change(i) ==
    /\ \/ WriteBlock(i)
       \/ TruncateUp(i)
       \/ \E n \in 1 .. BlockCount : TruncateDown(i, n)
       \/ Unlink(i)
    /\ harms' = IF i \in spoiled THEN harms + 1 ELSE harms
    /\ harms' <= MaxHarms

Next ==
    \/ \E i \in Inode : Change(i)
    \/ \E i \in Inode : (Create(i) \/ OpenFile(i) \/ CloseFile(i)) /\ UNCHANGED harms
    \/ WriteRecord
    \/ Crash

Spec == Init /\ [][Next]_vars

-----------------------------------------------------------------------------
(* Properties.                                                              *)

Reachable == UNION {FileChain(i) : i \in Inode}

\* A crash in a call that does not wipe costs one block at most: the one that
\* was marked used and not yet linked.
LeakBounded ==
    ~torn /\ busy = Idle => Cardinality(used \ Reachable) <= crashes

\* The size on disk never promises blocks the chain does not have, at no
\* moment a crash can hit: the size is flushed after the blocks when a file
\* grows by writing and before them when it shrinks.  Growing by truncation
\* does it the other way round and is left out, and so are spoiled files.
SizeBackedAfterCrash ==
    \A i \in Inode \ (grown \cup spoiled) :
        disk[i].size <= Cardinality(FileChain(i)) \/ busy = [inode |-> i, op |-> "wipe"]

\* Between any two writes of any call, and so after a crash there, a file that
\* no torn wipe may have harmed reaches used blocks only, and shares none with
\* another such file.  The inode of a torn wipe does share the blocks it still
\* leads to with whoever is handed them next.  That harms nobody until the torn
\* file itself is written, truncated or unlinked; then it harms the files it
\* reaches, and those that are handed a free block it left a link in.
TornWipeContained ==
    \A i, j \in Inode \ spoiled :
        /\ busy # [inode |-> i, op |-> "wipe"] => FileChain(i) \subseteq used
        /\ i # j => FileChain(i) \cap FileChain(j) = {}
=============================================================================
