---------------------------- MODULE NodeDevProofs ----------------------------
(***************************************************************************)
(* Theorems about NodeDev and FileData, for any number of blocks, inodes    *)
(* and devices: the records and chains of NodeDev first, then the bytes,    *)
(* and that FileData implements Files.                                      *)
(***************************************************************************)
EXTENDS FileData, BlockStoreProofs

-----------------------------------------------------------------------------
(* Positions and lists.                                                     *)

LEMMA BlocksForType ==
  ASSUME NEW pos \in Nat
  PROVE  BlocksFor(pos) \in Nat \ {0}
<1>1. pos \div BlockSize \in Nat
  BY NodeDevAssumption
<1> QED BY <1>1 DEF BlocksFor

LEMMA OpenedType ==
  ASSUME TypeOK, NEW i \in Inode
  PROVE  /\ opened[i] \in OpenInode
         /\ opened[i].count \in Nat
         /\ opened[i].writer \in Handle \cup {NoHandle}
         /\ opened[i].first \in Block \cup {NoBlock}
         /\ opened[i].size \in Pos
         /\ opened[i].list \in Seq(Block)
BY DEF TypeOK, OpenInode

LEMMA EmptyTaken == ASSUME BlockTypeOK PROVE <<>> \in Taken(0)
<1>1. Available \in SUBSET Block
  BY DEF Available
<1>2. Least(0, Cardinality(Available)) = 0
  BY <1>1, BlockFinite DEF Least
<1>3. <<>> \in [1 .. 0 -> Available] /\ DOMAIN <<>> = {}
  OBVIOUS
<1> QED BY <1>2, <1>3 DEF Taken

\* The list a block is looked for in holds blocks.
LEMMA ListForType ==
  ASSUME TypeOK, NEW m \in OpenInode, NEW n \in Nat, NEW l \in ListFor(m, n)
  PROVE  l \in Seq(Block)
<1>1. CASE l \in ChainLists(m.first)
  BY <1>1, ChainListsType DEF TypeOK, OpenInode
<1>2. CASE l = m.list
  BY <1>2 DEF OpenInode
<1> QED BY <1>1, <1>2 DEF ListFor

\* The new blocks are what some number of allocator calls hand out.
LEMMA NewBlocksTaken ==
  ASSUME TypeOK, NEW l \in Seq(Block), NEW n \in Nat, NEW s \in NewBlocks(l, n)
  PROVE  \E q \in Nat : s \in Taken(q)
<1>1. CASE n <= Len(l) \/ n > BlockCount
  BY <1>1, EmptyTaken DEF NewBlocks, TypeOK
<1>2. CASE ~(n <= Len(l) \/ n > BlockCount)
  <2>1. n - Len(l) \in Nat
    BY <1>2, BlockCountAssumption
  <2> QED BY <1>2, <2>1 DEF NewBlocks
<1> QED BY <1>1, <1>2

\* Growing a list keeps the types of the links and of the record.
LEMMA GrownType ==
  ASSUME TypeOK, NEW m \in OpenInode, NEW l \in Seq(Block), NEW n \in Nat,
         NEW s \in NewBlocks(l, n)
  PROVE  /\ Extended(l, s) \in Seq(Block)
         /\ Linked(l, s) \in [Block -> Block \cup {NoBlock}]
         /\ Attached(m, l, s) \in OpenInode
         /\ Attached(m, l, s).count = m.count
         /\ Attached(m, l, s).writer = m.writer
         /\ Attached(m, l, s).size = m.size
         /\ Attached(m, l, s).list = Extended(l, s)
<1>1. s \in Seq(Block)
  BY NewBlocksTaken, TakenProperties DEF TypeOK
<1> DEFINE e == Extended(l, s)
<1>2. e \in Seq(Block)
  BY <1>1 DEF Extended
<1>3. Linked(l, s) \in [Block -> Block \cup {NoBlock}]
  <2> DEFINE From(b) == {k \in 1 .. Len(e) - 1 : k >= Len(l) /\ e[k] = b}
  <2>1. ASSUME NEW b \in Block
        PROVE  (IF From(b) = {} THEN next[b] ELSE e[1 + CHOOSE k \in From(b) : TRUE])
                  \in Block \cup {NoBlock}
    <3>1. CASE From(b) = {}
      BY <3>1 DEF TypeOK, BlockTypeOK
    <3>2. CASE From(b) # {}
      <4>1. (CHOOSE k \in From(b) : TRUE) \in From(b)
        BY <3>2
      <4>2. PICK k : k = CHOOSE c \in From(b) : TRUE
        OBVIOUS
      <4>3. k \in 1 .. Len(e) - 1
        BY <4>1, <4>2
      <4>4. e[1 + k] \in Block
        BY <1>2, <4>3
      <4> QED BY <3>2, <4>2, <4>4
    <3> QED BY <3>1, <3>2
  <2> HIDE DEF From
  <2>2. [b \in Block |-> IF From(b) = {} THEN next[b] ELSE e[1 + CHOOSE k \in From(b) : TRUE]]
          \in [Block -> Block \cup {NoBlock}]
    BY <2>1
  <2> QED BY <2>2 DEF Linked, From
<1>4. e # <<>> => e[1] \in Block
  BY <1>2
<1> HIDE DEF e
<1>5. Attached(m, l, s) = [m EXCEPT !.list = e, !.first = IF @ = NoBlock /\ e # <<>> THEN e[1] ELSE @]
  BY DEF Attached, e
<1>6. /\ Attached(m, l, s) \in OpenInode
      /\ Attached(m, l, s).count = m.count
      /\ Attached(m, l, s).writer = m.writer
      /\ Attached(m, l, s).size = m.size
      /\ Attached(m, l, s).list = e
  BY <1>2, <1>4, <1>5 DEF OpenInode
<1> QED BY <1>2, <1>3, <1>6 DEF e

-----------------------------------------------------------------------------
(* Devices and the records they share.                                      *)

\* A device without an inode is not writable.
ClosedDevs == \A h \in Handle : handle[h].inode = NoInode => handle[h] = NoDev

\* The inductive invariant of the records: who holds an entry, and how the
\* entry relates to the disk, depend on each other (a new inode must not be
\* opened already; the device that flushes last must be the writer).
RecordInv == TypeOK /\ ClosedDevs /\ OpenersCounted /\ RecordInSync

LEMMA UsersFinite == \A i : IsFiniteSet(Users(i))
<1>1. ASSUME NEW i PROVE IsFiniteSet(Users(i))
  <2>1. Users(i) \in SUBSET Handle
    BY DEF Users
  <2> QED BY <2>1, NodeDevAssumption, FS_Subset
<1> QED BY <1>1

\* What an open device knows of its inode.
LEMMA Holder ==
  ASSUME RecordInv, NEW h \in Handle, handle[h] # NoDev, NEW i, i = handle[h].inode
  PROVE  /\ i \in Inode
         /\ h \in Users(i)
         /\ opened[i].count \in Nat \ {0}
         /\ handle[h].rw => opened[i].writer = h
         /\ opened[i].writer = h => handle[h].rw
         /\ h # NoHandle
         /\ disk[i].used
         /\ disk[i].first = opened[i].first
<1>1. i \in Inode
  BY DEF RecordInv, ClosedDevs, TypeOK
<1>2. h \in Users(i)
  BY DEF Users
<1>3. opened[i].count = Cardinality(Users(i)) /\ Cardinality(Users(i)) # 0
  BY <1>1, <1>2, UsersFinite, FS_EmptySet DEF RecordInv, OpenersCounted
<1>4. opened[i].count \in Nat \ {0}
  BY <1>1, <1>3, OpenedType DEF RecordInv
<1>5. h # NoHandle
  BY NodeDevAssumption
<1>6. {g \in Users(i) : handle[g].rw} = {opened[i].writer} \ {NoHandle}
  BY <1>1 DEF RecordInv, OpenersCounted
<1>7. (handle[h].rw => opened[i].writer = h) /\ (opened[i].writer = h => handle[h].rw)
  BY <1>2, <1>5, <1>6
<1>8. disk[i].used /\ disk[i].first = opened[i].first
  BY <1>1, <1>4 DEF RecordInv, RecordInSync
<1> QED BY <1>1, <1>2, <1>4, <1>5, <1>7, <1>8

\* A call on an open device that changes only the record of its inode, and
\* flushes what must not wait, keeps the invariant.
LEMMA RecordStep ==
  ASSUME RecordInv, NEW h \in Handle, handle[h] # NoDev, NEW i, i = handle[h].inode,
         NEW r \in OpenInode,
         r.count = opened[i].count, r.writer = opened[i].writer,
         opened' = [opened EXCEPT ![i] = r],
         handle' = handle, inodeHint' = inodeHint, BlockTypeOK',
         disk' \in [Inode -> DiskInode],
         \A j \in Inode \ {i} : disk'[j] = disk[j],
         disk'[i].used, disk'[i].first = r.first,
         r.writer = NoHandle => disk'[i].size = r.size
  PROVE  RecordInv'
<1>1. i \in Inode
  BY Holder
<1>2. /\ \A j \in Inode \ {i} : opened'[j] = opened[j]
      /\ opened'[i] = r
      /\ opened' \in [Inode -> OpenInode]
  BY <1>1 DEF RecordInv, TypeOK
<1>3. TypeOK'
  BY <1>2 DEF RecordInv, TypeOK
<1>4. ClosedDevs'
  BY DEF RecordInv, ClosedDevs
<1>5. OpenersCounted'
  <2>1. \A j : Users(j)' = Users(j)
    BY DEF Users
  <2>2. \A j \in Inode : opened'[j].count = opened[j].count /\ opened'[j].writer = opened[j].writer
    BY <1>2
  <2> QED BY <2>1, <2>2 DEF RecordInv, OpenersCounted
<1>6. RecordInSync'
  <2>1. ASSUME NEW j \in Inode, opened'[j].count > 0
        PROVE  /\ disk'[j].used
               /\ disk'[j].first = opened'[j].first
               /\ opened'[j].writer = NoHandle => disk'[j].size = opened'[j].size
    <3>1. CASE j = i
      BY <1>2, <3>1
    <3>2. CASE j # i
      BY <1>2, <2>1, <3>2 DEF RecordInv, RecordInSync
    <3> QED BY <3>1, <3>2
  <2> QED BY <2>1 DEF RecordInSync
<1> QED BY <1>3, <1>4, <1>5, <1>6 DEF RecordInv

\* A flush writes the record as it is in memory.
LEMMA FlushedType ==
  ASSUME TypeOK, NEW i \in Inode, NEW m \in OpenInode
  PROVE  /\ Flushed(i, m) \in [Inode -> DiskInode]
         /\ \A j \in Inode \ {i} : Flushed(i, m)[j] = disk[j]
         /\ Flushed(i, m)[i] = [used |-> TRUE, first |-> m.first, size |-> m.size]
BY DEF TypeOK, DiskInode, OpenInode, Flushed

-----------------------------------------------------------------------------
(* Each call keeps the invariant.                                           *)

LEMMA OpenedOneMore ==
  ASSUME RecordInv, NEW h \in Handle, handle[h] = NoDev, NEW i \in Inode, NEW w \in BOOLEAN,
         w => opened[i].writer = NoHandle,
         opened[i].count = 0 => opened[i].writer = NoHandle,
         disk' \in [Inode -> DiskInode], \A j \in Inode \ {i} : disk'[j] = disk[j],
         disk'[i].first = disk[i].first, disk'[i].size = disk[i].size, disk'[i].used,
         opened' = [opened EXCEPT ![i] = WithOpener(i, disk[i], h, w)],
         handle' = [handle EXCEPT ![h] = [inode |-> i, rw |-> w]],
         inodeHint' \in 2 .. InodeCount + 1, BlockTypeOK'
  PROVE  RecordInv'
<1> DEFINE r == WithOpener(i, disk[i], h, w)
<1>1. opened[i] \in OpenInode /\ disk[i] \in DiskInode
  BY OpenedType DEF RecordInv, TypeOK
<1>2. /\ r \in OpenInode
      /\ r.count = opened[i].count + 1
      /\ r.writer = IF w THEN h ELSE opened[i].writer
      /\ opened[i].count = 0 => r.first = disk[i].first /\ r.size = disk[i].size
      /\ opened[i].count # 0 => r.first = opened[i].first /\ r.size = opened[i].size
  <2>1. CASE opened[i].count = 0
    <3>1. r = [count |-> 1, writer |-> IF w THEN h ELSE NoHandle,
               first |-> disk[i].first, size |-> disk[i].size, list |-> <<>>]
      BY <2>1 DEF WithOpener
    <3>2. <<>> \in Seq(Block) /\ (IF w THEN h ELSE NoHandle) \in Handle \cup {NoHandle}
      OBVIOUS
    <3> HIDE DEF r
    <3> QED BY <1>1, <2>1, <3>1, <3>2 DEF OpenInode, DiskInode
  <2>2. CASE opened[i].count # 0
    <3> DEFINE v == IF w THEN h ELSE opened[i].writer
    <3>1. r = [opened[i] EXCEPT !.count = opened[i].count + 1, !.writer = v]
      BY <2>2 DEF WithOpener
    <3>2. v \in Handle \cup {NoHandle} /\ opened[i].count + 1 \in Nat
      BY <1>1 DEF OpenInode
    <3> HIDE DEF r, v
    <3>3. /\ r \in OpenInode
          /\ r.count = opened[i].count + 1 /\ r.writer = v
          /\ r.first = opened[i].first /\ r.size = opened[i].size
      BY <1>1, <3>1, <3>2 DEF OpenInode
    <3> QED BY <2>2, <3>3 DEF v
  <2> QED BY <2>1, <2>2
<1> HIDE DEF r
<1>3. /\ opened' \in [Inode -> OpenInode]
      /\ opened'[i] = r
      /\ \A j \in Inode \ {i} : opened'[j] = opened[j]
  BY <1>2 DEF RecordInv, TypeOK, r
<1>4. /\ handle' \in [Handle -> [inode: Inode \cup {NoInode}, rw: BOOLEAN]]
      /\ handle'[h] = [inode |-> i, rw |-> w]
      /\ \A g \in Handle \ {h} : handle'[g] = handle[g]
  BY DEF RecordInv, TypeOK
<1>5. TypeOK'
  BY <1>3, <1>4 DEF TypeOK
<1>6. i # NoInode /\ \A j \in Inode : j # NoInode
  BY DEF Inode, NoInode
<1>7. ClosedDevs'
  BY <1>4, <1>6 DEF RecordInv, ClosedDevs
<1>8. OpenersCounted'
  <2>1. h \notin Users(i) /\ Users(i)' = Users(i) \cup {h}
    BY <1>4, <1>6 DEF Users, NoDev
  <2>2. \A j \in Inode \ {i} : Users(j)' = Users(j) /\ h \notin Users(j)
    BY <1>4, <1>6 DEF Users, NoDev
  <2>3. opened'[i].count = Cardinality(Users(i)')
    <3>1. Cardinality(Users(i) \cup {h}) = Cardinality(Users(i)) + 1
      BY <2>1, UsersFinite, FS_AddElement
    <3> QED BY <1>2, <1>3, <2>1, <3>1 DEF RecordInv, OpenersCounted
  <2>4. {g \in Users(i)' : handle'[g].rw} = {opened'[i].writer} \ {NoHandle}
    <3>1. {g \in Users(i) : handle[g].rw} = {opened[i].writer} \ {NoHandle}
      BY DEF RecordInv, OpenersCounted
    <3>2. Users(i) \subseteq Handle \ {h} /\ h # NoHandle
      BY <2>1, NodeDevAssumption DEF Users
    <3>3. {g \in Users(i)' : handle'[g].rw}
            = {g \in Users(i) : handle[g].rw} \cup (IF w THEN {h} ELSE {})
      BY <1>4, <2>1, <3>2
    <3> QED BY <1>2, <1>3, <3>1, <3>2, <3>3
  <2>5. ASSUME NEW j \in Inode, j # i
        PROVE  /\ opened'[j].count = Cardinality(Users(j)')
               /\ {g \in Users(j)' : handle'[g].rw} = {opened'[j].writer} \ {NoHandle}
    <3>1. \A g \in Users(j) : g \in Handle \ {h}
      BY <2>2, <2>5 DEF Users
    <3> QED BY <1>3, <1>4, <2>2, <2>5, <3>1 DEF RecordInv, OpenersCounted
  <2> QED BY <2>3, <2>4, <2>5 DEF OpenersCounted
<1>9. RecordInSync'
  <2>1. CASE opened[i].count = 0
    BY <1>1, <1>2, <1>3, <2>1 DEF RecordInv, RecordInSync
  <2>2. CASE opened[i].count # 0
    <3>1. opened[i].count > 0
      BY <1>1, <2>2 DEF OpenInode
    <3>2. h # NoHandle
      BY NodeDevAssumption
    <3> QED BY <1>2, <1>3, <2>2, <3>1, <3>2 DEF RecordInv, RecordInSync
  <2> QED BY <2>1, <2>2
<1> QED BY <1>5, <1>7, <1>8, <1>9 DEF RecordInv

\* An inode nobody has opened has no writer.
LEMMA UnopenedWriter ==
  ASSUME RecordInv, NEW i \in Inode, opened[i].count = 0
  PROVE  opened[i].writer = NoHandle
<1>1. Users(i) = {}
  BY UsersFinite, FS_EmptySet DEF RecordInv, OpenersCounted
<1>2. {opened[i].writer} \ {NoHandle} = {}
  BY <1>1 DEF RecordInv, OpenersCounted
<1> QED BY <1>2

LEMMA OpenDevStep ==
  ASSUME RecordInv, NEW h \in Handle, NEW i \in Inode, NEW w \in BOOLEAN, OpenDev(h, i, w)
  PROVE  RecordInv'
<1>1. /\ handle[h] = NoDev /\ disk[i].used /\ (w => opened[i].writer = NoHandle)
      /\ opened' = [opened EXCEPT ![i] = WithOpener(i, disk[i], h, w)]
      /\ handle' = [handle EXCEPT ![h] = [inode |-> i, rw |-> w]]
      /\ disk' = disk /\ inodeHint' = inodeHint /\ UNCHANGED blockVars
  BY DEF OpenDev
<1>2. BlockTypeOK' /\ inodeHint' \in 2 .. InodeCount + 1 /\ disk' \in [Inode -> DiskInode]
  BY <1>1 DEF RecordInv, TypeOK, BlockTypeOK, blockVars
<1>3. opened[i].count = 0 => opened[i].writer = NoHandle
  BY UnopenedWriter
<1> QED BY <1>1, <1>2, <1>3, OpenedOneMore

LEMMA CreateDevStep ==
  ASSUME RecordInv, NEW h \in Handle, CreateDev(h)
  PROVE  RecordInv'
<1>1. PICK i \in FreeInodes :
        /\ disk' = [disk EXCEPT ![i].used = TRUE]
        /\ inodeHint' = i + 1
        /\ opened' = [opened EXCEPT ![i] = WithOpener(i, disk[i], h, TRUE)]
        /\ handle' = [handle EXCEPT ![h] = [inode |-> i, rw |-> TRUE]]
  BY DEF CreateDev
<1>2. i \in Inode /\ ~disk[i].used
  BY DEF FreeInodes
<1>3. handle[h] = NoDev /\ BlockTypeOK'
  BY DEF CreateDev, RecordInv, TypeOK, BlockTypeOK, blockVars
<1>4. opened[i].count = 0
  <2>1. opened[i].count \in Nat /\ ~(opened[i].count > 0)
    BY <1>2, OpenedType DEF RecordInv, RecordInSync
  <2> QED BY <2>1
<1>5. opened[i].writer = NoHandle
  BY <1>2, <1>4, UnopenedWriter
<1>6. /\ disk' \in [Inode -> DiskInode]
      /\ \A j \in Inode \ {i} : disk'[j] = disk[j]
      /\ disk'[i].first = disk[i].first /\ disk'[i].size = disk[i].size /\ disk'[i].used
  BY <1>1, <1>2 DEF RecordInv, TypeOK, DiskInode
<1>7. inodeHint' \in 2 .. InodeCount + 1
  BY <1>1, <1>2, NodeDevAssumption DEF Inode
<1> QED BY <1>1, <1>2, <1>3, <1>5, <1>6, <1>7, OpenedOneMore

LEMMA CloseDevStep ==
  ASSUME RecordInv, NEW h \in Handle, CloseDev(h)
  PROVE  RecordInv'
<1>0. PICK i : i = handle[h].inode
  OBVIOUS
<1> DEFINE m == opened[i]
           last == m.count = 1
           keep == IF m.writer = h THEN NoHandle ELSE m.writer
           r == IF last THEN NotOpen ELSE [m EXCEPT !.count = m.count - 1, !.writer = keep]
<1>1. /\ handle[h] # NoDev
      /\ disk' = IF handle[h].rw THEN Flushed(i, m) ELSE disk
      /\ opened' = [opened EXCEPT ![i] = r]
      /\ handle' = [handle EXCEPT ![h] = NoDev]
      /\ UNCHANGED <<blockVars, inodeHint>>
  BY <1>0 DEF CloseDev
<1>2. /\ i \in Inode /\ h \in Users(i) /\ m.count \in Nat \ {0}
      /\ handle[h].rw => m.writer = h
      /\ m.writer = h => handle[h].rw
      /\ h # NoHandle /\ disk[i].used /\ disk[i].first = m.first
  BY <1>0, <1>1, Holder
<1>3. m \in OpenInode
  BY <1>2, OpenedType DEF RecordInv
<1>4. /\ r \in OpenInode
      /\ r.count = m.count - 1
      /\ ~last => r.first = m.first /\ r.size = m.size /\ r.writer = keep
      /\ last => r.writer = NoHandle
  <2>1. CASE last
    <3>1. NotOpen \in OpenInode
      <4>1. <<>> \in Seq(Block) /\ 0 \in Pos
        BY NodeDevAssumption DEF Pos
      <4> QED BY <4>1 DEF NotOpen, OpenInode
    <3> QED BY <2>1, <3>1 DEF NotOpen
  <2>2. CASE ~last
    <3>1. keep \in Handle \cup {NoHandle} /\ m.count - 1 \in Nat
      BY <1>2, <1>3 DEF OpenInode
    <3>2. r = [m EXCEPT !.count = m.count - 1, !.writer = keep]
      BY <2>2
    <3> HIDE DEF r, m, keep, last
    <3> QED BY <1>3, <2>2, <3>1, <3>2 DEF OpenInode
  <2> QED BY <2>1, <2>2
<1> HIDE DEF r
<1>5. /\ opened' \in [Inode -> OpenInode] /\ opened'[i] = r
      /\ \A j \in Inode \ {i} : opened'[j] = opened[j]
  BY <1>1, <1>2, <1>4 DEF RecordInv, TypeOK
<1>6. /\ handle' \in [Handle -> [inode: Inode \cup {NoInode}, rw: BOOLEAN]]
      /\ handle'[h] = NoDev
      /\ \A g \in Handle \ {h} : handle'[g] = handle[g]
  BY <1>1 DEF RecordInv, TypeOK, NoDev
<1>7. /\ disk' \in [Inode -> DiskInode]
      /\ \A j \in Inode \ {i} : disk'[j] = disk[j]
      /\ disk'[i].used /\ disk'[i].first = m.first
      /\ handle[h].rw => disk'[i].size = m.size
      /\ ~handle[h].rw => disk'[i].size = disk[i].size
  <2>1. /\ Flushed(i, m) \in [Inode -> DiskInode]
        /\ \A j \in Inode \ {i} : Flushed(i, m)[j] = disk[j]
        /\ Flushed(i, m)[i] = [used |-> TRUE, first |-> m.first, size |-> m.size]
    BY <1>2, <1>3, FlushedType DEF RecordInv
  <2>2. disk \in [Inode -> DiskInode]
    BY DEF RecordInv, TypeOK
  <2> QED BY <1>1, <1>2, <2>1, <2>2
<1>8. TypeOK'
  BY <1>1, <1>5, <1>6, <1>7 DEF RecordInv, TypeOK, BlockTypeOK, blockVars
<1>9. ClosedDevs'
  BY <1>6 DEF RecordInv, ClosedDevs
<1>10. \A j \in Inode : j # NoInode
  BY DEF Inode, NoInode
<1>11. OpenersCounted'
  <2>1. Users(i)' = Users(i) \ {h}
    BY <1>0, <1>2, <1>6, <1>10 DEF Users, NoDev
  <2>2. \A j \in Inode \ {i} : Users(j)' = Users(j) /\ h \notin Users(j)
    BY <1>0, <1>2, <1>6, <1>10 DEF Users, NoDev
  <2>3. opened'[i].count = Cardinality(Users(i)')
    <3>1. Cardinality(Users(i) \ {h}) = Cardinality(Users(i)) - 1
      BY <1>2, UsersFinite, FS_RemoveElement
    <3>2. m.count = Cardinality(Users(i))
      BY <1>2 DEF RecordInv, OpenersCounted
    <3> QED BY <1>4, <1>5, <2>1, <3>1, <3>2
  <2>4. {g \in Users(i)' : handle'[g].rw} = {opened'[i].writer} \ {NoHandle}
    <3>1. {g \in Users(i) : handle[g].rw} = {m.writer} \ {NoHandle}
      BY <1>2 DEF RecordInv, OpenersCounted
    <3>2. {g \in Users(i)' : handle'[g].rw} = {g \in Users(i) : handle[g].rw} \ {h}
      BY <1>6, <2>1 DEF Users
    <3>3. CASE last
      <4>1. Cardinality(Users(i)) = 1
        BY <1>2, <3>3 DEF RecordInv, OpenersCounted
      <4>2. Users(i) = {h}
        BY <1>2, <4>1, UsersFinite, FS_Singleton
      <4> QED BY <1>4, <1>5, <2>1, <3>3, <4>2
    <3>4. CASE ~last
      BY <1>2, <1>4, <1>5, <3>1, <3>2, <3>4
    <3> QED BY <3>3, <3>4
  <2>5. ASSUME NEW j \in Inode, j # i
        PROVE  /\ opened'[j].count = Cardinality(Users(j)')
               /\ {g \in Users(j)' : handle'[g].rw} = {opened'[j].writer} \ {NoHandle}
    <3>1. \A g \in Users(j) : g \in Handle \ {h}
      BY <2>2, <2>5 DEF Users
    <3> QED BY <1>5, <1>6, <2>2, <2>5, <3>1 DEF RecordInv, OpenersCounted
  <2> QED BY <2>3, <2>4, <2>5 DEF OpenersCounted
<1>12. RecordInSync'
  <2>1. ASSUME NEW j \in Inode, opened'[j].count > 0
        PROVE  /\ disk'[j].used
               /\ disk'[j].first = opened'[j].first
               /\ opened'[j].writer = NoHandle => disk'[j].size = opened'[j].size
    <3>1. CASE j # i
      BY <1>5, <1>7, <2>1, <3>1 DEF RecordInv, RecordInSync
    <3>2. CASE j = i
      <4>1. ~last
        BY <1>4, <1>5, <2>1, <3>2
      <4>2. m.count > 0
        BY <1>2
      <4>3. m.writer = NoHandle => disk[i].size = m.size
        BY <1>2, <4>2 DEF RecordInv, RecordInSync
      <4> QED BY <1>2, <1>4, <1>5, <1>7, <3>2, <4>1, <4>3
    <3> QED BY <3>1, <3>2
  <2> QED BY <2>1 DEF RecordInSync
<1> QED BY <1>8, <1>9, <1>11, <1>12 DEF RecordInv

LEMMA FlushDevStep ==
  ASSUME RecordInv, NEW h \in Handle, FlushDev(h)
  PROVE  RecordInv'
<1>0. PICK i : i = handle[h].inode
  OBVIOUS
<1>1. /\ handle[h] # NoDev
      /\ disk' = Flushed(i, opened[i])
      /\ opened' = opened /\ handle' = handle /\ inodeHint' = inodeHint /\ UNCHANGED blockVars
  BY <1>0 DEF FlushDev, NoDev
<1>2. i \in Inode /\ opened[i] \in OpenInode
  BY <1>0, <1>1, Holder, OpenedType DEF RecordInv
<1>3. opened' = [opened EXCEPT ![i] = opened[i]]
  BY <1>1, <1>2 DEF RecordInv, TypeOK
<1>4. BlockTypeOK'
  BY <1>1 DEF RecordInv, TypeOK, BlockTypeOK, blockVars
<1>5. /\ disk' \in [Inode -> DiskInode]
      /\ \A j \in Inode \ {i} : disk'[j] = disk[j]
      /\ disk'[i] = [used |-> TRUE, first |-> opened[i].first, size |-> opened[i].size]
  BY <1>1, <1>2, FlushedType DEF RecordInv
<1>6. disk'[i].used /\ disk'[i].first = opened[i].first /\ disk'[i].size = opened[i].size
  BY <1>5
<1> QED BY <1>0, <1>1, <1>2, <1>3, <1>4, <1>5, <1>6, RecordStep

LEMMA ReadDevStep ==
  ASSUME RecordInv, NEW h \in Handle, NEW pos \in Pos, ReadDev(h, pos)
  PROVE  RecordInv'
<1>0. PICK i : i = handle[h].inode
  OBVIOUS
<1>1. /\ handle[h] # NoDev /\ disk' = disk /\ handle' = handle /\ inodeHint' = inodeHint
      /\ UNCHANGED blockVars
  BY DEF ReadDev
<1>2. PICK l \in ListFor(opened[i], 1) : opened' = [opened EXCEPT ![i].list = l]
  BY <1>0 DEF ReadDev
<1>3. i \in Inode /\ opened[i] \in OpenInode /\ opened[i].count > 0
      /\ disk[i].used /\ disk[i].first = opened[i].first
  BY <1>0, <1>1, Holder, OpenedType DEF RecordInv
<1>4. l \in Seq(Block)
  BY <1>3, ListForType DEF RecordInv
<1> DEFINE r == [opened[i] EXCEPT !.list = l]
<1>5. /\ r \in OpenInode /\ r.count = opened[i].count /\ r.writer = opened[i].writer
      /\ r.first = opened[i].first /\ r.size = opened[i].size
      /\ opened' = [opened EXCEPT ![i] = r]
  BY <1>2, <1>3, <1>4 DEF OpenInode
<1> HIDE DEF r
<1>6. BlockTypeOK' /\ disk' \in [Inode -> DiskInode]
  BY <1>1 DEF RecordInv, TypeOK, BlockTypeOK, blockVars
<1>7. r.writer = NoHandle => disk'[i].size = r.size
  BY <1>1, <1>3, <1>5 DEF RecordInv, RecordInSync
<1> QED BY <1>0, <1>1, <1>3, <1>5, <1>6, <1>7, RecordStep

\* The block table after a list has grown.
LEMMA GrownBlocks ==
  ASSUME TypeOK, NEW m \in OpenInode, NEW k \in Nat, NEW l \in ListFor(m, k),
         NEW n \in Nat, NEW s \in NewBlocks(l, n), MarkUsed(s), next' = Linked(l, s)
  PROVE  BlockTypeOK'
<1>1. l \in Seq(Block)
  BY ListForType
<1>2. PICK q \in Nat : s \in Taken(q)
  BY <1>1, NewBlocksTaken
<1>3. used' \subseteq Block /\ blockHint' \in 1 .. BlockCount + 1
  BY <1>2, MarkUsedKeepsHint DEF TypeOK
<1>4. next' \in [Block -> Block \cup {NoBlock}]
  BY <1>1, GrownType
<1> QED BY <1>3, <1>4 DEF BlockTypeOK

LEMMA SizeAfterWriteType ==
  ASSUME NEW size \in Pos, NEW pos \in Nat, NEW end \in Pos, NEW n \in Nat
  PROVE  SizeAfterWrite(size, pos, end, n) \in Pos
<1>1. n * BlockSize \in Nat
  BY NodeDevAssumption
<1> DEFINE stop == Least(end, n * BlockSize)
<1>2. stop \in Pos
  BY <1>1, NodeDevAssumption DEF Least, Pos
<1> QED BY <1>2 DEF SizeAfterWrite

LEMMA WriteDevStep ==
  ASSUME RecordInv, NEW h \in Handle, NEW pos \in Pos, NEW len \in Pos,
         pos + len <= MaxPos, WriteDev(h, pos, len)
  PROVE  RecordInv'
<1> DEFINE i == handle[h].inode
           m == opened[i]
           n == Least(BlocksFor((pos + len) - 1), BlockCount)
<1>1. handle[h] # NoDev /\ handle[h].rw /\ len > 0 /\ handle' = handle /\ inodeHint' = inodeHint
  BY DEF WriteDev, NoDev
<1> DEFINE Effect(l, s) ==
             /\ MarkUsed(s)
             /\ next' = Linked(l, s)
             /\ opened' = [opened EXCEPT ![i] = Written(m, l, s, pos, pos + len)]
             /\ disk' = FlushedFirst(i, m, Attached(m, l, s))
<1>2. PICK l \in ListFor(m, 1) : \E s \in NewBlocks(l, n) : Effect(l, s)
  BY DEF WriteDev
<1>3. PICK s \in NewBlocks(l, n) : Effect(l, s)
  BY <1>2
<1> HIDE DEF n
<1> DEFINE a == Attached(m, l, s)
           z == SizeAfterWrite(a.size, pos, pos + len, Len(a.list))
           r == [a EXCEPT !.size = z]
<1>4. /\ i \in Inode /\ m \in OpenInode /\ m.count > 0 /\ m.writer = h /\ h # NoHandle
      /\ disk[i].used /\ disk[i].first = m.first
  BY <1>1, Holder, OpenedType DEF RecordInv
<1>5. n \in Nat
  <2>1. (pos + len) - 1 \in Nat
    BY <1>1 DEF Pos
  <2>2. BlocksFor((pos + len) - 1) \in Nat
    BY <2>1, BlocksForType
  <2> QED BY <2>2, BlockCountAssumption DEF Least, n
<1>6. l \in Seq(Block)
  BY <1>4, ListForType DEF RecordInv
<1>7. /\ a \in OpenInode /\ a.count = m.count /\ a.writer = m.writer /\ a.size = m.size
      /\ a.list = Extended(l, s) /\ Extended(l, s) \in Seq(Block)
  BY <1>4, <1>5, <1>6, GrownType DEF RecordInv
<1>8. BlockTypeOK'
  <2>1. MarkUsed(s) /\ next' = Linked(l, s)
    BY <1>3
  <2> QED BY <1>4, <1>5, <2>1, GrownBlocks DEF RecordInv
<1> HIDE DEF a
<1>9. z \in Pos
  <2>1. Len(a.list) \in Nat /\ a.size \in Pos /\ pos \in Nat
    BY <1>7, NodeDevAssumption DEF OpenInode, Pos
  <2>2. pos + len \in Pos
    BY <1>1, NodeDevAssumption DEF Pos
  <2> QED BY <2>1, <2>2, SizeAfterWriteType
<1> HIDE DEF z
<1>10. /\ r \in OpenInode /\ r.count = m.count /\ r.writer = m.writer /\ r.first = a.first
       /\ opened' = [opened EXCEPT ![i] = r]
  <2>1. opened' = [opened EXCEPT ![i] = r]
    BY <1>3 DEF a, z, r, Written
  <2> QED BY <1>7, <1>9, <2>1 DEF OpenInode
<1> HIDE DEF r
<1>11. /\ disk' \in [Inode -> DiskInode]
       /\ \A j \in Inode \ {i} : disk'[j] = disk[j]
       /\ disk'[i].used /\ disk'[i].first = a.first
  <2>1. disk' = FlushedFirst(i, m, a)
    BY <1>3 DEF a
  <2>2. CASE m.first = a.first
    BY <1>4, <2>1, <2>2 DEF FlushedFirst, RecordInv, TypeOK
  <2>3. CASE m.first # a.first
    <3> DEFINE f == [m EXCEPT !.first = a.first]
    <3>1. f \in OpenInode /\ f.first = a.first
      BY <1>4, <1>7 DEF OpenInode
    <3>2. disk' = Flushed(i, f)
      BY <2>1, <2>3 DEF FlushedFirst
    <3> HIDE DEF f
    <3>3. /\ Flushed(i, f) \in [Inode -> DiskInode]
          /\ \A j \in Inode \ {i} : Flushed(i, f)[j] = disk[j]
          /\ Flushed(i, f)[i] = [used |-> TRUE, first |-> f.first, size |-> f.size]
      BY <1>4, <3>1, FlushedType DEF RecordInv
    <3> QED BY <3>1, <3>2, <3>3
  <2> QED BY <2>2, <2>3
<1>12. r.writer # NoHandle
  BY <1>4, <1>10
<1> QED BY <1>1, <1>4, <1>8, <1>10, <1>11, <1>12, RecordStep

\* The number of blocks a truncation looks for.
LEMMA BlocksKeptType ==
  ASSUME TypeOK, NEW i \in Inode, NEW len \in Pos,
         len > opened[i].size \/ len \in 1 .. opened[i].size - 1
  PROVE  BlocksFor(len - 1) \in Nat \ {0}
<1>1. len \in Nat /\ opened[i].size \in Nat
  BY OpenedType, NodeDevAssumption DEF Pos
<1>2. len - 1 \in Nat
  BY <1>1
<1> QED BY <1>2, BlocksForType

\* A truncation that changes no link behind the end, whether it grows the
\* list or not: the record ends up flushed as it is in memory.
LEMMA ResizedStep ==
  ASSUME RecordInv, NEW h \in Handle, handle[h].rw, NEW i, i = handle[h].inode,
         NEW r \in OpenInode, NEW f \in OpenInode,
         r.count = opened[i].count, r.writer = opened[i].writer, r.first = f.first,
         opened' = [opened EXCEPT ![i] = r], disk' = Flushed(i, f),
         handle' = handle, inodeHint' = inodeHint, BlockTypeOK'
  PROVE  RecordInv'
<1>1. handle[h] # NoDev
  BY DEF NoDev
<1>2. i \in Inode /\ opened[i].writer = h /\ h # NoHandle
  BY <1>1, Holder
<1>3. /\ disk' \in [Inode -> DiskInode]
      /\ \A j \in Inode \ {i} : disk'[j] = disk[j]
      /\ disk'[i] = [used |-> TRUE, first |-> f.first, size |-> f.size]
  BY <1>2, FlushedType DEF RecordInv
<1>4. disk'[i].used /\ disk'[i].first = r.first
  BY <1>3
<1> QED BY <1>1, <1>2, <1>3, <1>4, RecordStep, ZenonT(30)

LEMMA TruncateToZeroStep ==
  ASSUME RecordInv, NEW h \in Handle, TruncateToZero(h)
  PROVE  RecordInv'
<1>0. PICK i : i = handle[h].inode
  OBVIOUS
<1> DEFINE m == [opened[i] EXCEPT !.list = <<>>, !.first = NoBlock, !.size = 0]
<1>1. /\ handle[h].rw /\ opened' = [opened EXCEPT ![i] = m] /\ disk' = Flushed(i, m)
      /\ handle' = handle /\ inodeHint' = inodeHint /\ UNCHANGED blockVars
  BY <1>0 DEF TruncateToZero
<1>2. opened[i] \in OpenInode
  BY <1>0, <1>1, Holder, OpenedType DEF RecordInv, NoDev
<1>3. 0 \in Pos /\ <<>> \in Seq(Block)
  BY NodeDevAssumption DEF Pos
<1>4. m \in OpenInode /\ m.count = opened[i].count /\ m.writer = opened[i].writer
  BY <1>2, <1>3 DEF OpenInode
<1>5. BlockTypeOK'
  BY <1>1 DEF RecordInv, TypeOK, BlockTypeOK, blockVars
<1> HIDE DEF m
<1> QED BY <1>0, <1>1, <1>4, <1>5, ResizedStep

LEMMA TruncateUpStep ==
  ASSUME RecordInv, NEW h \in Handle, NEW len \in Pos, TruncateUp(h, len)
  PROVE  RecordInv'
<1>0. PICK i : i = handle[h].inode
  OBVIOUS
<1> DEFINE m == [opened[i] EXCEPT !.size = len]
           n == BlocksFor(len - 1)
           Effect(l, s) ==
             LET a == Attached(m, l, s)
             IN  /\ MarkUsed(s)
                 /\ next' = Linked(l, s)
                 /\ opened' = [opened EXCEPT ![i] = a]
                 /\ disk' = Flushed(i, a)
<1>1. handle[h].rw /\ len > opened[i].size /\ handle' = handle /\ inodeHint' = inodeHint
  BY <1>0 DEF TruncateUp
<1>2. PICK l \in ListFor(m, n) : \E s \in NewBlocks(l, n) : Effect(l, s)
  BY <1>0 DEF TruncateUp
<1>3. PICK s \in NewBlocks(l, n) : Effect(l, s)
  BY <1>2
<1>4. i \in Inode /\ opened[i] \in OpenInode
  BY <1>0, <1>1, Holder, OpenedType DEF RecordInv, NoDev
<1>5. n \in Nat
  BY <1>1, <1>4, BlocksKeptType DEF RecordInv
<1> HIDE DEF n
<1>6. m \in OpenInode /\ m.count = opened[i].count /\ m.writer = opened[i].writer
  BY <1>4 DEF OpenInode
<1> HIDE DEF m
<1>7. l \in Seq(Block)
  BY <1>5, <1>6, ListForType DEF RecordInv
<1> DEFINE a == Attached(m, l, s)
<1>8. a \in OpenInode /\ a.count = m.count /\ a.writer = m.writer
  BY <1>5, <1>6, <1>7, GrownType DEF RecordInv
<1>9. MarkUsed(s) /\ next' = Linked(l, s) /\ opened' = [opened EXCEPT ![i] = a] /\ disk' = Flushed(i, a)
  BY <1>3
<1>10. BlockTypeOK'
  BY <1>5, <1>6, <1>9, GrownBlocks DEF RecordInv
<1> HIDE DEF a
<1> QED BY <1>0, <1>1, <1>6, <1>8, <1>9, <1>10, ResizedStep

LEMMA TruncateInLastBlockStep ==
  ASSUME RecordInv, NEW h \in Handle, NEW len \in Pos, TruncateInLastBlock(h, len)
  PROVE  RecordInv'
<1>0. PICK i : i = handle[h].inode
  OBVIOUS
<1> DEFINE m == [opened[i] EXCEPT !.size = len]
           n == BlocksFor(len - 1)
           Effect(l, s) ==
             LET a == Attached(m, l, s)
             IN  /\ n <= Len(a.list) => Linked(l, s)[a.list[n]] = NoBlock
                 /\ MarkUsed(s)
                 /\ next' = Linked(l, s)
                 /\ opened' = [opened EXCEPT ![i] =
                        IF n <= Len(a.list) THEN [a EXCEPT !.list = <<a.list[1]>>] ELSE a]
                 /\ disk' = Flushed(i, a)
<1>1. /\ handle[h].rw /\ len \in 1 .. opened[i].size - 1
      /\ handle' = handle /\ inodeHint' = inodeHint
  BY <1>0 DEF TruncateInLastBlock
<1>2. PICK l \in ListFor(m, n) : \E s \in NewBlocks(l, n) : Effect(l, s)
  BY <1>0 DEF TruncateInLastBlock
<1>3. PICK s \in NewBlocks(l, n) : Effect(l, s)
  BY <1>2
<1>4. i \in Inode /\ opened[i] \in OpenInode
  BY <1>0, <1>1, Holder, OpenedType DEF RecordInv, NoDev
<1>5. n \in Nat \ {0}
  BY <1>1, <1>4, BlocksKeptType DEF RecordInv
<1> HIDE DEF n
<1>6. m \in OpenInode /\ m.count = opened[i].count /\ m.writer = opened[i].writer
  BY <1>4 DEF OpenInode
<1> HIDE DEF m
<1>7. l \in Seq(Block)
  BY <1>5, <1>6, ListForType DEF RecordInv
<1> DEFINE a == Attached(m, l, s)
           r == IF n <= Len(a.list) THEN [a EXCEPT !.list = <<a.list[1]>>] ELSE a
<1>8. a \in OpenInode /\ a.count = m.count /\ a.writer = m.writer
  BY <1>5, <1>6, <1>7, GrownType DEF RecordInv
<1>9. MarkUsed(s) /\ next' = Linked(l, s) /\ opened' = [opened EXCEPT ![i] = r] /\ disk' = Flushed(i, a)
  BY <1>3
<1>10. BlockTypeOK'
  BY <1>5, <1>6, <1>9, GrownBlocks DEF RecordInv
<1> HIDE DEF a
<1>11. r \in OpenInode /\ r.count = a.count /\ r.writer = a.writer /\ r.first = a.first
  <2>1. CASE n <= Len(a.list)
    <3>1. a.list[1] \in Block
      BY <1>5, <1>8, <2>1 DEF OpenInode
    <3>2. <<a.list[1]>> \in Seq(Block)
      BY <3>1
    <3> QED BY <1>8, <2>1, <3>2 DEF OpenInode
  <2>2. CASE ~(n <= Len(a.list))
    BY <1>8, <2>2
  <2> QED BY <2>1, <2>2
<1> HIDE DEF r
<1> QED BY <1>0, <1>1, <1>6, <1>8, <1>9, <1>10, <1>11, ResizedStep

\* Clearing links keeps their type.
LEMMA CutLinksType ==
  ASSUME BlockTypeOK, NEW S
  PROVE  [b \in Block |-> IF b \in S THEN NoBlock ELSE next[b]] \in [Block -> Block \cup {NoBlock}]
BY DEF BlockTypeOK

LEMMA TruncateChainStep ==
  ASSUME RecordInv, NEW h \in Handle, NEW len \in Pos, TruncateChain(h, len)
  PROVE  RecordInv'
<1>0. PICK i : i = handle[h].inode
  OBVIOUS
<1> DEFINE m == [opened[i] EXCEPT !.size = len]
           n == BlocksFor(len - 1)
           W(l) == Reach(next, next[l[n]])
           Kept(l) == /\ opened' = [opened EXCEPT ![i] = [m EXCEPT !.list = l]]
                      /\ UNCHANGED blockVars
           CutAt(l, x) == /\ Wipe(W(l))
                          /\ next' = [b \in Block |-> IF b \in W(l) \cup {l[x-1]} THEN NoBlock
                                                      ELSE next[b]]
                          /\ opened' = [opened EXCEPT ![i] =
                                          [m EXCEPT !.list = SubSeq(l, 1, x - 1)]]
<1>1. /\ handle[h].rw /\ len \in 1 .. opened[i].size - 1
      /\ handle' = handle /\ inodeHint' = inodeHint /\ disk' = Flushed(i, m)
  BY <1>0 DEF TruncateChain
<1>2. PICK l \in ListFor(m, n) :
        /\ n <= Len(l)
        /\ Kept(l) \/ \E x \in 2 .. Len(l) : CutAt(l, x)
  BY <1>0 DEF TruncateChain
<1>3. i \in Inode /\ opened[i] \in OpenInode
  BY <1>0, <1>1, Holder, OpenedType DEF RecordInv, NoDev
<1>4. n \in Nat \ {0}
  BY <1>1, <1>3, BlocksKeptType DEF RecordInv
<1> HIDE DEF n
<1>5. m \in OpenInode /\ m.count = opened[i].count /\ m.writer = opened[i].writer
  BY <1>3 DEF OpenInode
<1> HIDE DEF m
<1>6. l \in Seq(Block)
  BY <1>4, <1>5, ListForType DEF RecordInv
<1>7. ASSUME NEW q \in Seq(Block), opened' = [opened EXCEPT ![i] = [m EXCEPT !.list = q]], BlockTypeOK'
      PROVE  RecordInv'
  <2> DEFINE r == [m EXCEPT !.list = q]
  <2>1. r \in OpenInode /\ r.count = m.count /\ r.writer = m.writer /\ r.first = m.first
    BY <1>5, <1>7 DEF OpenInode
  <2>2. opened' = [opened EXCEPT ![i] = r]
    BY <1>7
  <2> HIDE DEF r
  <2> QED BY <1>0, <1>1, <1>5, <1>7, <2>1, <2>2, ResizedStep
<1>8. CASE Kept(l)
  <2>1. BlockTypeOK'
    BY <1>8 DEF RecordInv, TypeOK, BlockTypeOK, blockVars
  <2> QED BY <1>6, <1>7, <1>8, <2>1
<1>9. CASE \E x \in 2 .. Len(l) : CutAt(l, x)
  <2>1. PICK x \in 2 .. Len(l) : CutAt(l, x)
    BY <1>9
  <2>2. l[n] \in Block /\ next[l[n]] \in Block \cup {NoBlock}
    BY <1>2, <1>4, <1>6 DEF RecordInv, TypeOK, BlockTypeOK
  <2>3. W(l) \in SUBSET Block
    BY <2>2, ReachType DEF RecordInv, TypeOK, BlockTypeOK
  <2> HIDE DEF W
  <2>4. next' \in [Block -> Block \cup {NoBlock}]
    BY <2>1, CutLinksType DEF RecordInv, TypeOK
  <2>5. BlockTypeOK'
    BY <2>1, <2>3, <2>4, WipeKeepsHint DEF RecordInv, TypeOK, BlockTypeOK
  <2>6. SubSeq(l, 1, x - 1) \in Seq(Block)
    BY <1>6
  <2> QED BY <1>7, <2>1, <2>5, <2>6
<1> QED BY <1>2, <1>8, <1>9

LEMMA UnlinkStep ==
  ASSUME RecordInv, NEW i \in Inode, Unlink(i)
  PROVE  RecordInv'
<1> DEFINE W == Reach(next, disk[i].first)
<1>1. /\ opened[i].count = 0 /\ opened' = opened /\ handle' = handle
      /\ Wipe(W)
      /\ next' = [b \in Block |-> IF b \in W THEN NoBlock ELSE next[b]]
      /\ disk' = [disk EXCEPT ![i] = [used |-> FALSE, first |-> NoBlock, size |-> 0]]
      /\ inodeHint' = Least(i, inodeHint)
  BY DEF Unlink
<1>2. W \in SUBSET Block
  BY ReachType DEF RecordInv, TypeOK, BlockTypeOK, DiskInode
<1> HIDE DEF W
<1>3. next' \in [Block -> Block \cup {NoBlock}]
  BY <1>1, CutLinksType DEF RecordInv, TypeOK
<1>4. BlockTypeOK'
  BY <1>1, <1>2, <1>3, WipeKeepsHint DEF RecordInv, TypeOK, BlockTypeOK
<1>5. 0 \in Pos
  BY NodeDevAssumption DEF Pos
<1>6. /\ disk' \in [Inode -> DiskInode]
      /\ \A j \in Inode \ {i} : disk'[j] = disk[j]
  BY <1>1, <1>5 DEF RecordInv, TypeOK, DiskInode
<1>7. inodeHint' \in 2 .. InodeCount + 1
  BY <1>1, NodeDevAssumption DEF RecordInv, TypeOK, Inode, Least
<1>8. TypeOK' /\ ClosedDevs'
  BY <1>1, <1>4, <1>6, <1>7 DEF RecordInv, TypeOK, ClosedDevs
<1>9. OpenersCounted'
  BY <1>1 DEF RecordInv, OpenersCounted, Users
<1>10. RecordInSync'
  <2>1. ASSUME NEW j \in Inode, opened'[j].count > 0
        PROVE  j # i
    BY <1>1, <2>1
  <2> QED BY <1>1, <1>6, <2>1 DEF RecordInv, RecordInSync
<1> QED BY <1>8, <1>9, <1>10 DEF RecordInv

-----------------------------------------------------------------------------
(* The theorems.                                                            *)

LEMMA RecordInit == Init => RecordInv
<1> SUFFICES ASSUME Init PROVE RecordInv
  OBVIOUS
<1>1. 0 \in Pos /\ <<>> \in Seq(Block) /\ NoHandle \in Handle \cup {NoHandle}
  BY NodeDevAssumption DEF Pos
<1>2. \A i \in Inode : opened[i] = NotOpen
  BY DEF Init
<1>3. \A h \in Handle : handle[h] = NoDev
  BY DEF Init
<1>4. BlockTypeOK
  BY BlockCountAssumption DEF Init, BlockInit, BlockTypeOK
<1>5. NotOpen \in OpenInode /\ NoDev \in [inode: Inode \cup {NoInode}, rw: BOOLEAN]
  BY <1>1 DEF NotOpen, NoDev, OpenInode
<1>6. TypeOK
  BY <1>1, <1>4, <1>5, NodeDevAssumption DEF Init, TypeOK, DiskInode
<1>7. ClosedDevs
  BY <1>3 DEF ClosedDevs
<1>8. OpenersCounted
  <2>1. \A i \in Inode : Users(i) = {}
    BY <1>3 DEF Users, NoDev, Inode, NoInode
  <2>2. Cardinality({}) = 0
    BY FS_EmptySet
  <2>3. \A i \in Inode : opened[i].count = 0 /\ opened[i].writer = NoHandle
    BY <1>2 DEF NotOpen
  <2> QED BY <2>1, <2>2, <2>3 DEF OpenersCounted
<1>9. RecordInSync
  BY <1>2 DEF RecordInSync, NotOpen
<1> QED BY <1>6, <1>7, <1>8, <1>9 DEF RecordInv

LEMMA RecordNext == RecordInv /\ [Next]_vars => RecordInv'
<1> SUFFICES ASSUME RecordInv, [Next]_vars PROVE RecordInv'
  OBVIOUS
<1>1. ASSUME NEW h \in Handle, CreateDev(h) PROVE RecordInv'
  BY <1>1, CreateDevStep
<1>2. ASSUME NEW h \in Handle, FlushDev(h) PROVE RecordInv'
  BY <1>2, FlushDevStep
<1>3. ASSUME NEW h \in Handle, CloseDev(h) PROVE RecordInv'
  BY <1>3, CloseDevStep
<1>4. ASSUME NEW h \in Handle, NEW i \in Inode, NEW w \in BOOLEAN, OpenDev(h, i, w) PROVE RecordInv'
  BY <1>4, OpenDevStep
<1>5. ASSUME NEW h \in Handle, NEW pos \in Pos, ReadDev(h, pos) PROVE RecordInv'
  BY <1>5, ReadDevStep
<1>6. ASSUME NEW h \in Handle, NEW pos \in Pos, NEW len \in Pos, pos + len <= MaxPos,
             WriteDev(h, pos, len)
      PROVE  RecordInv'
  BY <1>6, WriteDevStep
<1>7. ASSUME NEW i \in Inode, Unlink(i) PROVE RecordInv'
  BY <1>7, UnlinkStep
<1>8. ASSUME NEW h \in Handle, TruncateToZero(h) PROVE RecordInv'
  BY <1>8, TruncateToZeroStep
<1>9. ASSUME NEW h \in Handle, NEW len \in Pos,
             TruncateUp(h, len) \/ TruncateInLastBlock(h, len) \/ TruncateChain(h, len)
      PROVE  RecordInv'
  BY <1>9, TruncateUpStep, TruncateInLastBlockStep, TruncateChainStep
<1>10. CASE UNCHANGED vars
  <2>1. /\ used' = used /\ next' = next /\ blockHint' = blockHint
        /\ disk' = disk /\ inodeHint' = inodeHint /\ opened' = opened /\ handle' = handle
    BY <1>10 DEF vars
  <2>2. TypeOK'
    BY <2>1 DEF RecordInv, TypeOK, BlockTypeOK
  <2>3. ClosedDevs' /\ OpenersCounted' /\ RecordInSync'
    BY <2>1 DEF RecordInv, ClosedDevs, OpenersCounted, Users, RecordInSync
  <2> QED BY <2>2, <2>3 DEF RecordInv
<1> QED BY <1>1, <1>2, <1>3, <1>4, <1>5, <1>6, <1>7, <1>8, <1>9, <1>10
        DEF Next, NextNoTrunc, Truncate

\* The records stay consistent whatever the order of the calls.
THEOREM RecordTheorem == Spec => []RecordInv
BY RecordInit, RecordNext, PTL DEF Spec

\* Every variable keeps its type.
THEOREM TypeCorrect == Spec => []TypeOK
<1>1. RecordInv => TypeOK
  BY DEF RecordInv
<1> QED BY <1>1, RecordTheorem, PTL

\* An entry of the opened list counts exactly the devices on it, and its
\* write key is the one writable device (whefs_inode_open, whefs_inode_close).
THEOREM OpenersCountedAlways == Spec => []OpenersCounted
<1>1. RecordInv => OpenersCounted
  BY DEF RecordInv
<1> QED BY <1>1, RecordTheorem, PTL

\* The chain's head on disk is that of the shared record, and without a
\* writer nothing is left to flush (whefs_inode_flush and its callers).
THEOREM RecordInSyncAlways == Spec => []RecordInSync
<1>1. RecordInv => RecordInSync
  BY DEF RecordInv
<1> QED BY <1>1, RecordTheorem, PTL

-----------------------------------------------------------------------------
(* The hints.                                                               *)

BlocksBelowHintUsed == \A b \in Block : b < blockHint => b \in used

\* A call that leaves the inode hint alone and frees no inode.
LEMMA SameInodesHint ==
  ASSUME NothingFreeBelowHints, inodeHint' = inodeHint,
         \A i \in Inode : disk[i].used => disk'[i].used,
         BlocksBelowHintUsed'
  PROVE  NothingFreeBelowHints'
BY DEF NothingFreeBelowHints, BlocksBelowHintUsed

LEMMA FlushedStaysUsed ==
  ASSUME TypeOK, NEW i \in Inode, NEW m, disk' = Flushed(i, m) \/ disk' = disk
  PROVE  \A j \in Inode : disk[j].used => disk'[j].used
BY DEF Flushed, TypeOK

\* Growing a list moves the hint over used blocks only.
LEMMA GrownHint ==
  ASSUME TypeOK, BlocksBelowHintUsed, NEW m \in OpenInode, NEW k \in Nat, NEW l \in ListFor(m, k),
         NEW n \in Nat, NEW s \in NewBlocks(l, n), MarkUsed(s)
  PROVE  BlocksBelowHintUsed'
<1>1. PICK q \in Nat : s \in Taken(q)
  BY ListForType, NewBlocksTaken
<1> QED BY <1>1, MarkUsedKeepsHint DEF TypeOK, BlocksBelowHintUsed

\* The calls that grow a list: writing, and truncating without freeing.
LEMMA WriterHint ==
  ASSUME RecordInv, NothingFreeBelowHints, NEW h \in Handle, handle[h].rw,
         NEW i, i = handle[h].inode, NEW m \in OpenInode, NEW k \in Nat, NEW l \in ListFor(m, k),
         NEW n \in Nat, NEW s \in NewBlocks(l, n), MarkUsed(s),
         NEW f, disk' = Flushed(i, f) \/ disk' = disk, inodeHint' = inodeHint
  PROVE  NothingFreeBelowHints'
<1>1. i \in Inode
  BY Holder DEF NoDev
<1>2. BlocksBelowHintUsed'
  BY GrownHint DEF RecordInv, NothingFreeBelowHints, BlocksBelowHintUsed
<1> QED BY <1>1, <1>2, FlushedStaysUsed, SameInodesHint DEF RecordInv

LEMMA WriteDevHint ==
  ASSUME RecordInv, NothingFreeBelowHints, NEW h \in Handle, NEW pos \in Pos, NEW len \in Pos,
         WriteDev(h, pos, len)
  PROVE  NothingFreeBelowHints'
<1>0. PICK i : i = handle[h].inode
  OBVIOUS
<1> DEFINE n == Least(BlocksFor((pos + len) - 1), BlockCount)
           Effect(l, s) == /\ MarkUsed(s)
                           /\ disk' = FlushedFirst(i, opened[i], Attached(opened[i], l, s))
<1>1. handle[h].rw /\ len > 0 /\ inodeHint' = inodeHint
  BY DEF WriteDev
<1>2. PICK l \in ListFor(opened[i], 1) : \E s \in NewBlocks(l, n) : Effect(l, s)
  BY <1>0 DEF WriteDev
<1>3. PICK s \in NewBlocks(l, n) : Effect(l, s)
  BY <1>2
<1>4. n \in Nat
  <2>1. (pos + len) - 1 \in Nat
    BY <1>1 DEF Pos
  <2>2. BlocksFor((pos + len) - 1) \in Nat
    BY <2>1, BlocksForType
  <2> QED BY <2>2, BlockCountAssumption DEF Least
<1> HIDE DEF n
<1>5. opened[i] \in OpenInode
  BY <1>0, <1>1, Holder, OpenedType DEF RecordInv, NoDev
<1>6. \E f : disk' = Flushed(i, f) \/ disk' = disk
  BY <1>3 DEF FlushedFirst
<1>7. PICK f : disk' = Flushed(i, f) \/ disk' = disk
  BY <1>6
<1>8. MarkUsed(s)
  BY <1>3
<1> QED BY <1>0, <1>1, <1>4, <1>5, <1>7, <1>8, WriterHint

LEMMA TruncateUpHint ==
  ASSUME RecordInv, NothingFreeBelowHints, NEW h \in Handle, NEW len \in Pos,
         TruncateUp(h, len) \/ TruncateInLastBlock(h, len)
  PROVE  NothingFreeBelowHints'
<1>0. PICK i : i = handle[h].inode
  OBVIOUS
<1> DEFINE m == [opened[i] EXCEPT !.size = len]
           n == BlocksFor(len - 1)
           Effect(l, s) == MarkUsed(s) /\ disk' = Flushed(i, Attached(m, l, s))
<1>1. /\ handle[h].rw /\ inodeHint' = inodeHint
      /\ len > opened[i].size \/ len \in 1 .. opened[i].size - 1
  BY <1>0 DEF TruncateUp, TruncateInLastBlock
<1>2. PICK l \in ListFor(m, n) : \E s \in NewBlocks(l, n) : Effect(l, s)
  <2>1. CASE TruncateUp(h, len)
    BY <1>0, <2>1 DEF TruncateUp
  <2>2. CASE TruncateInLastBlock(h, len)
    BY <1>0, <2>2 DEF TruncateInLastBlock
  <2> QED BY <2>1, <2>2
<1>3. PICK s \in NewBlocks(l, n) : Effect(l, s)
  BY <1>2
<1>4. i \in Inode /\ opened[i] \in OpenInode
  BY <1>0, <1>1, Holder, OpenedType DEF RecordInv, NoDev
<1>5. n \in Nat
  BY <1>1, <1>4, BlocksKeptType DEF RecordInv
<1>6. m \in OpenInode
  BY <1>4 DEF OpenInode
<1> HIDE DEF n, m
<1>7. MarkUsed(s) /\ disk' = Flushed(i, Attached(m, l, s))
  BY <1>3
<1> QED BY <1>0, <1>1, <1>5, <1>6, <1>7, WriterHint

LEMMA TruncateChainHint ==
  ASSUME RecordInv, NothingFreeBelowHints, NEW h \in Handle, NEW len \in Pos,
         TruncateChain(h, len)
  PROVE  NothingFreeBelowHints'
<1>0. PICK i : i = handle[h].inode
  OBVIOUS
<1> DEFINE m == [opened[i] EXCEPT !.size = len]
           n == BlocksFor(len - 1)
<1>1. handle[h].rw /\ len \in 1 .. opened[i].size - 1 /\ disk' = Flushed(i, m) /\ inodeHint' = inodeHint
  BY <1>0 DEF TruncateChain
<1>2. PICK l \in ListFor(m, n) :
        n <= Len(l) /\ (UNCHANGED blockVars \/ Wipe(Reach(next, next[l[n]])))
  BY <1>0 DEF TruncateChain
<1>3. i \in Inode /\ opened[i] \in OpenInode
  BY <1>0, <1>1, Holder, OpenedType DEF RecordInv, NoDev
<1>4. n \in Nat \ {0}
  BY <1>1, <1>3, BlocksKeptType DEF RecordInv
<1>5. m \in OpenInode
  BY <1>3 DEF OpenInode
<1> HIDE DEF n, m
<1>6. l \in Seq(Block)
  BY <1>4, <1>5, ListForType DEF RecordInv
<1>7. l[n] \in Block /\ next[l[n]] \in Block \cup {NoBlock}
  BY <1>2, <1>4, <1>6 DEF RecordInv, TypeOK, BlockTypeOK
<1>8. Reach(next, next[l[n]]) \in SUBSET Block
  BY <1>7, ReachType DEF RecordInv, TypeOK, BlockTypeOK
<1>9. BlocksBelowHintUsed'
  <2>1. CASE UNCHANGED blockVars
    BY <2>1 DEF blockVars, NothingFreeBelowHints, BlocksBelowHintUsed
  <2>2. CASE Wipe(Reach(next, next[l[n]]))
    BY <1>8, <2>2, WipeKeepsHint DEF RecordInv, TypeOK, NothingFreeBelowHints, BlocksBelowHintUsed
  <2> QED BY <1>2, <2>1, <2>2
<1> QED BY <1>1, <1>3, <1>9, FlushedStaysUsed, SameInodesHint DEF RecordInv

LEMMA CreateDevHint ==
  ASSUME RecordInv, NothingFreeBelowHints, NEW h \in Handle, CreateDev(h)
  PROVE  NothingFreeBelowHints'
<1>1. PICK i \in FreeInodes :
        /\ \A j \in FreeInodes : i <= j
        /\ disk' = [disk EXCEPT ![i].used = TRUE]
        /\ inodeHint' = i + 1
  BY DEF CreateDev
<1>2. i \in Inode /\ inodeHint \in Int
  BY DEF FreeInodes, RecordInv, TypeOK
<1>3. \A j \in Inode : j < i => disk[j].used
  BY <1>1, <1>2, NodeDevAssumption DEF FreeInodes, Inode, NothingFreeBelowHints
<1>4. \A j \in Inode : j < inodeHint' => disk'[j].used
  BY <1>1, <1>2, <1>3, NodeDevAssumption DEF Inode, RecordInv, TypeOK, DiskInode
<1>5. UNCHANGED blockVars
  BY DEF CreateDev
<1> QED BY <1>4, <1>5 DEF NothingFreeBelowHints, blockVars

LEMMA UnlinkHint ==
  ASSUME RecordInv, NothingFreeBelowHints, NEW i \in Inode, Unlink(i)
  PROVE  NothingFreeBelowHints'
<1>1. /\ Wipe(Reach(next, disk[i].first))
      /\ disk' = [disk EXCEPT ![i] = [used |-> FALSE, first |-> NoBlock, size |-> 0]]
      /\ inodeHint' = Least(i, inodeHint)
  BY DEF Unlink
<1>2. Reach(next, disk[i].first) \in SUBSET Block
  BY ReachType DEF RecordInv, TypeOK, BlockTypeOK, DiskInode
<1>3. \A b \in Block : b < blockHint' => b \in used'
  BY <1>1, <1>2, WipeKeepsHint DEF RecordInv, TypeOK, NothingFreeBelowHints
<1>4. \A j \in Inode : j < inodeHint' => j < inodeHint /\ j # i
  BY <1>1, NodeDevAssumption DEF Least, Inode, RecordInv, TypeOK
<1>5. \A j \in Inode : j < inodeHint' => disk'[j].used
  BY <1>1, <1>4 DEF RecordInv, TypeOK, NothingFreeBelowHints
<1> QED BY <1>3, <1>5 DEF NothingFreeBelowHints

LEMMA HintNext == RecordInv /\ NothingFreeBelowHints /\ [Next]_vars => NothingFreeBelowHints'
<1> SUFFICES ASSUME RecordInv, NothingFreeBelowHints, [Next]_vars PROVE NothingFreeBelowHints'
  OBVIOUS
<1>1. ASSUME UNCHANGED <<used, blockHint, inodeHint>>,
             disk' = disk \/ \E i \in Inode : \E m : disk' = Flushed(i, m)
      PROVE  NothingFreeBelowHints'
  <2>1. \A j \in Inode : disk[j].used => disk'[j].used
    BY <1>1 DEF Flushed, RecordInv, TypeOK
  <2> QED BY <1>1, <2>1 DEF NothingFreeBelowHints
<1>2. ASSUME NEW h \in Handle, FlushDev(h) \/ CloseDev(h) \/ TruncateToZero(h)
      PROVE  NothingFreeBelowHints'
  <2>1. UNCHANGED <<used, blockHint, inodeHint>>
    BY <1>2 DEF FlushDev, CloseDev, TruncateToZero, blockVars
  <2>2. PICK i : i = handle[h].inode
    OBVIOUS
  <2>3. i \in Inode
    <3>1. handle[h] # NoDev
      BY <1>2 DEF FlushDev, CloseDev, TruncateToZero, NoDev
    <3> QED BY <2>2, <3>1, Holder
  <2>4. disk' = disk \/ \E m : disk' = Flushed(i, m)
    BY <1>2, <2>2 DEF FlushDev, CloseDev, TruncateToZero
  <2> QED BY <1>1, <2>1, <2>3, <2>4
<1>3. ASSUME NEW h \in Handle, NEW i \in Inode, NEW w \in BOOLEAN, OpenDev(h, i, w)
      PROVE  NothingFreeBelowHints'
  BY <1>1, <1>3 DEF OpenDev, blockVars
<1>4. ASSUME NEW h \in Handle, NEW pos \in Pos, ReadDev(h, pos) PROVE NothingFreeBelowHints'
  BY <1>1, <1>4 DEF ReadDev, blockVars
<1>5. ASSUME NEW h \in Handle, CreateDev(h) PROVE NothingFreeBelowHints'
  BY <1>5, CreateDevHint
<1>6. ASSUME NEW h \in Handle, NEW pos \in Pos, NEW len \in Pos, WriteDev(h, pos, len)
      PROVE  NothingFreeBelowHints'
  BY <1>6, WriteDevHint
<1>7. ASSUME NEW i \in Inode, Unlink(i) PROVE NothingFreeBelowHints'
  BY <1>7, UnlinkHint
<1>8. ASSUME NEW h \in Handle, NEW len \in Pos,
             TruncateUp(h, len) \/ TruncateInLastBlock(h, len) \/ TruncateChain(h, len)
      PROVE  NothingFreeBelowHints'
  BY <1>8, TruncateUpHint, TruncateChainHint
<1>9. CASE UNCHANGED vars
  BY <1>1, <1>9 DEF vars
<1> QED BY <1>2, <1>3, <1>4, <1>5, <1>6, <1>7, <1>8, <1>9 DEF Next, NextNoTrunc, Truncate

\* No block or inode below its hint is free: the searches of
\* whefs_block_next_free and whefs_inode_next_free miss nothing.
THEOREM NothingFreeBelowHintsAlways == Spec => []NothingFreeBelowHints
<1>1. Init => NothingFreeBelowHints
  BY DEF Init, BlockInit, Block, Inode, NothingFreeBelowHints
<1> QED BY <1>1, HintNext, RecordTheorem, PTL DEF Spec

-----------------------------------------------------------------------------
(***************************************************************************)
(* Whose the blocks are.  Every block used by a file has one owner, which   *)
(* the links between blocks preserve; so a call leaves the files it is not  *)
(* about alone; and, for a client that never truncates, no block is lost,   *)
(* every byte has a block, a cached list is the whole chain, and a write    *)
(* stops early only at the end of the container.                            *)
(***************************************************************************)

\* Free blocks are unlinked, links lead to used blocks, and no block is the
\* successor of two.
Links ==
    /\ \A b \in Block : b \notin used => next[b] = NoBlock
    /\ \A b \in Block : next[b] # NoBlock => next[b] \in used
    /\ \A a, b \in Block : next[a] = next[b] /\ next[a] # NoBlock => a = b

\* A chain's links stay with its owner.
Along(own) == \A b \in Block : next[b] # NoBlock => own[next[b]] = own[b]

\* The first block of a file is used, its own, and the successor of none.
Heads(own) ==
    \A i \in Inode : disk[i].first # NoBlock =>
        /\ disk[i].used
        /\ disk[i].first \in used
        /\ own[disk[i].first] = i
        /\ \A b \in Block : next[b] # disk[i].first

\* l is a part of the chain of inode i, from its first block, without repetition.
Mirrors(own, i, l) ==
    /\ l # <<>> => l[1] = disk[i].first
    /\ \A k \in 1 .. Len(l) : l[k] \in used /\ own[l[k]] = i
    /\ \A k \in 1 .. Len(l) - 1 : next[l[k]] = l[k+1]
    /\ \A j, k \in 1 .. Len(l) : l[j] = l[k] => j = k

Lists(own) ==
    \A i \in Inode :
        /\ opened[i].count = 0 => opened[i].list = <<>>
        /\ Mirrors(own, i, opened[i].list)

Owner == [Block -> Inode \cup {NoInode}]

Owned(own) == Links /\ Along(own) /\ Heads(own) /\ Lists(own)

\* The inductive invariant of the chains, on top of RecordInv.
ChainInv == \E own \in Owner : Owned(own)

-----------------------------------------------------------------------------
(* Chains.                                                                  *)

\* All of a chain belongs to the owner of its first block.
LEMMA ReachOwned ==
  ASSUME TypeOK, NEW own, Links, Along(own), NEW b \in Block, b \in used
  PROVE  \A c \in Reach(next, b) : c \in used /\ own[c] = own[b]
<1> DEFINE S == {c \in Block : c \in used /\ own[c] = own[b]}
<1>1. Closed(next, S)
  BY DEF Closed, Links, Along, TypeOK, BlockTypeOK
<1>2. S \in SUBSET Block /\ b \in S
  OBVIOUS
<1> HIDE DEF S
<1>3. Reach(next, b) \subseteq S
  BY <1>1, <1>2, ReachLeast
<1> QED BY <1>3 DEF S

\* A block of a chain other than its first is the successor of one of the chain.
LEMMA ReachPredecessor ==
  ASSUME TypeOK, NEW b \in Block, NEW c \in Reach(next, b), c # b
  PROVE  \E e \in Reach(next, b) : next[e] = c
<1> SUFFICES ASSUME \A e \in Reach(next, b) : next[e] # c PROVE FALSE
  OBVIOUS
<1> DEFINE R == Reach(next, b)
<1>1. R \in SUBSET Block /\ b \in R /\ Closed(next, R)
  BY ReachType DEF TypeOK, BlockTypeOK, NoBlock, Block
<1>2. Closed(next, R \ {c})
  BY <1>1 DEF Closed
<1>3. R \subseteq R \ {c}
  BY <1>1, <1>2, ReachLeast
<1> QED BY <1>3

\* A loaded block list holds the whole chain, each block once.
LEMMA LoadedDistinct ==
  ASSUME TypeOK, NEW b \in Block, NEW l \in ChainLists(b)
  PROVE  /\ l # <<>>
         /\ \A j, k \in 1 .. Len(l) : l[j] = l[k] => j = k
<1>1. Follows(next, b, l) /\ b # NoBlock
  BY LoadedFollows DEF TypeOK, Block, NoBlock
<1> QED BY <1>1 DEF Follows

\* The list of inode i, loaded or as it was.
LEMMA ListForMirrors ==
  ASSUME TypeOK, NEW own \in Owner, Owned(own), NEW i \in Inode, NEW m \in OpenInode,
         m.list = opened[i].list, m.first = disk[i].first, NEW n \in Nat, NEW l \in ListFor(m, n)
  PROVE  /\ l \in Seq(Block)
         /\ Mirrors(own, i, l)
         /\ l = <<>> => disk[i].first = NoBlock \/ n > BlockCount
<1>1. l \in Seq(Block)
  BY ListForType
<1>2. CASE m.list = <<>> /\ m.first # NoBlock /\ n <= BlockCount
  <2>1. l \in ChainLists(m.first)
    BY <1>2 DEF ListFor
  <2>2. m.first \in Block /\ m.first \in used /\ own[m.first] = i
    BY <1>2 DEF OpenInode, Owned, Heads
  <2>3. /\ l \in [1 .. Len(l) -> Reach(next, m.first)]
        /\ l # <<>> => l[1] = m.first
        /\ \A k \in 1 .. Len(l) : next[l[k]] = IF k = Len(l) THEN NoBlock ELSE l[k+1]
    BY <2>1, <2>2, ChainListsType DEF TypeOK
  <2>4. \A k \in 1 .. Len(l) : l[k] \in used /\ own[l[k]] = i
    BY <2>2, <2>3, ReachOwned DEF Owned
  <2>5. /\ l # <<>>
        /\ \A j, k \in 1 .. Len(l) : l[j] = l[k] => j = k
    BY <2>1, <2>2, LoadedDistinct
  <2>6. \A k \in 1 .. Len(l) - 1 : next[l[k]] = l[k+1]
    <3>1. ASSUME NEW k \in 1 .. Len(l) - 1 PROVE k \in 1 .. Len(l) /\ k # Len(l)
      BY <1>1
    <3> QED BY <2>3, <3>1
  <2> QED BY <1>1, <2>3, <2>4, <2>5, <2>6 DEF Mirrors
<1>3. CASE ~(m.list = <<>> /\ m.first # NoBlock /\ n <= BlockCount)
  <2>1. l = opened[i].list
    BY <1>3 DEF ListFor
  <2>2. n <= BlockCount \/ n > BlockCount
    BY BlockCountAssumption
  <2> QED BY <1>1, <1>3, <2>1, <2>2 DEF Owned, Lists
<1> QED BY <1>2, <1>3

-----------------------------------------------------------------------------
(* Growing a list.                                                          *)

\* The places of e whose block is linked to the one behind it.
Joints(l, e) == {k \in 1 .. Len(e) - 1 : k >= Len(l)}

\* e is l with the blocks s behind it: they were free and differ, l was at the
\* end of its chain, and only the joints get another successor.
Grown(l, s, e) ==
    /\ e \in Seq(Block) /\ Len(l) <= Len(e)
    /\ \A k \in 1 .. Len(l) : e[k] = l[k]
    /\ \A k \in Len(l) + 1 .. Len(e) : e[k] \notin used /\ e[k] \in {s[x] : x \in DOMAIN s}
    /\ \A j, k \in Len(l) + 1 .. Len(e) : e[j] = e[k] => j = k
    /\ l = <<>> => e = s
    /\ l # <<>> /\ Len(l) < Len(e) => next[l[Len(l)]] = NoBlock
    /\ \A x \in DOMAIN s : s[x] \in Block /\ s[x] \notin used
    /\ \A b \in Block : (\A k \in Joints(l, e) : e[k] # b) => Linked(l, s)[b] = next[b]
    /\ \A b \in Block : (\E k \in Joints(l, e) : e[k] = b)
         => \E k \in Joints(l, e) : e[k] = b /\ Linked(l, s)[b] = e[k+1]

\* What the allocator and whefs_inode_block_list_append() make of a list.
LEMMA GrowthFacts ==
  ASSUME TypeOK, Links, NEW l \in Seq(Block), \A k \in 1 .. Len(l) : l[k] \in used,
         NEW n \in Nat, NEW s \in NewBlocks(l, n), NEW e, e = Extended(l, s)
  PROVE  Grown(l, s, e)
<1>1. PICK q \in Nat : s \in Taken(q)
  BY NewBlocksTaken
<1>2. /\ s \in Seq(Block) /\ DOMAIN s = 1 .. Len(s)
      /\ \A x \in 1 .. Len(s) : s[x] \in Available
      /\ \A x, y \in 1 .. Len(s) : x < y => s[x] < s[y]
  BY <1>1, TakenProperties DEF TypeOK
<1>3. \A x \in DOMAIN s : s[x] \in Block /\ s[x] \notin used
  BY <1>2 DEF Available
<1>4. \A x, y \in 1 .. Len(s) : s[x] = s[y] => x = y
  <2>1. ASSUME NEW x \in 1 .. Len(s), NEW y \in 1 .. Len(s), s[x] = s[y], x # y
        PROVE  FALSE
    <3>1. s[x] \in Int
      <4>1. s[x] \in Block
        BY <1>2
      <4> QED BY <4>1 DEF Block
    <3>2. x < y \/ y < x
      BY <2>1
    <3>3. s[x] < s[y] \/ s[y] < s[x]
      BY <1>2, <2>1, <3>2
    <3> QED BY <2>1, <3>1, <3>3
  <2> QED BY <2>1
<1>5. CASE Severed(l)
  <2>1. e = l
    BY <1>5 DEF Extended
  <2>2. l # <<>> /\ Joints(l, e) = {}
    BY <1>5, <2>1 DEF Severed, Joints
  <2>3. \A b \in Block : Linked(l, s)[b] = next[b]
    BY <1>5, <2>1, <2>2 DEF Linked, Joints, Extended
  <2> QED BY <1>3, <2>1, <2>2, <2>3 DEF Grown
<1>6. CASE ~Severed(l)
  <2>1. e = l \o s
    BY <1>6 DEF Extended
  <2>2. /\ e \in Seq(Block) /\ Len(e) = Len(l) + Len(s) /\ Len(s) \in Nat /\ Len(l) \in Nat
        /\ \A k \in 1 .. Len(l) : e[k] = l[k]
        /\ \A k \in Len(l) + 1 .. Len(e) : k - Len(l) \in 1 .. Len(s) /\ e[k] = s[k - Len(l)]
    BY <1>2, <2>1
  <2>3. \A k \in Len(l) + 1 .. Len(e) : e[k] \notin used /\ e[k] \in {s[x] : x \in DOMAIN s}
    BY <1>2, <1>3, <2>2
  <2>4. \A j, k \in Len(l) + 1 .. Len(e) : e[j] = e[k] => j = k
    <3>1. ASSUME NEW j \in Len(l) + 1 .. Len(e), NEW k \in Len(l) + 1 .. Len(e), e[j] = e[k]
          PROVE  j = k
      <4>1. j - Len(l) = k - Len(l)
        BY <1>4, <2>2, <3>1
      <4> QED BY <2>2, <4>1
    <3> QED BY <3>1
  <2>5. l = <<>> => e = s
    BY <1>2, <2>1
  <2>6. l # <<>> => next[l[Len(l)]] = NoBlock
    BY <1>6 DEF Severed
  <2> DEFINE From(b) == {k \in 1 .. Len(e) - 1 : k >= Len(l) /\ e[k] = b}
  <2>7. \A b \in Block : Linked(l, s)[b] = IF From(b) = {} THEN next[b]
                                         ELSE e[1 + CHOOSE k \in From(b) : TRUE]
    BY DEF Linked
  <2>8. \A b \in Block : (\A k \in Joints(l, e) : e[k] # b) => Linked(l, s)[b] = next[b]
    BY <2>7 DEF Joints
  <2>9. ASSUME NEW b \in Block, \E k \in Joints(l, e) : e[k] = b
        PROVE  \E k \in Joints(l, e) : e[k] = b /\ Linked(l, s)[b] = e[k+1]
    <3>1. From(b) # {}
      BY <2>9 DEF Joints
    <3>2. PICK k : k = CHOOSE c \in From(b) : TRUE
      OBVIOUS
    <3>3. k \in From(b)
      BY <3>1, <3>2
    <3>4. Linked(l, s)[b] = e[1 + k]
      BY <2>7, <3>1, <3>2
    <3>5. k \in Joints(l, e) /\ e[k] = b /\ 1 + k = k + 1
      BY <3>3 DEF Joints
    <3> QED BY <3>4, <3>5
  <2> HIDE DEF From
  <2> QED BY <1>3, <2>2, <2>3, <2>4, <2>5, <2>6, <2>8, <2>9 DEF Grown
<1> QED BY <1>5, <1>6

\* The record of inode i changes with its list: it leads to e, and to all of it
\* or its first block in memory.  No other record changes.
Recorded(i, l, s, e) ==
    /\ l = <<>> => disk[i].first = NoBlock \/ s = <<>>
    /\ \A j \in Inode \ {i} : disk'[j] = disk[j] /\ opened'[j] = opened[j]
    /\ disk'[i].used /\ opened'[i].count # 0
    /\ disk'[i].first = IF disk[i].first = NoBlock /\ e # <<>> THEN e[1] ELSE disk[i].first
    /\ opened'[i].list = e \/ (e # <<>> /\ opened'[i].list = <<e[1]>>)

\* A call that grows the list of inode i from l by s, and keeps all of it or
\* its first block as q, leaves every block one owner: the new blocks become i's.
LEMMA GrownOwned ==
  ASSUME TypeOK, NEW own \in Owner, Owned(own), NEW i \in Inode,
         NEW l \in Seq(Block), Mirrors(own, i, l), NEW n \in Nat, NEW s \in NewBlocks(l, n),
         NEW e, e = Extended(l, s),
         MarkUsed(s), next' = Linked(l, s), Recorded(i, l, s, e)
  PROVE  ChainInv'
<1>0. /\ l = <<>> => disk[i].first = NoBlock \/ s = <<>>
      /\ \A j \in Inode \ {i} : disk'[j] = disk[j] /\ opened'[j] = opened[j]
      /\ disk'[i].used /\ opened'[i].count # 0
      /\ disk'[i].first = IF disk[i].first = NoBlock /\ e # <<>> THEN e[1] ELSE disk[i].first
      /\ opened'[i].list = e \/ (e # <<>> /\ opened'[i].list = <<e[1]>>)
  BY DEF Recorded
<1> USE <1>0
<1> DEFINE New == {s[x] : x \in DOMAIN s}
           p == [b \in Block |-> IF b \in New THEN i ELSE own[b]]
<1>1. /\ e \in Seq(Block) /\ Len(l) <= Len(e)
      /\ \A k \in 1 .. Len(l) : e[k] = l[k]
      /\ \A k \in Len(l) + 1 .. Len(e) : e[k] \notin used /\ e[k] \in New
      /\ \A j, k \in Len(l) + 1 .. Len(e) : e[j] = e[k] => j = k
      /\ l = <<>> => e = s
      /\ l # <<>> /\ Len(l) < Len(e) => next[l[Len(l)]] = NoBlock
      /\ \A b \in New : b \in Block /\ b \notin used
      /\ \A b \in Block : (\A k \in Joints(l, e) : e[k] # b) => next'[b] = next[b]
      /\ \A b \in Block : (\E k \in Joints(l, e) : e[k] = b)
           => \E k \in Joints(l, e) : e[k] = b /\ next'[b] = e[k+1]
  <2>1. Links /\ \A k \in 1 .. Len(l) : l[k] \in used
    BY DEF Owned, Mirrors
  <2>2. Grown(l, s, e)
    BY <2>1, GrowthFacts
  <2> QED BY <2>2 DEF Grown
<1>2. used' = used \cup New
  BY DEF MarkUsed
<1> HIDE DEF New
<1>3. p \in Owner /\ \A b \in Block : p[b] = IF b \in New THEN i ELSE own[b]
  BY DEF Owner
<1> HIDE DEF p
<1>4. /\ \A k \in 1 .. Len(l) : l[k] \in Block /\ l[k] \in used /\ own[l[k]] = i
      /\ \A k \in 1 .. Len(e) : e[k] \in Block /\ p[e[k]] = i /\ e[k] \in used'
  <2>1. \A k \in 1 .. Len(l) : l[k] \in Block /\ l[k] \in used /\ own[l[k]] = i
    BY DEF Mirrors
  <2>2. ASSUME NEW k \in 1 .. Len(e) PROVE e[k] \in Block /\ p[e[k]] = i /\ e[k] \in used'
    <3>1. e[k] \in Block
      BY <1>1
    <3>2. k \in 1 .. Len(l) \/ k \in Len(l) + 1 .. Len(e)
      BY <1>1
    <3>3. CASE k \in 1 .. Len(l)
      BY <1>1, <1>2, <1>3, <2>1, <3>1, <3>3
    <3>4. CASE k \in Len(l) + 1 .. Len(e)
      BY <1>1, <1>2, <1>3, <3>1, <3>4
    <3> QED BY <3>2, <3>3, <3>4
  <2> QED BY <2>1, <2>2
<1>5. \A k \in Joints(l, e) : k \in 1 .. Len(e) /\ k + 1 \in 1 .. Len(e) /\ k + 1 \in Len(l) + 1 .. Len(e)
  BY <1>1 DEF Joints
<1>6. ASSUME NEW b \in Block
      PROVE  \/ next'[b] = next[b] /\ \A k \in Joints(l, e) : e[k] # b
             \/ /\ next[b] = NoBlock /\ next'[b] \in New /\ p[b] = i
                /\ \E k \in Joints(l, e) : e[k] = b /\ next'[b] = e[k+1]
  <2>1. CASE \A k \in Joints(l, e) : e[k] # b
    BY <1>1, <2>1
  <2>2. CASE \E k \in Joints(l, e) : e[k] = b
    <3>1. PICK k \in Joints(l, e) : e[k] = b /\ next'[b] = e[k+1]
      BY <1>1, <2>2
    <3>2. next'[b] \in New /\ p[b] = i
      BY <1>1, <1>4, <1>5, <3>1
    <3>3. next[b] = NoBlock
      <4>1. CASE k = Len(l)
        <5>1. l # <<>> /\ Len(l) < Len(e) /\ e[k] = l[k]
          BY <1>1, <3>1, <4>1 DEF Joints
        <5> QED BY <1>1, <3>1, <4>1, <5>1
      <4>2. CASE k # Len(l)
        <5>1. k \in Len(l) + 1 .. Len(e)
          BY <3>1, <4>2, <1>1 DEF Joints
        <5> QED BY <1>1, <3>1, <5>1 DEF Owned, Links
      <4> QED BY <4>1, <4>2
    <3> QED BY <3>1, <3>2, <3>3
  <2> QED BY <2>1, <2>2
<1>7. Links'
  <2>1. ASSUME NEW b \in Block, b \notin used' PROVE next'[b] = NoBlock
    <3>1. b \notin used /\ \A k \in Joints(l, e) : e[k] # b
      BY <1>2, <1>4, <1>5, <2>1
    <3> QED BY <1>6, <3>1 DEF Owned, Links
  <2>2. ASSUME NEW b \in Block, next'[b] # NoBlock PROVE next'[b] \in used'
    BY <1>2, <1>6, <2>2 DEF Owned, Links
  <2>3. ASSUME NEW a \in Block, NEW b \in Block, next'[a] = next'[b], next'[a] # NoBlock
        PROVE  a = b
    <3>1. CASE next'[a] = next[a] /\ next'[b] = next[b]
      BY <2>3, <3>1 DEF Owned, Links
    <3>2. CASE next'[a] # next[a] /\ next'[b] # next[b]
      <4>1. PICK j \in Joints(l, e) : e[j] = a /\ next'[a] = e[j+1]
        BY <1>6, <3>2
      <4>2. PICK k \in Joints(l, e) : e[k] = b /\ next'[b] = e[k+1]
        BY <1>6, <3>2
      <4>3. j + 1 = k + 1
        <5>1. j + 1 \in Len(l) + 1 .. Len(e) /\ k + 1 \in Len(l) + 1 .. Len(e)
          BY <1>5
        <5>2. e[j+1] = e[k+1]
          BY <2>3, <4>1, <4>2
        <5> QED BY <1>1, <5>1, <5>2
      <4>4. j = k
        BY <4>3 DEF Joints
      <4> QED BY <4>1, <4>2, <4>4
    <3>3. CASE next'[a] # next[a] /\ next'[b] = next[b]
      <4>1. next'[a] \in New /\ next[b] \in used
        BY <1>6, <2>3, <3>3 DEF Owned, Links
      <4> QED BY <1>1, <2>3, <3>3, <4>1
    <3>4. CASE next'[a] = next[a] /\ next'[b] # next[b]
      <4>1. next'[b] \in New /\ next[a] \in used
        BY <1>6, <2>3, <3>4 DEF Owned, Links
      <4> QED BY <1>1, <2>3, <3>4, <4>1
    <3> QED BY <3>1, <3>2, <3>3, <3>4
  <2> QED BY <2>1, <2>2, <2>3 DEF Links
<1>8. Along(p)'
  <2>1. ASSUME NEW b \in Block, next'[b] # NoBlock PROVE p[next'[b]] = p[b]
    <3>1. CASE next'[b] = next[b]
      <4>1. next[b] \in Block /\ next[b] \in used /\ b \in used /\ own[next[b]] = own[b]
        BY <2>1, <3>1 DEF Owned, Links, Along, TypeOK, BlockTypeOK
      <4> QED BY <1>1, <1>3, <3>1, <4>1
    <3>2. CASE next'[b] # next[b]
      BY <1>1, <1>3, <1>6, <3>2
    <3> QED BY <3>1, <3>2
  <2> QED BY <2>1 DEF Along
<1>9. \A b \in Block : b \in used => p[b] = own[b]
  BY <1>1, <1>3
<1>10. ASSUME NEW j \in Inode, disk[j].first # NoBlock
       PROVE  /\ disk[j].first \in used' /\ p[disk[j].first] = j
              /\ \A b \in Block : next'[b] # disk[j].first
  <2>1. /\ disk[j].first \in Block /\ disk[j].first \in used /\ own[disk[j].first] = j
        /\ \A b \in Block : next[b] # disk[j].first
    BY <1>10 DEF Owned, Heads, TypeOK, BlockTypeOK
  <2>2. disk[j].first \notin New
    BY <1>1, <2>1
  <2> QED BY <1>2, <1>6, <1>9, <2>1, <2>2
<1>11. Heads(p)'
  <2>1. ASSUME NEW j \in Inode, disk'[j].first # NoBlock
        PROVE  /\ disk'[j].used /\ disk'[j].first \in used' /\ p[disk'[j].first] = j
               /\ \A b \in Block : next'[b] # disk'[j].first
    <3>1. CASE j # i
      BY <1>10, <2>1, <3>1 DEF Owned, Heads
    <3>2. CASE j = i /\ disk[i].first # NoBlock
      BY <1>10, <3>2
    <3>3. CASE j = i /\ disk[i].first = NoBlock
      <4>1. e # <<>> /\ disk'[i].first = e[1]
        BY <2>1, <3>3
      <4>2. l = <<>>
        BY <3>3, <1>4 DEF Mirrors, Block, NoBlock
      <4>3. 1 \in Len(l) + 1 .. Len(e) /\ 1 \in 1 .. Len(e)
        BY <1>1, <4>1, <4>2
      <4>4. e[1] \notin used /\ e[1] \in used' /\ p[e[1]] = i /\ e[1] \in Block
        BY <1>1, <1>4, <4>3
      <4>5. ASSUME NEW b \in Block, next'[b] = e[1] PROVE FALSE
        <5>1. CASE next'[b] = next[b]
          BY <4>4, <4>5, <5>1 DEF Owned, Links, Block, NoBlock
        <5>2. CASE next'[b] # next[b]
          <6>1. PICK k \in Joints(l, e) : next'[b] = e[k+1]
            BY <1>6, <5>2
          <6>2. k + 1 = 1
            <7>1. k + 1 \in Len(l) + 1 .. Len(e) /\ e[k+1] = e[1]
              BY <1>5, <4>5, <6>1
            <7> QED BY <1>1, <4>3, <7>1
          <6> QED BY <6>2 DEF Joints
        <5> QED BY <5>1, <5>2
      <4> QED BY <3>3, <4>1, <4>4, <4>5
    <3> QED BY <3>1, <3>2, <3>3
  <2> QED BY <2>1 DEF Heads
<1>12. e # <<>> => e[1] = disk'[i].first
  <2>1. CASE disk[i].first # NoBlock /\ e # <<>>
    <3>1. l # <<>>
      BY <1>1, <2>1
    <3>2. 1 \in 1 .. Len(l) /\ l[1] = disk[i].first
      BY <3>1 DEF Mirrors
    <3> QED BY <1>1, <2>1, <3>2
  <2> QED BY <2>1
<1>13. ASSUME NEW k \in 1 .. Len(e) - 1 PROVE next'[e[k]] = e[k+1]
  <2>1. k \in 1 .. Len(e) /\ e[k] \in Block
    BY <1>1, <1>4
  <2>2. CASE k >= Len(l)
    <3>1. k \in Joints(l, e)
      BY <2>2 DEF Joints
    <3>2. PICK j \in Joints(l, e) : e[j] = e[k] /\ next'[e[k]] = e[j+1]
      BY <1>1, <2>1, <3>1
    <3>3. /\ j \in Nat /\ k \in Nat /\ Len(l) \in Nat
          /\ j = Len(l) \/ j \in Len(l) + 1 .. Len(e)
          /\ k = Len(l) \/ k \in Len(l) + 1 .. Len(e)
      BY <1>1, <3>1 DEF Joints
    <3>4. \A x \in Joints(l, e) : x = Len(l) => e[x] \in used
      BY <1>1, <1>4 DEF Joints
    <3>5. j = k
      BY <1>1, <3>1, <3>2, <3>3, <3>4
    <3> QED BY <3>2, <3>5
  <2>3. CASE k < Len(l)
    <3>1. k \in 1 .. Len(l) - 1 /\ k + 1 \in 1 .. Len(l) /\ k \in 1 .. Len(l)
      BY <2>3
    <3>2. next[l[k]] = l[k+1] /\ l[k+1] \in Block /\ e[k] = l[k] /\ e[k+1] = l[k+1]
      BY <1>1, <1>4, <3>1 DEF Mirrors
    <3>3. next[e[k]] # NoBlock
      BY <3>2 DEF Block, NoBlock
    <3> QED BY <1>6, <2>1, <3>2, <3>3
  <2> QED BY <1>1, <2>2, <2>3
<1>14. ASSUME NEW j \in 1 .. Len(e), NEW k \in 1 .. Len(e), e[j] = e[k] PROVE j = k
  <2>1. /\ j \in 1 .. Len(l) \/ j \in Len(l) + 1 .. Len(e)
        /\ k \in 1 .. Len(l) \/ k \in Len(l) + 1 .. Len(e)
    BY <1>1
  <2>2. \A x \in 1 .. Len(l) : e[x] = l[x] /\ e[x] \in used
    BY <1>1, <1>4
  <2>3. \A x, y \in 1 .. Len(l) : l[x] = l[y] => x = y
    BY DEF Mirrors
  <2> QED BY <1>1, <1>14, <2>1, <2>2, <2>3
<1>15. ASSUME NEW j \in Inode, j # i
       PROVE  /\ opened'[j].count = 0 => opened'[j].list = <<>>
              /\ Mirrors(p, j, opened[j].list)'
  <2> DEFINE t == opened[j].list
  <2>1. t \in Seq(Block) /\ Mirrors(own, j, t) /\ opened'[j] = opened[j] /\ disk'[j] = disk[j]
    BY <1>15, OpenedType DEF Owned, Lists
  <2>2. opened'[j].count = 0 => opened'[j].list = <<>>
    BY <2>1 DEF Owned, Lists
  <2> HIDE DEF t
  <2>3. \A k \in 1 .. Len(t) : t[k] \in Block /\ t[k] \in used' /\ p[t[k]] = j
    BY <1>2, <1>9, <2>1 DEF Mirrors
  <2>4. ASSUME NEW k \in 1 .. Len(t) - 1 PROVE next'[t[k]] = t[k+1]
    <3>1. k \in 1 .. Len(t) /\ k + 1 \in 1 .. Len(t) /\ next[t[k]] = t[k+1]
      BY <2>1 DEF Mirrors
    <3>2. t[k] \in Block /\ next[t[k]] # NoBlock
      BY <2>3, <3>1 DEF Block, NoBlock
    <3> QED BY <1>6, <3>1, <3>2
  <2>5. /\ t # <<>> => t[1] = disk'[j].first
        /\ \A x, y \in 1 .. Len(t) : t[x] = t[y] => x = y
    BY <2>1 DEF Mirrors
  <2>6. opened'[j].list = t
    BY <2>1 DEF t
  <2> QED BY <2>2, <2>3, <2>4, <2>5, <2>6 DEF Mirrors
<1>16. Mirrors(p, i, opened[i].list)'
  <2>1. CASE opened'[i].list = e
    BY <1>4, <1>12, <1>13, <1>14, <2>1 DEF Mirrors
  <2>2. CASE e # <<>> /\ opened'[i].list = <<e[1]>>
    <3>1. 1 \in 1 .. Len(e)
      BY <1>1, <2>2
    <3>2. e[1] = disk'[i].first /\ e[1] \in used' /\ p[e[1]] = i
      BY <1>4, <1>12, <2>2, <3>1
    <3> QED BY <2>2, <3>2 DEF Mirrors
  <2> QED BY <2>1, <2>2
<1>17. Lists(p)'
  BY <1>15, <1>16 DEF Lists
<1>18. Owner' = Owner
  BY DEF Owner
<1> QED BY <1>3, <1>7, <1>8, <1>11, <1>17, <1>18 DEF ChainInv, Owned

\* A call of a device that loads or grows the list of its inode.
LEMMA GrowingCall ==
  ASSUME RecordInv, ChainInv, NEW h \in Handle, handle[h] # NoDev, NEW i, i = handle[h].inode,
         NEW m \in OpenInode, m.list = opened[i].list, m.first = opened[i].first,
         NEW k \in Nat, NEW l \in ListFor(m, k), NEW n \in Nat, NEW s \in NewBlocks(l, n),
         k = 1 \/ k = n,
         MarkUsed(s), next' = Linked(l, s),
         NEW r, opened' = [opened EXCEPT ![i] = r], r.count = opened[i].count,
         NEW e, e = Extended(l, s), r.list = e \/ (e # <<>> /\ r.list = <<e[1]>>),
         \A j \in Inode \ {i} : disk'[j] = disk[j], disk'[i].used,
         disk'[i].first = Attached(m, l, s).first
  PROVE  ChainInv'
<1>1. /\ i \in Inode /\ opened[i].count \in Nat \ {0} /\ disk[i].first = opened[i].first
  BY Holder
<1>2. PICK own \in Owner : Owned(own)
  BY DEF ChainInv
<1>3. /\ l \in Seq(Block) /\ Mirrors(own, i, l)
      /\ l = <<>> => disk[i].first = NoBlock \/ k > BlockCount
  BY <1>1, <1>2, ListForMirrors DEF RecordInv
<1>4. k > BlockCount => s = <<>>
  BY BlockCountAssumption DEF NewBlocks
<1>5. l = <<>> => disk[i].first = NoBlock \/ s = <<>>
  BY <1>3, <1>4
<1>6. /\ \A j \in Inode \ {i} : opened'[j] = opened[j]
      /\ opened'[i].count # 0
      /\ opened'[i].list = e \/ (e # <<>> /\ opened'[i].list = <<e[1]>>)
  BY <1>1 DEF RecordInv, TypeOK
<1>7. disk'[i].first = IF disk[i].first = NoBlock /\ e # <<>> THEN e[1] ELSE disk[i].first
  <2>1. Attached(m, l, s)
          = [m EXCEPT !.list = e, !.first = IF @ = NoBlock /\ e # <<>> THEN e[1] ELSE @]
    BY DEF Attached
  <2>2. Attached(m, l, s).first = IF m.first = NoBlock /\ e # <<>> THEN e[1] ELSE m.first
    BY <2>1 DEF OpenInode
  <2> QED BY <1>1, <2>2
<1>8. Recorded(i, l, s, e)
  BY <1>5, <1>6, <1>7 DEF Recorded
<1>9. TypeOK /\ l \in Seq(Block) /\ Mirrors(own, i, l) /\ i \in Inode
  BY <1>1, <1>3 DEF RecordInv
<1> QED BY <1>2, <1>8, <1>9, GrownOwned

LEMMA ReadDevOwned ==
  ASSUME RecordInv, ChainInv, NEW h \in Handle, NEW pos \in Pos, ReadDev(h, pos)
  PROVE  ChainInv'
<1>0. PICK i : i = handle[h].inode
  OBVIOUS
<1>1. handle[h] # NoDev /\ disk' = disk /\ UNCHANGED blockVars
  BY DEF ReadDev
<1>2. PICK l \in ListFor(opened[i], 1) : opened' = [opened EXCEPT ![i].list = l]
  BY <1>0 DEF ReadDev
<1>3. /\ i \in Inode /\ opened[i] \in OpenInode
      /\ disk[i].used /\ disk[i].first = opened[i].first
  BY <1>0, <1>1, Holder, OpenedType DEF RecordInv
<1>4. l \in Seq(Block)
  BY <1>3, ListForType DEF RecordInv
<1> DEFINE r == [opened[i] EXCEPT !.list = l]
<1>5. opened' = [opened EXCEPT ![i] = r] /\ r.count = opened[i].count /\ r.list = l
  BY <1>2, <1>3 DEF OpenInode
<1> HIDE DEF r
<1>6. <<>> \in NewBlocks(l, 0)
  BY <1>4 DEF NewBlocks
<1>7. Extended(l, <<>>) = l
  BY <1>4 DEF Extended
<1>8. MarkUsed(<<>>)
  BY <1>1 DEF MarkUsed, blockVars
<1>9. next' = Linked(l, <<>>)
  <2> DEFINE From(b) == {k \in 1 .. Len(l) - 1 : k >= Len(l) /\ l[k] = b}
  <2>1. \A b \in Block : From(b) = {}
    BY <1>4
  <2>2. Linked(l, <<>>) = [b \in Block |-> IF From(b) = {} THEN next[b]
                                          ELSE l[1 + CHOOSE k \in From(b) : TRUE]]
    BY <1>7 DEF Linked
  <2> HIDE DEF From
  <2>3. Linked(l, <<>>) = [b \in Block |-> next[b]]
    BY <2>1, <2>2
  <2> QED BY <1>1, <2>3 DEF blockVars, RecordInv, TypeOK, BlockTypeOK
<1>10. Attached(opened[i], l, <<>>).first = opened[i].first
  <2>1. l # <<>> => l[1] = disk[i].first
    <3>1. PICK own \in Owner : Owned(own)
      BY DEF ChainInv
    <3>2. Mirrors(own, i, l)
      BY <1>3, <3>1, ListForMirrors DEF RecordInv
    <3> QED BY <3>2 DEF Mirrors
  <2>2. Attached(opened[i], l, <<>>)
          = [opened[i] EXCEPT !.list = l, !.first = IF @ = NoBlock /\ l # <<>> THEN l[1] ELSE @]
    BY <1>7 DEF Attached
  <2> QED BY <1>3, <2>1, <2>2 DEF OpenInode
<1>11. /\ \A j \in Inode \ {i} : disk'[j] = disk[j]
       /\ disk'[i].used /\ disk'[i].first = Attached(opened[i], l, <<>>).first
  BY <1>1, <1>3, <1>10
<1>12. PICK e : e = l /\ e = Extended(l, <<>>)
  BY <1>7
<1>13. PICK s : s = <<>>
  OBVIOUS
<1>14. s \in NewBlocks(l, 0) /\ MarkUsed(s) /\ next' = Linked(l, s) /\ e = Extended(l, s)
  BY <1>6, <1>8, <1>9, <1>12, <1>13
<1>15. disk'[i].first = Attached(opened[i], l, s).first
  BY <1>11, <1>13
<1>16. r.list = e \/ (e # <<>> /\ r.list = <<e[1]>>)
  BY <1>5, <1>12
<1>17. handle[h] # NoDev
  BY <1>1
<1>18. opened' = [opened EXCEPT ![i] = r] /\ r.count = opened[i].count
  BY <1>5
<1>19. \A j \in Inode \ {i} : disk'[j] = disk[j]
  BY <1>11
<1>20. disk'[i].used
  BY <1>11
<1>21. opened[i] \in OpenInode
  BY <1>3
<1> QED BY <1>0, <1>14, <1>15, <1>16, <1>17, <1>18, <1>19, <1>20, <1>21, GrowingCall

LEMMA WriteDevOwned ==
  ASSUME RecordInv, ChainInv, NEW h \in Handle, NEW pos \in Pos, NEW len \in Pos,
         WriteDev(h, pos, len)
  PROVE  ChainInv'
<1>0. PICK i : i = handle[h].inode
  OBVIOUS
<1> DEFINE m == opened[i]
           n == Least(BlocksFor((pos + len) - 1), BlockCount)
           Effect(l, s) ==
             /\ MarkUsed(s)
             /\ next' = Linked(l, s)
             /\ opened' = [opened EXCEPT ![i] = Written(m, l, s, pos, pos + len)]
             /\ disk' = FlushedFirst(i, m, Attached(m, l, s))
<1>1. handle[h] # NoDev /\ len > 0
  BY DEF WriteDev, NoDev
<1>2. PICK l \in ListFor(m, 1) : \E s \in NewBlocks(l, n) : Effect(l, s)
  BY <1>0 DEF WriteDev
<1>3. PICK s \in NewBlocks(l, n) : Effect(l, s)
  BY <1>2
<1>4. n \in Nat
  <2>1. (pos + len) - 1 \in Nat
    BY <1>1 DEF Pos
  <2>2. BlocksFor((pos + len) - 1) \in Nat
    BY <2>1, BlocksForType
  <2> QED BY <2>2, BlockCountAssumption DEF Least
<1> HIDE DEF n
<1>5. i \in Inode /\ m \in OpenInode /\ disk[i].used /\ disk[i].first = m.first
  BY <1>0, <1>1, Holder, OpenedType DEF RecordInv
<1>6. l \in Seq(Block)
  BY <1>5, ListForType DEF RecordInv
<1> DEFINE a == Attached(m, l, s)
           z == SizeAfterWrite(a.size, pos, pos + len, Len(a.list))
           r == [a EXCEPT !.size = z]
<1>7. a \in OpenInode /\ a.count = m.count /\ a.list = Extended(l, s)
  BY <1>4, <1>5, <1>6, GrownType DEF RecordInv
<1> HIDE DEF a
<1>8. opened' = [opened EXCEPT ![i] = r]
  BY <1>3 DEF a, Written
<1> HIDE DEF z
<1>9. r.count = m.count /\ r.list = Extended(l, s)
  BY <1>7 DEF OpenInode
<1> HIDE DEF r
<1>10. /\ \A j \in Inode \ {i} : disk'[j] = disk[j]
       /\ disk'[i].used /\ disk'[i].first = a.first
  <2>1. disk' = FlushedFirst(i, m, a)
    BY <1>3 DEF a
  <2>2. CASE m.first = a.first
    BY <1>5, <2>1, <2>2 DEF FlushedFirst
  <2>3. CASE m.first # a.first
    <3> DEFINE f == [m EXCEPT !.first = a.first]
    <3>1. f \in OpenInode /\ f.first = a.first
      BY <1>5, <1>7 DEF OpenInode
    <3>2. disk' = Flushed(i, f)
      BY <2>1, <2>3 DEF FlushedFirst
    <3> HIDE DEF f
    <3>3. /\ \A j \in Inode \ {i} : Flushed(i, f)[j] = disk[j]
          /\ Flushed(i, f)[i] = [used |-> TRUE, first |-> f.first, size |-> f.size]
      BY <1>5, <3>1, FlushedType DEF RecordInv
    <3> QED BY <3>1, <3>2, <3>3
  <2> QED BY <2>2, <2>3
<1>11. PICK e : e = Extended(l, s)
  OBVIOUS
<1>12. MarkUsed(s) /\ next' = Linked(l, s)
  BY <1>3
<1>13. disk'[i].first = Attached(m, l, s).first
  BY <1>10 DEF a
<1>14. r.list = e
  BY <1>9, <1>11
<1> QED BY <1>0, <1>1, <1>4, <1>5, <1>8, <1>9, <1>10, <1>11, <1>12, <1>13, <1>14, GrowingCall, ZenonT(30)

LEMMA TruncateUpOwned ==
  ASSUME RecordInv, ChainInv, NEW h \in Handle, NEW len \in Pos,
         TruncateUp(h, len) \/ TruncateInLastBlock(h, len)
  PROVE  ChainInv'
<1>0. PICK i : i = handle[h].inode
  OBVIOUS
<1> DEFINE m == [opened[i] EXCEPT !.size = len]
           n == BlocksFor(len - 1)
           Effect(l, s, a) ==
             /\ MarkUsed(s)
             /\ next' = Linked(l, s)
             /\ \/ opened' = [opened EXCEPT ![i] = a]
                \/ opened' = [opened EXCEPT ![i] =
                     IF n <= Len(a.list) THEN [a EXCEPT !.list = <<a.list[1]>>] ELSE a]
             /\ disk' = Flushed(i, a)
<1>1. handle[h] # NoDev
  <2>1. handle[h].rw
    BY DEF TruncateUp, TruncateInLastBlock
  <2> HIDE DEF m, n, Effect
  <2> QED BY <2>1 DEF NoDev
<1>2. PICK l \in ListFor(m, n) : \E s \in NewBlocks(l, n) : Effect(l, s, Attached(m, l, s))
  <2>1. CASE TruncateUp(h, len)
    BY <1>0, <2>1 DEF TruncateUp
  <2>2. CASE TruncateInLastBlock(h, len)
    BY <1>0, <2>2 DEF TruncateInLastBlock
  <2> QED BY <2>1, <2>2
<1>3. PICK s \in NewBlocks(l, n) : Effect(l, s, Attached(m, l, s))
  BY <1>2
<1>4. /\ i \in Inode /\ opened[i] \in OpenInode
      /\ len > opened[i].size \/ len \in 1 .. opened[i].size - 1
  <2>1. i \in Inode /\ opened[i] \in OpenInode
    BY <1>0, <1>1, Holder, OpenedType DEF RecordInv
  <2>2. len > opened[i].size \/ len \in 1 .. opened[i].size - 1
    BY <1>0 DEF TruncateUp, TruncateInLastBlock
  <2> QED BY <2>1, <2>2
<1>5. n \in Nat \ {0}
  BY <1>4, BlocksKeptType DEF RecordInv
<1>6. /\ m \in OpenInode /\ m.count = opened[i].count
      /\ m.list = opened[i].list /\ m.first = opened[i].first
  BY <1>4 DEF OpenInode
<1> HIDE DEF m, n
<1>7. l \in Seq(Block)
  BY <1>5, <1>6, ListForType DEF RecordInv
<1> DEFINE a == Attached(m, l, s)
<1>8. a \in OpenInode /\ a.count = m.count /\ a.list = Extended(l, s)
  BY <1>5, <1>6, <1>7, GrownType DEF RecordInv
<1>9. /\ MarkUsed(s) /\ next' = Linked(l, s) /\ disk' = Flushed(i, a)
      /\ \/ opened' = [opened EXCEPT ![i] = a]
         \/ opened' = [opened EXCEPT ![i] =
              IF n <= Len(a.list) THEN [a EXCEPT !.list = <<a.list[1]>>] ELSE a]
  BY <1>3
<1>10. /\ \A j \in Inode \ {i} : disk'[j] = disk[j]
       /\ disk'[i].used /\ disk'[i].first = a.first
  <2> HIDE DEF a
  <2>1. /\ \A j \in Inode \ {i} : Flushed(i, a)[j] = disk[j]
        /\ Flushed(i, a)[i] = [used |-> TRUE, first |-> a.first, size |-> a.size]
    BY <1>4, <1>8, FlushedType DEF RecordInv
  <2> QED BY <1>9, <2>1
<1>11. disk'[i].first = Attached(m, l, s).first
  BY <1>10
<1> HIDE DEF a
<1>12. PICK e : e = Extended(l, s)
  OBVIOUS
<1>13. PICK r : /\ opened' = [opened EXCEPT ![i] = r]
                /\ r.count = a.count
                /\ r.list = e \/ (e # <<>> /\ r.list = <<e[1]>>)
  <2>1. CASE opened' = [opened EXCEPT ![i] = a]
    BY <1>8, <1>12, <2>1
  <2>2. CASE opened' = [opened EXCEPT ![i] =
              IF n <= Len(a.list) THEN [a EXCEPT !.list = <<a.list[1]>>] ELSE a]
    <3>1. CASE n <= Len(a.list)
      <4> DEFINE r == [a EXCEPT !.list = <<a.list[1]>>]
      <4>1. r.count = a.count /\ r.list = <<a.list[1]>>
        BY <1>8 DEF OpenInode
      <4>2. a.list = e /\ e # <<>>
        BY <1>5, <1>8, <1>12, <3>1 DEF OpenInode
      <4>3. opened' = [opened EXCEPT ![i] = r]
        BY <2>2, <3>1
      <4> HIDE DEF r
      <4> QED BY <4>1, <4>2, <4>3
    <3>2. CASE ~(n <= Len(a.list))
      BY <1>8, <1>12, <2>2, <3>2
    <3> QED BY <3>1, <3>2
  <2> QED BY <1>9, <2>1, <2>2
<1>14. \A j \in Inode \ {i} : disk'[j] = disk[j]
  BY <1>10
<1>15. disk'[i].used
  BY <1>10
<1>16. r.list = e \/ (e # <<>> /\ r.list = <<e[1]>>)
  BY <1>13
<1>17. r.count = opened[i].count /\ opened' = [opened EXCEPT ![i] = r]
  BY <1>6, <1>8, <1>13
<1>18. MarkUsed(s) /\ next' = Linked(l, s)
  BY <1>9
<1>19. n \in Nat
  BY <1>5
<1> QED BY <1>0, <1>1, <1>6, <1>11, <1>12, <1>14, <1>15, <1>16, <1>17, <1>18, <1>19, GrowingCall

-----------------------------------------------------------------------------
(* Calls that change no link.                                               *)

\* Every file keeps its head and its list, or loses them.
LEMMA SameLinksOwned ==
  ASSUME ChainInv, used' = used, next' = next,
         \A i \in Inode :
            /\ \/ /\ disk'[i].first = disk[i].first
                  /\ disk[i].used => disk'[i].used
                  /\ opened'[i].list = opened[i].list \/ opened'[i].list = <<>>
               \/ disk'[i].first = NoBlock /\ opened'[i].list = <<>>
            /\ opened'[i].count = 0 => opened'[i].list = <<>>
  PROVE  ChainInv'
<1>1. PICK own \in Owner : Owned(own)
  BY DEF ChainInv
<1>2. Links' /\ Along(own)'
  BY <1>1 DEF Owned, Links, Along
<1>3. Heads(own)'
  BY <1>1 DEF Owned, Heads
<1>4. Lists(own)'
  <2>1. ASSUME NEW i \in Inode
        PROVE  Mirrors(own, i, opened[i].list)'
    <3>1. CASE opened'[i].list = <<>>
      BY <3>1 DEF Mirrors
    <3>2. CASE opened'[i].list = opened[i].list /\ disk'[i].first = disk[i].first
      <4>1. Mirrors(own, i, opened[i].list)
        BY <1>1 DEF Owned, Lists
      <4> QED BY <3>2, <4>1 DEF Mirrors
    <3> QED BY <3>1, <3>2
  <2> QED BY <2>1 DEF Lists
<1>5. Owner' = Owner
  BY DEF Owner
<1> QED BY <1>1, <1>2, <1>3, <1>4, <1>5 DEF ChainInv, Owned

\* The list of an entry that counts nobody is empty.
LEMMA UnopenedList == ASSUME ChainInv, NEW i \in Inode, opened[i].count = 0
                      PROVE  opened[i].list = <<>>
BY DEF ChainInv, Owned, Lists

LEMMA OpenOwned ==
  ASSUME RecordInv, ChainInv, NEW h \in Handle, NEW i \in Inode, NEW w \in BOOLEAN,
         UNCHANGED blockVars,
         opened' = [opened EXCEPT ![i] = WithOpener(i, disk[i], h, w)],
         disk' = disk \/ disk' = [disk EXCEPT ![i].used = TRUE]
  PROVE  ChainInv'
<1>1. used' = used /\ next' = next
  BY DEF blockVars
<1>2. opened[i] \in OpenInode
  BY OpenedType DEF RecordInv
<1>3. /\ WithOpener(i, disk[i], h, w).list \in {opened[i].list, <<>>}
      /\ WithOpener(i, disk[i], h, w).count # 0
  <2>1. CASE opened[i].count = 0
    BY <2>1 DEF WithOpener
  <2>2. CASE opened[i].count # 0
    <3> DEFINE r == [opened[i] EXCEPT !.count = @ + 1, !.writer = IF w THEN h ELSE @]
    <3>1. r.list = opened[i].list /\ r.count = opened[i].count + 1
      BY <1>2 DEF OpenInode
    <3>2. r.count # 0
      BY <1>2, <3>1 DEF OpenInode
    <3>3. WithOpener(i, disk[i], h, w) = r
      BY <2>2 DEF WithOpener
    <3> HIDE DEF r
    <3> QED BY <3>1, <3>2, <3>3
  <2> QED BY <2>1, <2>2
<1>4. ASSUME NEW j \in Inode
      PROVE  /\ disk'[j].first = disk[j].first
             /\ disk[j].used => disk'[j].used
             /\ opened'[j].list = opened[j].list \/ opened'[j].list = <<>>
             /\ opened'[j].count = 0 => opened'[j].list = <<>>
  <2>1. disk'[j].first = disk[j].first /\ (disk[j].used => disk'[j].used)
    BY DEF RecordInv, TypeOK, DiskInode
  <2>2. CASE j = i
    BY <1>3, <2>1, <2>2 DEF RecordInv, TypeOK
  <2>3. CASE j # i
    <3>1. opened'[j] = opened[j]
      BY <2>3 DEF RecordInv, TypeOK
    <3> QED BY <2>1, <3>1, UnopenedList
  <2> QED BY <2>2, <2>3
<1> QED BY <1>1, <1>4, SameLinksOwned

\* Flushing and closing: the record is written as it is in memory, and a
\* closed entry keeps its list or is blank.
LEMMA CloseOwned ==
  ASSUME RecordInv, ChainInv, NEW h \in Handle, FlushDev(h) \/ CloseDev(h)
  PROVE  ChainInv'
<1>0. PICK i : i = handle[h].inode
  OBVIOUS
<1>1. handle[h] # NoDev
  BY DEF FlushDev, CloseDev, NoDev
<1>2. /\ i \in Inode /\ opened[i] \in OpenInode /\ disk[i].used /\ disk[i].first = opened[i].first
      /\ opened[i].count \in Nat \ {0}
  BY <1>0, <1>1, Holder, OpenedType DEF RecordInv
<1>3. used' = used /\ next' = next
  BY DEF FlushDev, CloseDev, blockVars
<1>4. disk' = Flushed(i, opened[i]) \/ disk' = disk
  BY <1>0 DEF FlushDev, CloseDev
<1>5. \A j \in Inode : disk'[j].first = disk[j].first /\ (disk[j].used => disk'[j].used)
  <2>1. /\ \A j \in Inode \ {i} : Flushed(i, opened[i])[j] = disk[j]
        /\ Flushed(i, opened[i])[i]
             = [used |-> TRUE, first |-> opened[i].first, size |-> opened[i].size]
    BY <1>2, FlushedType DEF RecordInv
  <2> QED BY <1>2, <1>4, <2>1
<1>6. PICK r : /\ opened' = [opened EXCEPT ![i] = r]
               /\ r.list = opened[i].list \/ r.list = <<>>
               /\ r.count = 0 => r.list = <<>>
  <2>1. CASE FlushDev(h)
    <3>1. opened' = [opened EXCEPT ![i] = opened[i]]
      BY <1>2, <2>1 DEF FlushDev, RecordInv, TypeOK
    <3> QED BY <1>2, <3>1
  <2>2. CASE CloseDev(h) /\ opened[i].count = 1
    <3>1. opened' = [opened EXCEPT ![i] = NotOpen]
      BY <1>0, <2>2 DEF CloseDev
    <3>2. NotOpen.list = <<>>
      BY DEF NotOpen
    <3> QED BY <3>1, <3>2
  <2>3. CASE CloseDev(h) /\ opened[i].count # 1
    <3> DEFINE r == [opened[i] EXCEPT !.count = @ - 1, !.writer = IF @ = h THEN NoHandle ELSE @]
    <3>1. opened' = [opened EXCEPT ![i] = r]
      BY <1>0, <2>3 DEF CloseDev
    <3>2. r.list = opened[i].list /\ r.count = opened[i].count - 1
      BY <1>2 DEF OpenInode
    <3>3. r.count # 0
      BY <1>2, <2>3, <3>2
    <3> HIDE DEF r
    <3> QED BY <3>1, <3>2, <3>3
  <2> QED BY <2>1, <2>2, <2>3
<1>7. ASSUME NEW j \in Inode
      PROVE  /\ opened'[j].list = opened[j].list \/ opened'[j].list = <<>>
             /\ opened'[j].count = 0 => opened'[j].list = <<>>
  <2>1. CASE j = i
    BY <1>6, <2>1 DEF RecordInv, TypeOK
  <2>2. CASE j # i
    <3>1. opened'[j] = opened[j]
      BY <1>6, <2>2 DEF RecordInv, TypeOK
    <3> QED BY <3>1, UnopenedList
  <2> QED BY <2>1, <2>2
<1> QED BY <1>3, <1>5, <1>7, SameLinksOwned

LEMMA TruncateToZeroOwned ==
  ASSUME RecordInv, ChainInv, NEW h \in Handle, TruncateToZero(h)
  PROVE  ChainInv'
<1>0. PICK i : i = handle[h].inode
  OBVIOUS
<1> DEFINE m == [opened[i] EXCEPT !.list = <<>>, !.first = NoBlock, !.size = 0]
<1>1. /\ handle[h].rw /\ opened' = [opened EXCEPT ![i] = m] /\ disk' = Flushed(i, m)
      /\ used' = used /\ next' = next
  BY <1>0 DEF TruncateToZero, blockVars
<1>2. i \in Inode /\ opened[i] \in OpenInode
  BY <1>0, <1>1, Holder, OpenedType DEF RecordInv, NoDev
<1>3. 0 \in Pos /\ <<>> \in Seq(Block)
  BY NodeDevAssumption DEF Pos
<1>4. m \in OpenInode /\ m.list = <<>> /\ m.first = NoBlock
  BY <1>2, <1>3 DEF OpenInode
<1> HIDE DEF m
<1>5. /\ \A j \in Inode \ {i} : disk'[j] = disk[j] /\ opened'[j] = opened[j]
      /\ disk'[i].first = NoBlock /\ opened'[i].list = <<>>
  <2>1. /\ \A j \in Inode \ {i} : Flushed(i, m)[j] = disk[j]
        /\ Flushed(i, m)[i] = [used |-> TRUE, first |-> m.first, size |-> m.size]
    BY <1>2, <1>4, FlushedType DEF RecordInv
  <2> QED BY <1>1, <1>2, <1>4, <2>1 DEF RecordInv, TypeOK
<1>6. \A j \in Inode \ {i} : opened'[j].count = 0 => opened'[j].list = <<>>
  BY <1>5, UnopenedList
<1> QED BY <1>1, <1>5, <1>6, SameLinksOwned

-----------------------------------------------------------------------------
(* Calls that free blocks.                                                  *)

\* Inode i keeps its head and the list q when W is freed and the links of C cleared.
Kept(own, i, W, C, q) ==
    /\ disk'[i].first = disk[i].first /\ disk[i].first \notin W /\ disk'[i].used
    /\ Mirrors(own, i, q)
    /\ \A k \in 1 .. Len(q) : q[k] \notin W
    /\ \A k \in 1 .. Len(q) - 1 : q[k] \notin C

\* Freeing blocks W of inode i that nothing left leads to, and clearing the
\* links of some blocks C of i, leaves every block its owner.
LEMMA FreedOwned ==
  ASSUME TypeOK, NEW own \in Owner, Owned(own), NEW i \in Inode,
         NEW W \in SUBSET Block, NEW C \in SUBSET Block,
         used' = used \ W,
         next' = [b \in Block |-> IF b \in W \cup C THEN NoBlock ELSE next[b]],
         \A b \in W \cup C : own[b] = i,
         \A b \in Block \ (W \cup C) : next[b] \notin W,
         \A j \in Inode \ {i} : disk'[j] = disk[j] /\ opened'[j] = opened[j],
         NEW q \in Seq(Block), opened'[i].list = q, opened'[i].count = 0 => q = <<>>,
         (disk'[i].first = NoBlock /\ q = <<>>) \/ Kept(own, i, W, C, q)
  PROVE  ChainInv'
<1>1. /\ \A b \in W \cup C : next'[b] = NoBlock
      /\ \A b \in Block \ (W \cup C) : next'[b] = next[b]
  OBVIOUS
<1>2. Links'
  BY <1>1 DEF Owned, Links
<1>3. Along(own)'
  BY <1>1 DEF Owned, Along
<1>4. Heads(own)'
  <2>1. ASSUME NEW j \in Inode, disk'[j].first # NoBlock
        PROVE  /\ disk'[j].used /\ disk'[j].first \in used' /\ own[disk'[j].first] = j
               /\ \A b \in Block : next'[b] # disk'[j].first
    <3>1. disk'[j].first = disk[j].first /\ disk'[j].used
      BY <2>1 DEF Owned, Heads, Kept
    <3>2. /\ disk[j].first \in used /\ own[disk[j].first] = j
          /\ \A b \in Block : next[b] # disk[j].first
      BY <2>1, <3>1 DEF Owned, Heads
    <3>3. disk[j].first \notin W
      BY <2>1, <3>2 DEF Kept
    <3> QED BY <1>1, <2>1, <3>1, <3>2, <3>3
  <2> QED BY <2>1 DEF Heads
<1>5. ASSUME NEW j \in Inode, j # i
      PROVE  /\ opened'[j].count = 0 => opened'[j].list = <<>>
             /\ Mirrors(own, j, opened[j].list)'
  <2> DEFINE t == opened[j].list
  <2>1. t \in Seq(Block) /\ Mirrors(own, j, t) /\ opened'[j] = opened[j] /\ disk'[j] = disk[j]
    BY <1>5, OpenedType DEF Owned, Lists
  <2>2. opened'[j].count = 0 => opened'[j].list = <<>>
    BY <2>1 DEF Owned, Lists
  <2> HIDE DEF t
  <2>3. \A k \in 1 .. Len(t) : t[k] \in Block /\ t[k] \in used' /\ own[t[k]] = j
                              /\ next'[t[k]] = next[t[k]]
    BY <1>1, <1>5, <2>1 DEF Mirrors
  <2>4. ASSUME NEW k \in 1 .. Len(t) - 1 PROVE next'[t[k]] = t[k+1]
    <3>1. k \in 1 .. Len(t) /\ next[t[k]] = t[k+1]
      BY <2>1 DEF Mirrors
    <3> QED BY <2>3, <3>1
  <2>5. /\ t # <<>> => t[1] = disk'[j].first
        /\ \A x, y \in 1 .. Len(t) : t[x] = t[y] => x = y
    BY <2>1 DEF Mirrors
  <2>6. opened'[j].list = t
    BY <2>1 DEF t
  <2> QED BY <2>2, <2>3, <2>4, <2>5, <2>6 DEF Mirrors
<1>6. Mirrors(own, i, opened[i].list)'
  <2>1. CASE q = <<>>
    BY <2>1 DEF Mirrors
  <2>2. CASE q # <<>>
    <3>1. /\ disk'[i].first = disk[i].first
          /\ Mirrors(own, i, q)
          /\ \A k \in 1 .. Len(q) : q[k] \notin W
          /\ \A k \in 1 .. Len(q) - 1 : q[k] \notin C
      BY <2>2 DEF Kept
    <3>2. \A k \in 1 .. Len(q) : q[k] \in Block /\ q[k] \in used' /\ own[q[k]] = i
      BY <3>1 DEF Mirrors
    <3>3. ASSUME NEW k \in 1 .. Len(q) - 1 PROVE next'[q[k]] = q[k+1]
      <4>1. k \in 1 .. Len(q) /\ next[q[k]] = q[k+1]
        BY <3>1 DEF Mirrors
      <4> QED BY <1>1, <3>1, <3>2, <4>1
    <3> QED BY <3>1, <3>2, <3>3 DEF Mirrors
  <2> QED BY <2>1, <2>2
<1>7. Lists(own)'
  BY <1>5, <1>6 DEF Lists
<1>8. Owner' = Owner
  BY DEF Owner
<1> QED BY <1>2, <1>3, <1>4, <1>7, <1>8 DEF ChainInv, Owned

\* A chain's first block alone is entered from outside.
LEMMA ReachEntered ==
  ASSUME TypeOK, Links, NEW b \in Block, NEW c \in Block, c \notin Reach(next, b),
         next[c] \in Reach(next, b)
  PROVE  next[c] = b
<1> SUFFICES ASSUME next[c] # b PROVE FALSE
  OBVIOUS
<1>1. PICK e \in Reach(next, b) : next[e] = next[c]
  BY ReachPredecessor
<1>2. e \in Block /\ next[c] # NoBlock
  BY ReachType DEF TypeOK, BlockTypeOK, Block, NoBlock
<1>3. e = c
  BY <1>1, <1>2 DEF Links
<1> QED BY <1>1, <1>3

LEMMA UnlinkOwned ==
  ASSUME RecordInv, ChainInv, NEW i \in Inode, Unlink(i)
  PROVE  ChainInv'
<1>1. PICK own \in Owner : Owned(own)
  BY DEF ChainInv
<1> DEFINE W == Reach(next, disk[i].first)
<1>2. /\ opened[i].count = 0 /\ opened' = opened
      /\ Wipe(W)
      /\ next' = [b \in Block |-> IF b \in W THEN NoBlock ELSE next[b]]
      /\ disk' = [disk EXCEPT ![i] = [used |-> FALSE, first |-> NoBlock, size |-> 0]]
  BY DEF Unlink
<1>3. /\ W \in SUBSET Block
      /\ \A b \in W : own[b] = i
      /\ \A b \in Block \ W : next[b] \notin W
  <2>1. disk[i].first \in Block \cup {NoBlock}
    BY DEF RecordInv, TypeOK, DiskInode
  <2>2. W \in SUBSET Block /\ (disk[i].first = NoBlock => W = {})
    BY <2>1, ReachType DEF RecordInv, TypeOK, BlockTypeOK
  <2>3. CASE disk[i].first = NoBlock
    BY <2>2, <2>3
  <2>4. CASE disk[i].first # NoBlock
    <3>1. /\ disk[i].first \in Block /\ disk[i].first \in used /\ own[disk[i].first] = i
          /\ \A b \in Block : next[b] # disk[i].first
      BY <1>1, <2>1, <2>4 DEF Owned, Heads
    <3>2. \A b \in W : own[b] = i
      BY <1>1, <3>1, ReachOwned DEF RecordInv, Owned
    <3>3. \A b \in Block \ W : next[b] \notin W
      BY <1>1, <3>1, ReachEntered DEF RecordInv, Owned
    <3> QED BY <2>2, <3>2, <3>3
  <2> QED BY <2>3, <2>4
<1> HIDE DEF W
<1>4. used' = used \ W
  BY <1>2 DEF Wipe
<1>5. PICK C \in SUBSET Block : C = {}
  OBVIOUS
<1>6. next' = [b \in Block |-> IF b \in W \cup C THEN NoBlock ELSE next[b]]
  BY <1>2, <1>5
<1>7. \A j \in Inode \ {i} : disk'[j] = disk[j] /\ opened'[j] = opened[j]
  BY <1>2 DEF RecordInv, TypeOK
<1>8. <<>> \in Seq(Block)
  OBVIOUS
<1>9. PICK q \in Seq(Block) : q = <<>>
  BY <1>8
<1>10. opened'[i].list = q
  BY <1>2, <1>9, UnopenedList
<1>11. disk'[i].first = NoBlock /\ q = <<>>
  BY <1>2, <1>9 DEF RecordInv, TypeOK
<1>12. \A b \in W \cup C : own[b] = i
  BY <1>3, <1>5
<1>13. \A b \in Block \ (W \cup C) : next[b] \notin W
  BY <1>3, <1>5
<1>14. W \in SUBSET Block /\ TypeOK
  BY <1>3 DEF RecordInv
<1> QED BY <1>1, <1>4, <1>6, <1>7, <1>10, <1>11, <1>12, <1>13, <1>14, FreedOwned, ZenonT(30)

\* W and C can be freed and cleared, and inode i keeps q.
Cut(own, i, W, C, q) ==
    /\ W \in SUBSET Block /\ C \in SUBSET Block /\ q \in Seq(Block)
    /\ \A b \in W \cup C : own[b] = i
    /\ \A b \in Block \ (W \cup C) : next[b] \notin W
    /\ Kept(own, i, W, C, q)

\* What a truncation that finds its cut in the list wipes, and what it keeps.
LEMMA CutFacts ==
  ASSUME TypeOK, NEW own \in Owner, Owned(own), NEW i \in Inode, disk'[i].first = disk[i].first,
         disk'[i].used, NEW l \in Seq(Block), Mirrors(own, i, l), NEW x \in 2 .. Len(l),
         NEW W, W = Reach(next, l[x]), NEW C, C = {l[x-1]}, NEW q, q = SubSeq(l, 1, x - 1)
  PROVE  Cut(own, i, W, C, q)
<1>1. /\ x - 1 \in 1 .. Len(l) - 1 /\ x - 1 \in 1 .. Len(l) /\ x \in 1 .. Len(l) /\ 1 \in 1 .. Len(l)
      /\ (x - 1) + 1 = x
  OBVIOUS
<1>2. /\ \A k \in 1 .. Len(l) : l[k] \in Block /\ l[k] \in used /\ own[l[k]] = i
      /\ \A k \in 1 .. Len(l) - 1 : next[l[k]] = l[k+1]
      /\ \A j, k \in 1 .. Len(l) : l[j] = l[k] => j = k
      /\ l[1] = disk[i].first
  BY <1>1 DEF Mirrors
<1>3. next[l[x-1]] = l[x]
  BY <1>1, <1>2
<1>4. W \in SUBSET Block /\ l[x] \in W
  <2>1. l[x] \in Block /\ l[x] # NoBlock
    BY <1>1, <1>2 DEF Block, NoBlock
  <2> QED BY <2>1, ReachType DEF TypeOK, BlockTypeOK
<1>5. C \in SUBSET Block
  <2>1. l[x-1] \in Block
    BY <1>1, <1>2
  <2> QED BY <2>1
<1>6. \A b \in W \cup C : own[b] = i
  <2>1. Links /\ Along(own)
    BY DEF Owned
  <2>2. l[x] \in Block /\ l[x] \in used /\ own[l[x]] = i /\ own[l[x-1]] = i
    BY <1>1, <1>2
  <2>3. \A b \in W : own[b] = i
    BY <2>1, <2>2, ReachOwned
  <2> QED BY <2>2, <2>3
<1>7. \A b \in Block : next[b] # NoBlock /\ next[b] = l[x] => b = l[x-1]
  BY <1>1, <1>2, <1>3 DEF Owned, Links
<1>8. ASSUME NEW b \in Block \ (W \cup C), next[b] \in W PROVE FALSE
  <2>1. next[b] = l[x]
    BY <1>1, <1>2, <1>8, ReachEntered DEF Owned
  <2>2. next[b] # NoBlock
    BY <1>1, <1>2, <2>1 DEF Block, NoBlock
  <2> QED BY <1>7, <1>8, <2>1, <2>2
<1>9. \A k \in 1 .. x - 1 : l[k] \notin W
  <2> DEFINE S == {c \in Block : \A k \in 1 .. x - 1 : c # l[k]}
  <2>1. l[x] \in S
    BY <1>1, <1>2
  <2>2. ASSUME NEW c \in S, next[c] # NoBlock PROVE next[c] \in S
    <3>1. next[c] \in Block
      BY <2>2 DEF TypeOK, BlockTypeOK
    <3>2. ASSUME NEW k \in 1 .. x - 1, next[c] = l[k] PROVE FALSE
      <4>1. CASE k = 1
        <5>1. disk[i].first # NoBlock
          BY <2>2, <3>2, <1>2, <4>1
        <5> QED BY <1>2, <2>2, <3>2, <4>1, <5>1 DEF Owned, Heads
      <4>2. CASE k # 1
        <5>1. /\ k - 1 \in 1 .. Len(l) - 1 /\ k - 1 \in 1 .. x - 1 /\ k - 1 \in 1 .. Len(l)
              /\ (k - 1) + 1 = k
          BY <4>2
        <5>2. next[l[k-1]] = l[k] /\ l[k-1] \in Block
          BY <1>2, <5>1
        <5>3. c = l[k-1]
          BY <2>2, <3>2, <5>2 DEF Owned, Links
        <5> QED BY <5>1, <5>3
      <4> QED BY <4>1, <4>2
    <3> QED BY <3>1, <3>2
  <2>3. Closed(next, S)
    BY <2>2 DEF Closed
  <2>4. S \in SUBSET Block
    OBVIOUS
  <2> HIDE DEF S
  <2>5. W \subseteq S
    BY <2>1, <2>3, <2>4, ReachLeast
  <2> QED BY <2>5 DEF S
<1>10. /\ q \in Seq(Block) /\ Len(q) = x - 1
       /\ \A k \in 1 .. x - 1 : q[k] = l[k] /\ k \in 1 .. Len(l)
  BY <1>1
<1>11. Kept(own, i, W, C, q)
  <2>1. disk[i].first \notin W
    <3>1. 1 \in 1 .. x - 1
      OBVIOUS
    <3> QED BY <1>2, <1>9, <3>1
  <2>2. ASSUME NEW k \in 1 .. Len(q) PROVE q[k] \notin W /\ q[k] \in used /\ own[q[k]] = i
    BY <1>2, <1>9, <1>10
  <2>3. ASSUME NEW k \in 1 .. Len(q) - 1 PROVE q[k] \notin C /\ next[q[k]] = q[k+1]
    <3>1. k \in 1 .. x - 1 /\ k + 1 \in 1 .. x - 1 /\ k \in 1 .. Len(l) - 1 /\ k # x - 1 /\ k \in 1 .. Len(l)
      BY <1>10
    <3>2. l[k] # l[x-1]
      BY <1>1, <1>2, <3>1
    <3> QED BY <1>2, <1>10, <3>1, <3>2
  <2>4. \A j, k \in 1 .. Len(q) : q[j] = q[k] => j = k
    BY <1>2, <1>10
  <2>5. q[1] = disk[i].first
    BY <1>2, <1>10
  <2>6. Mirrors(own, i, q)
    BY <2>2, <2>3, <2>4, <2>5 DEF Mirrors
  <2> QED BY <2>1, <2>2, <2>3, <2>6 DEF Kept
<1> QED BY <1>4, <1>5, <1>6, <1>8, <1>10, <1>11 DEF Cut

LEMMA TruncateChainOwned ==
  ASSUME RecordInv, ChainInv, NEW h \in Handle, NEW len \in Pos, TruncateChain(h, len)
  PROVE  ChainInv'
<1>0. PICK i : i = handle[h].inode
  OBVIOUS
<1>1. PICK own \in Owner : Owned(own)
  BY DEF ChainInv
<1> DEFINE m == [opened[i] EXCEPT !.size = len]
           n == BlocksFor(len - 1)
           Whole(l) == opened' = [opened EXCEPT ![i] = [m EXCEPT !.list = l]] /\ UNCHANGED blockVars
           CutAt(l, x) == /\ Wipe(Reach(next, next[l[n]]))
                          /\ next' = [b \in Block |-> IF b \in Reach(next, next[l[n]]) \cup {l[x-1]}
                                                      THEN NoBlock ELSE next[b]]
                          /\ opened' = [opened EXCEPT ![i] =
                                          [m EXCEPT !.list = SubSeq(l, 1, x - 1)]]
<1>2. handle[h] # NoDev /\ len \in 1 .. opened[i].size - 1 /\ disk' = Flushed(i, m)
  <2>1. handle[h].rw /\ len \in 1 .. opened[i].size - 1 /\ disk' = Flushed(i, m)
    BY <1>0 DEF TruncateChain
  <2> QED BY <2>1 DEF NoDev
<1>3. PICK l \in ListFor(m, n) :
        Whole(l) \/ \E x \in 2 .. Len(l) : l[x] = next[l[n]] /\ CutAt(l, x)
  BY <1>0 DEF TruncateChain
<1>4. /\ i \in Inode /\ opened[i] \in OpenInode /\ opened[i].count \in Nat \ {0}
      /\ disk[i].first = opened[i].first
  BY <1>0, <1>2, Holder, OpenedType DEF RecordInv
<1>5. n \in Nat
  BY <1>2, <1>4, BlocksKeptType DEF RecordInv
<1>6. /\ m \in OpenInode /\ m.count = opened[i].count
      /\ m.list = opened[i].list /\ m.first = disk[i].first
  BY <1>4 DEF OpenInode
<1> HIDE DEF m
<1>7. l \in Seq(Block) /\ Mirrors(own, i, l)
  <2> HIDE DEF n
  <2> QED BY <1>1, <1>4, <1>5, <1>6, ListForMirrors DEF RecordInv
<1>8. /\ \A j \in Inode \ {i} : disk'[j] = disk[j]
      /\ disk'[i].used /\ disk'[i].first = disk[i].first
  <2>1. /\ \A j \in Inode \ {i} : Flushed(i, m)[j] = disk[j]
        /\ Flushed(i, m)[i] = [used |-> TRUE, first |-> m.first, size |-> m.size]
    BY <1>4, <1>6, FlushedType DEF RecordInv
  <2> QED BY <1>2, <1>6, <2>1
<1>9. ASSUME NEW W \in SUBSET Block, NEW C \in SUBSET Block, NEW q \in Seq(Block),
             opened' = [opened EXCEPT ![i] = [m EXCEPT !.list = q]],
             used' = used \ W,
             next' = [b \in Block |-> IF b \in W \cup C THEN NoBlock ELSE next[b]],
             \A b \in W \cup C : own[b] = i,
             \A b \in Block \ (W \cup C) : next[b] \notin W,
             Kept(own, i, W, C, q)
      PROVE  ChainInv'
  <2> DEFINE r == [m EXCEPT !.list = q]
  <2>1. r.list = q /\ r.count # 0
    BY <1>4, <1>6 DEF OpenInode
  <2>2. opened' = [opened EXCEPT ![i] = r]
    BY <1>9
  <2> HIDE DEF r
  <2>3. opened'[i].list = q /\ opened'[i].count # 0
    BY <1>4, <2>1, <2>2 DEF RecordInv, TypeOK
  <2>4. \A j \in Inode \ {i} : disk'[j] = disk[j] /\ opened'[j] = opened[j]
    BY <1>4, <1>8, <2>2 DEF RecordInv, TypeOK
  <2>5. TypeOK
    BY DEF RecordInv
  <2> QED BY <1>1, <1>4, <1>9, <2>3, <2>4, <2>5, FreedOwned
<1>10. CASE Whole(l)
  <2>1. PICK W \in SUBSET Block : W = {}
    OBVIOUS
  <2>2. used' = used \ W
    BY <1>10, <2>1 DEF blockVars
  <2>3. next' = [b \in Block |-> IF b \in W \cup W THEN NoBlock ELSE next[b]]
    BY <1>10, <2>1 DEF blockVars, RecordInv, TypeOK, BlockTypeOK
  <2>4. Kept(own, i, W, W, l)
    BY <1>7, <1>8, <2>1 DEF Kept
  <2>5. opened' = [opened EXCEPT ![i] = [m EXCEPT !.list = l]]
    BY <1>10
  <2>6. (\A b \in W \cup W : own[b] = i) /\ \A b \in Block \ (W \cup W) : next[b] \notin W
    BY <2>1
  <2> QED BY <1>7, <1>9, <2>2, <2>3, <2>4, <2>5, <2>6
<1>11. CASE \E x \in 2 .. Len(l) : l[x] = next[l[n]] /\ CutAt(l, x)
  <2>1. PICK x \in 2 .. Len(l) : l[x] = next[l[n]] /\ CutAt(l, x)
    BY <1>11
  <2>2. PICK W : W = Reach(next, l[x])
    OBVIOUS
  <2>3. PICK C : C = {l[x-1]}
    OBVIOUS
  <2>4. PICK q : q = SubSeq(l, 1, x - 1)
    OBVIOUS
  <2>5. Cut(own, i, W, C, q)
    <3>1. TypeOK /\ disk'[i].first = disk[i].first /\ disk'[i].used
      BY <1>8 DEF RecordInv
    <3> QED BY <1>1, <1>4, <1>7, <2>2, <2>3, <2>4, <3>1, CutFacts
  <2>6. used' = used \ W
    BY <2>1, <2>2 DEF Wipe
  <2>7. next' = [b \in Block |-> IF b \in W \cup C THEN NoBlock ELSE next[b]]
    BY <2>1, <2>2, <2>3
  <2>8. opened' = [opened EXCEPT ![i] = [m EXCEPT !.list = q]]
    BY <2>1, <2>4
  <2> QED BY <1>9, <2>5, <2>6, <2>7, <2>8 DEF Cut
<1> QED BY <1>3, <1>10, <1>11

-----------------------------------------------------------------------------
(* The theorems.                                                            *)

LEMMA ChainInit == Init => ChainInv
<1> SUFFICES ASSUME Init PROVE ChainInv
  OBVIOUS
<1> DEFINE own == [b \in Block |-> NoInode]
<1>1. own \in Owner
  BY DEF Owner
<1> HIDE DEF own
<1>2. /\ used = {} /\ \A b \in Block : next[b] = NoBlock
      /\ \A i \in Inode : disk[i].first = NoBlock
      /\ \A i \in Inode : opened[i].list = <<>>
  BY DEF Init, BlockInit, NotOpen
<1>3. Links /\ Along(own) /\ Heads(own)
  BY <1>2 DEF Links, Along, Heads
<1>4. Lists(own)
  BY <1>2 DEF Lists, Mirrors
<1> QED BY <1>1, <1>3, <1>4 DEF ChainInv, Owned

LEMMA ChainNext == RecordInv /\ ChainInv /\ [Next]_vars => ChainInv'
<1> SUFFICES ASSUME RecordInv, ChainInv, [Next]_vars PROVE ChainInv'
  OBVIOUS
<1>1. ASSUME NEW h \in Handle, CreateDev(h) PROVE ChainInv'
  <2>1. PICK i \in Inode :
          /\ disk' = [disk EXCEPT ![i].used = TRUE]
          /\ opened' = [opened EXCEPT ![i] = WithOpener(i, disk[i], h, TRUE)]
    BY <1>1 DEF CreateDev, FreeInodes
  <2>2. UNCHANGED blockVars
    BY <1>1 DEF CreateDev
  <2> QED BY <2>1, <2>2, OpenOwned
<1>2. ASSUME NEW h \in Handle, NEW i \in Inode, NEW w \in BOOLEAN, OpenDev(h, i, w) PROVE ChainInv'
  BY <1>2, OpenOwned DEF OpenDev
<1>3. ASSUME NEW h \in Handle, FlushDev(h) \/ CloseDev(h) PROVE ChainInv'
  BY <1>3, CloseOwned
<1>4. ASSUME NEW h \in Handle, NEW pos \in Pos, ReadDev(h, pos) PROVE ChainInv'
  BY <1>4, ReadDevOwned
<1>5. ASSUME NEW h \in Handle, NEW pos \in Pos, NEW len \in Pos, WriteDev(h, pos, len) PROVE ChainInv'
  BY <1>5, WriteDevOwned
<1>6. ASSUME NEW i \in Inode, Unlink(i) PROVE ChainInv'
  BY <1>6, UnlinkOwned
<1>7. ASSUME NEW h \in Handle, TruncateToZero(h) PROVE ChainInv'
  BY <1>7, TruncateToZeroOwned
<1>8. ASSUME NEW h \in Handle, NEW len \in Pos,
             TruncateUp(h, len) \/ TruncateInLastBlock(h, len) \/ TruncateChain(h, len)
      PROVE  ChainInv'
  BY <1>8, TruncateUpOwned, TruncateChainOwned
<1>9. CASE UNCHANGED vars
  <2>1. \A i \in Inode : disk'[i] = disk[i] /\ opened'[i] = opened[i]
    BY <1>9 DEF vars
  <2>2. used' = used /\ next' = next
    BY <1>9 DEF vars
  <2> QED BY <2>1, <2>2, SameLinksOwned, UnopenedList
<1> QED BY <1>1, <1>2, <1>3, <1>4, <1>5, <1>6, <1>7, <1>8, <1>9 DEF Next, NextNoTrunc, Truncate

\* Every block of a file has one owner, whatever the order of the calls.
THEOREM ChainTheorem == Spec => [](RecordInv /\ ChainInv)
<1>1. Init => RecordInv /\ ChainInv
  BY RecordInit, ChainInit
<1>2. (RecordInv /\ ChainInv) /\ [Next]_vars => (RecordInv /\ ChainInv)'
  BY RecordNext, ChainNext
<1> QED BY <1>1, <1>2, PTL DEF Spec

LEMMA OwnedBlocks == RecordInv /\ ChainInv => BlocksOwned
<1> SUFFICES ASSUME RecordInv, ChainInv PROVE BlocksOwned
  OBVIOUS
<1>1. PICK own \in Owner : Owned(own)
  BY DEF ChainInv
<1>2. ASSUME NEW i \in Inode
      PROVE  /\ \A b \in FileChain(i) : b \in used /\ own[b] = i
             /\ disk[i].first # NoBlock => disk[i].used
  <2>1. disk[i].first \in Block \cup {NoBlock}
    BY DEF RecordInv, TypeOK, DiskInode
  <2>2. CASE disk[i].first = NoBlock
    BY <2>1, <2>2, ReachType DEF FileChain, RecordInv, TypeOK, BlockTypeOK
  <2>3. CASE disk[i].first # NoBlock
    <3>1. /\ disk[i].first \in Block /\ disk[i].first \in used /\ own[disk[i].first] = i
          /\ disk[i].used
      BY <1>1, <2>1, <2>3 DEF Owned, Heads
    <3> QED BY <1>1, <3>1, ReachOwned DEF FileChain, RecordInv, Owned
  <2> QED BY <2>2, <2>3
<1> QED BY <1>2 DEF BlocksOwned

\* No block belongs to two files, and no block of a file can be handed out
\* again (whefs_block_next_free against every writer, truncation and unlink).
THEOREM BlocksOwnedAlways == Spec => []BlocksOwned
BY ChainTheorem, OwnedBlocks, PTL

\* The block list an opened inode caches is a prefix of its chain on disk
\* (whefs_inode_block_list_append and whio_dev_inode_trunc keep both).
THEOREM ListMirrorsChainAlways == Spec => []ListMirrorsChain
<1>1. RecordInv /\ ChainInv => ListMirrorsChain
  BY DEF ChainInv, Owned, Lists, Mirrors, ListMirrorsChain
<1> QED BY <1>1, ChainTheorem, PTL

\* Without an end, the successor would map a chain one-to-one into the chain
\* without its first block.
LEMMA EndedChains == RecordInv /\ ChainInv => ChainsEnd
<1> SUFFICES ASSUME RecordInv, ChainInv, NEW i \in Inode, disk[i].first # NoBlock,
                    \A b \in FileChain(i) : next[b] # NoBlock
             PROVE  FALSE
  BY DEF ChainsEnd
<1>1. PICK own \in Owner : Owned(own)
  BY DEF ChainInv
<1> DEFINE R == FileChain(i)
           first == disk[i].first
           succ == [b \in R |-> next[b]]
<1>2. first \in Block /\ \A b \in Block : next[b] # first
  BY <1>1 DEF RecordInv, TypeOK, DiskInode, Owned, Heads
<1>3. R \in SUBSET Block /\ first \in R /\ Closed(next, R)
  BY <1>2, ReachType DEF FileChain, RecordInv, TypeOK, BlockTypeOK
<1> HIDE DEF R, first
<1>4. succ \in [R -> R \ {first}]
  BY <1>2, <1>3 DEF Closed, R
<1>5. \A a, b \in R : succ[a] = succ[b] => a = b
  BY <1>1, <1>3 DEF Owned, Links, R
<1>6. succ \in Injection(R, R \ {first})
  BY <1>4, <1>5 DEF Injection, IsInjective
<1>7. IsFiniteSet(R) /\ IsFiniteSet(R \ {first}) /\ Cardinality(R) \in Nat
  BY <1>3, BlockFinite
<1>8. Cardinality(R) <= Cardinality(R \ {first})
  BY <1>6, <1>7, FS_Injection
<1>9. Cardinality(R \ {first}) = Cardinality(R) - 1
  BY <1>3, <1>7, FS_RemoveElement
<1> QED BY <1>7, <1>8, <1>9

\* Every chain ends, so the loops of whefs_inode_block_list_load() and of the
\* deep whefs_block_wipe() terminate.
THEOREM ChainsEndAlways == Spec => []ChainsEnd
BY ChainTheorem, EndedChains, PTL

-----------------------------------------------------------------------------
(* File by file *)

\* The blocks of a file are its own.
LEMMA FileOwned ==
  ASSUME TypeOK, NEW own, Owned(own), NEW i \in Inode
  PROVE  /\ disk[i].first \in Block \cup {NoBlock}
         /\ FileChain(i) \in SUBSET Block
         /\ disk[i].first = NoBlock => FileChain(i) = {}
         /\ \A b \in FileChain(i) : b \in used /\ own[b] = i
<1>1. disk[i].first \in Block \cup {NoBlock} /\ next \in [Block -> Block \cup {NoBlock}]
  BY DEF TypeOK, BlockTypeOK, DiskInode
<1>2. FileChain(i) \in SUBSET Block /\ (disk[i].first = NoBlock => FileChain(i) = {})
  BY <1>1, ReachType DEF FileChain
<1>3. CASE disk[i].first # NoBlock
  <2>1. disk[i].first \in Block /\ disk[i].first \in used /\ own[disk[i].first] = i
    BY <1>1, <1>3 DEF Owned, Heads
  <2>2. Links /\ Along(own)
    BY DEF Owned
  <2> QED BY <1>1, <1>2, <1>3, <2>1, <2>2, ReachOwned DEF FileChain
<1> QED BY <1>1, <1>2, <1>3

-----------------------------------------------------------------------------
(* What a call leaves alone.                                                *)

\* The call changes the record of inode i and the links of its blocks, and no others.
Touches(own, i) ==
    /\ \A j \in Inode \ {i} : disk'[j] = disk[j]
    /\ \A b \in Block : b \in used /\ next'[b] # next[b] => own[b] = i

\* A call that touches one inode keeps the chains of the others.
LEMMA OthersKept ==
  ASSUME TypeOK, TypeOK', NEW own, Owned(own), NEW i \in Inode, Touches(own, i),
         NEW j \in Inode, j # i
  PROVE  FileChain(j)' = FileChain(j) /\ disk'[j] = disk[j]
<1>1. disk'[j] = disk[j]
  BY DEF Touches
<1>2. /\ FileChain(j) \in SUBSET Block
      /\ \A b \in FileChain(j) : b \in used /\ own[b] = j
      /\ disk[j].first \in Block \cup {NoBlock}
  BY FileOwned
<1>3. \A b \in FileChain(j) : next'[b] = next[b]
  BY <1>2 DEF Touches
<1>4. next \in [Block -> Block \cup {NoBlock}] /\ next' \in [Block -> Block \cup {NoBlock}]
  BY DEF TypeOK, BlockTypeOK
<1>5. Reach(next', disk[j].first) = Reach(next, disk[j].first)
  BY <1>2, <1>3, <1>4, SameReach DEF FileChain
<1> QED BY <1>1, <1>5 DEF FileChain

\* A call that grows the list of inode i touches i only.
LEMMA GrowthTouches ==
  ASSUME TypeOK, NEW own, Owned(own), NEW i \in Inode,
         NEW l \in Seq(Block), Mirrors(own, i, l), NEW n \in Nat, NEW s \in NewBlocks(l, n),
         next' = Linked(l, s), \A j \in Inode \ {i} : disk'[j] = disk[j]
  PROVE  Touches(own, i)
<1>1. PICK e : e = Extended(l, s)
  OBVIOUS
<1>2. Links /\ \A k \in 1 .. Len(l) : l[k] \in used
  BY DEF Owned, Mirrors
<1>3. Grown(l, s, e)
  BY <1>1, <1>2, GrowthFacts
<1>4. ASSUME NEW b \in Block, b \in used, next'[b] # next[b] PROVE own[b] = i
  <2>1. PICK k \in Joints(l, e) : e[k] = b
    BY <1>3, <1>4 DEF Grown
  <2>2. e \in Seq(Block) /\ Len(l) <= Len(e) /\ \A x \in Len(l) + 1 .. Len(e) : e[x] \notin used
    BY <1>3 DEF Grown
  <2>3. k = Len(l) /\ k \in 1 .. Len(l)
    BY <1>4, <2>1, <2>2 DEF Joints
  <2>4. e[k] = l[k]
    BY <1>3, <2>3 DEF Grown
  <2> QED BY <2>1, <2>3, <2>4 DEF Mirrors
<1> QED BY <1>4 DEF Touches

\* A call that changes no link and no first block keeps every chain.
Linkless == next' = next /\ \A i \in Inode : disk'[i].first = disk[i].first

LEMMA FlushLinkless ==
  ASSUME RecordInv, NEW h \in Handle, FlushDev(h) \/ CloseDev(h)
  PROVE  Linkless
<1>0. PICK i : i = handle[h].inode
  OBVIOUS
<1>1. handle[h] # NoDev
  BY DEF FlushDev, CloseDev, NoDev
<1>2. i \in Inode /\ opened[i] \in OpenInode /\ disk[i].first = opened[i].first
  BY <1>0, <1>1, Holder, OpenedType DEF RecordInv
<1>3. next' = next /\ (disk' = Flushed(i, opened[i]) \/ disk' = disk)
  BY <1>0 DEF FlushDev, CloseDev, blockVars
<1>4. /\ \A j \in Inode \ {i} : Flushed(i, opened[i])[j] = disk[j]
      /\ Flushed(i, opened[i])[i]
           = [used |-> TRUE, first |-> opened[i].first, size |-> opened[i].size]
  BY <1>2, FlushedType DEF RecordInv
<1> QED BY <1>2, <1>3, <1>4 DEF Linkless

-----------------------------------------------------------------------------
(* The parts of a write: the list l it finds, the blocks s it takes and the  *)
(* list e it leaves.                                                         *)

WriteParts(own, h, i, pos, len, l, s, e) ==
    /\ handle[h].rw /\ i = handle[h].inode /\ i \in Inode
    /\ opened[i].writer = h /\ opened[i].writer # NoHandle
    /\ len > 0 /\ BlocksFor(pos) <= BlockCount
    /\ l \in ListFor(opened[i], 1) /\ opened[i].first = disk[i].first
    /\ l \in Seq(Block) /\ Mirrors(own, i, l) /\ (l = <<>> => disk[i].first = NoBlock)
    /\ s \in NewBlocks(l, Least(BlocksFor((pos + len) - 1), BlockCount))
    /\ e = Extended(l, s) /\ e \in Seq(Block)
    /\ MarkUsed(s) /\ next' = Linked(l, s)
    /\ \A j \in Inode \ {i} : disk'[j] = disk[j] /\ opened'[j] = opened[j]
    /\ opened'[i].list = e /\ opened'[i].count # 0
    /\ opened'[i].size = SizeAfterWrite(opened[i].size, pos, pos + len, Len(e))
    /\ disk'[i].first = IF disk[i].first = NoBlock /\ e # <<>> THEN e[1] ELSE disk[i].first
    /\ disk'[i].size \in {disk[i].size, opened[i].size}

LEMMA LastBlockType ==
  ASSUME NEW pos \in Pos, NEW len \in Pos, len > 0
  PROVE  /\ (pos + len) - 1 \in Nat
         /\ Least(BlocksFor((pos + len) - 1), BlockCount) \in Nat \ {0}
<1>1. (pos + len) - 1 \in Nat
  BY DEF Pos
<1>2. BlocksFor((pos + len) - 1) \in Nat \ {0}
  BY <1>1, BlocksForType
<1> QED BY <1>1, <1>2, BlockCountAssumption DEF Least

LEMMA WriteHasParts ==
  ASSUME RecordInv, NEW own \in Owner, Owned(own), NEW h \in Handle, NEW pos \in Pos, NEW len \in Pos,
         WriteDev(h, pos, len)
  PROVE  \E i, l, s, e : WriteParts(own, h, i, pos, len, l, s, e)
<1>0. PICK i : i = handle[h].inode
  OBVIOUS
<1> DEFINE m == opened[i]
           n == Least(BlocksFor((pos + len) - 1), BlockCount)
           Effect(l, s) ==
             /\ MarkUsed(s)
             /\ next' = Linked(l, s)
             /\ opened' = [opened EXCEPT ![i] = Written(m, l, s, pos, pos + len)]
             /\ disk' = FlushedFirst(i, m, Attached(m, l, s))
<1>1. handle[h].rw /\ handle[h] # NoDev /\ len > 0 /\ BlocksFor(pos) <= BlockCount
  BY DEF WriteDev, NoDev
<1>2. PICK l \in ListFor(m, 1) : \E s \in NewBlocks(l, n) : Effect(l, s)
  BY <1>0 DEF WriteDev
<1>3. PICK s \in NewBlocks(l, n) : Effect(l, s)
  BY <1>2
<1>4. n \in Nat
  BY <1>1, LastBlockType
<1> HIDE DEF n
<1>5. /\ i \in Inode /\ m \in OpenInode /\ disk[i].used /\ disk[i].first = m.first
      /\ m.count \in Nat \ {0} /\ m.writer = h /\ h # NoHandle
  BY <1>0, <1>1, Holder, OpenedType DEF RecordInv
<1>6. /\ l \in Seq(Block) /\ Mirrors(own, i, l)
      /\ l = <<>> => disk[i].first = NoBlock
  BY <1>5, ListForMirrors, BlockCountAssumption DEF RecordInv
<1> DEFINE a == Attached(m, l, s)
           z == SizeAfterWrite(a.size, pos, pos + len, Len(a.list))
           r == [a EXCEPT !.size = z]
<1>7. PICK e : e = Extended(l, s)
  OBVIOUS
<1>8. /\ a \in OpenInode /\ a.count = m.count /\ a.list = e /\ a.size = m.size
      /\ e \in Seq(Block)
  BY <1>4, <1>5, <1>6, <1>7, GrownType DEF RecordInv
<1>9. a.first = IF m.first = NoBlock /\ e # <<>> THEN e[1] ELSE m.first
  <2>1. a = [m EXCEPT !.list = e, !.first = IF @ = NoBlock /\ e # <<>> THEN e[1] ELSE @]
    BY <1>7 DEF Attached
  <2> HIDE DEF a
  <2> QED BY <1>5, <2>1 DEF OpenInode
<1> HIDE DEF a
<1>10. opened' = [opened EXCEPT ![i] = r]
  BY <1>3 DEF a, Written
<1>11. r.count = m.count /\ r.list = e /\ r.size = SizeAfterWrite(m.size, pos, pos + len, Len(e))
  BY <1>8 DEF OpenInode
<1> HIDE DEF z, r
<1>12. /\ \A j \in Inode \ {i} : opened'[j] = opened[j]
       /\ opened'[i] = r
  BY <1>5, <1>10 DEF RecordInv, TypeOK
<1>13. /\ \A j \in Inode \ {i} : disk'[j] = disk[j]
       /\ disk'[i].first = a.first /\ disk'[i].size \in {disk[i].size, m.size}
  <2>1. disk' = FlushedFirst(i, m, a)
    BY <1>3 DEF a
  <2>2. CASE m.first = a.first
    BY <1>5, <2>1, <2>2 DEF FlushedFirst
  <2>3. CASE m.first # a.first
    <3> DEFINE f == [m EXCEPT !.first = a.first]
    <3>1. f \in OpenInode /\ f.first = a.first /\ f.size = m.size
      BY <1>5, <1>8 DEF OpenInode
    <3>2. disk' = Flushed(i, f)
      BY <2>1, <2>3 DEF FlushedFirst
    <3> HIDE DEF f
    <3>3. /\ \A j \in Inode \ {i} : Flushed(i, f)[j] = disk[j]
          /\ Flushed(i, f)[i] = [used |-> TRUE, first |-> f.first, size |-> f.size]
      BY <1>5, <3>1, FlushedType DEF RecordInv
    <3> QED BY <3>1, <3>2, <3>3
  <2> QED BY <2>2, <2>3
<1>14. s \in NewBlocks(l, Least(BlocksFor((pos + len) - 1), BlockCount))
  BY DEF n
<1>15. MarkUsed(s) /\ next' = Linked(l, s)
  BY <1>3
<1>16. WriteParts(own, h, i, pos, len, l, s, e)
  BY <1>0, <1>1, <1>5, <1>6, <1>7, <1>8, <1>9, <1>11, <1>12, <1>13, <1>14, <1>15 DEF WriteParts
<1> QED BY <1>16

-----------------------------------------------------------------------------
(* A step changes the chain of one file at most.                            *)

LEMMA WriteTouches ==
  ASSUME RecordInv, NEW own \in Owner, Owned(own), NEW h \in Handle, NEW pos \in Pos, NEW len \in Pos,
         WriteDev(h, pos, len)
  PROVE  \E i \in Inode : Touches(own, i) /\ opened[i].writer # NoHandle
<1>1. PICK i, l, s, e : WriteParts(own, h, i, pos, len, l, s, e)
  BY WriteHasParts
<1>2. len > 0 /\ i \in Inode /\ opened[i].writer # NoHandle
  BY <1>1 DEF WriteParts
<1> DEFINE n == Least(BlocksFor((pos + len) - 1), BlockCount)
<1>3. n \in Nat
  BY <1>2, LastBlockType
<1>4. /\ l \in Seq(Block) /\ Mirrors(own, i, l) /\ s \in NewBlocks(l, n)
      /\ next' = Linked(l, s) /\ \A j \in Inode \ {i} : disk'[j] = disk[j]
  BY <1>1 DEF WriteParts
<1> HIDE DEF n
<1>5. Touches(own, i)
  BY <1>2, <1>3, <1>4, GrowthTouches DEF RecordInv
<1> QED BY <1>2, <1>5

LEMMA ResizeTouches ==
  ASSUME RecordInv, NEW own \in Owner, Owned(own), NEW h \in Handle, NEW len \in Pos,
         TruncateUp(h, len) \/ TruncateInLastBlock(h, len)
  PROVE  \E i \in Inode : Touches(own, i) /\ opened[i].writer # NoHandle
<1>0. PICK i : i = handle[h].inode
  OBVIOUS
<1> DEFINE m == [opened[i] EXCEPT !.size = len]
           n == BlocksFor(len - 1)
           Effect(l, s) == next' = Linked(l, s) /\ disk' = Flushed(i, Attached(m, l, s))
<1>1. handle[h].rw
  BY DEF TruncateUp, TruncateInLastBlock
<1>2. PICK l \in ListFor(m, n) : \E s \in NewBlocks(l, n) : Effect(l, s)
  <2>1. CASE TruncateUp(h, len)
    BY <1>0, <2>1 DEF TruncateUp
  <2>2. CASE TruncateInLastBlock(h, len)
    BY <1>0, <2>2 DEF TruncateInLastBlock
  <2> QED BY <2>1, <2>2
<1>3. PICK s \in NewBlocks(l, n) : Effect(l, s)
  BY <1>2
<1>4. /\ i \in Inode /\ opened[i] \in OpenInode /\ opened[i].writer # NoHandle
      /\ disk[i].first = opened[i].first
  <2>1. handle[h] # NoDev
    BY <1>1 DEF NoDev
  <2> QED BY <1>0, <1>1, <2>1, Holder, OpenedType DEF RecordInv
<1>5. len > opened[i].size \/ len \in 1 .. opened[i].size - 1
  BY <1>0 DEF TruncateUp, TruncateInLastBlock
<1>6. n \in Nat
  BY <1>4, <1>5, BlocksKeptType DEF RecordInv
<1>7. m \in OpenInode /\ m.list = opened[i].list /\ m.first = disk[i].first
  BY <1>4 DEF OpenInode
<1> HIDE DEF m, n
<1>8. l \in Seq(Block) /\ Mirrors(own, i, l)
  BY <1>4, <1>6, <1>7, ListForMirrors DEF RecordInv
<1>9. Attached(m, l, s) \in OpenInode
  BY <1>6, <1>7, <1>8, GrownType DEF RecordInv
<1>10. next' = Linked(l, s) /\ \A j \in Inode \ {i} : disk'[j] = disk[j]
  <2>1. \A j \in Inode \ {i} : Flushed(i, Attached(m, l, s))[j] = disk[j]
    BY <1>4, <1>9, FlushedType DEF RecordInv
  <2> QED BY <1>3, <2>1
<1>11. Touches(own, i)
  BY <1>4, <1>6, <1>8, <1>10, GrowthTouches DEF RecordInv
<1> QED BY <1>4, <1>11

LEMMA CutTouches ==
  ASSUME RecordInv, NEW own \in Owner, Owned(own), NEW h \in Handle, NEW len \in Pos,
         TruncateChain(h, len)
  PROVE  \E i \in Inode : Touches(own, i) /\ opened[i].writer # NoHandle
<1>0. PICK i : i = handle[h].inode
  OBVIOUS
<1> DEFINE m == [opened[i] EXCEPT !.size = len]
           n == BlocksFor(len - 1)
<1>1. handle[h].rw /\ len \in 1 .. opened[i].size - 1 /\ disk' = Flushed(i, m)
  BY <1>0 DEF TruncateChain
<1>2. PICK l \in ListFor(m, n) :
        \/ next' = next
        \/ \E x \in 2 .. Len(l) :
             /\ l[x] = next[l[n]]
             /\ next' = [b \in Block |-> IF b \in Reach(next, next[l[n]]) \cup {l[x-1]}
                                         THEN NoBlock ELSE next[b]]
  <2> DEFINE Whole(l) == opened' = [opened EXCEPT ![i] = [m EXCEPT !.list = l]] /\ UNCHANGED blockVars
             CutAt(l, x) == /\ Wipe(Reach(next, next[l[n]]))
                            /\ next' = [b \in Block |-> IF b \in Reach(next, next[l[n]]) \cup {l[x-1]}
                                                        THEN NoBlock ELSE next[b]]
                            /\ opened' = [opened EXCEPT ![i] =
                                            [m EXCEPT !.list = SubSeq(l, 1, x - 1)]]
  <2>1. PICK l \in ListFor(m, n) :
          Whole(l) \/ \E x \in 2 .. Len(l) : l[x] = next[l[n]] /\ CutAt(l, x)
    BY <1>0 DEF TruncateChain
  <2> HIDE DEF m, n
  <2> QED BY <2>1 DEF blockVars
<1>3. /\ i \in Inode /\ opened[i] \in OpenInode /\ opened[i].writer # NoHandle
      /\ disk[i].first = opened[i].first
  <2>1. handle[h] # NoDev
    BY <1>1 DEF NoDev
  <2> QED BY <1>0, <1>1, <2>1, Holder, OpenedType DEF RecordInv
<1>4. n \in Nat
  BY <1>1, <1>3, BlocksKeptType DEF RecordInv
<1>5. m \in OpenInode /\ m.list = opened[i].list /\ m.first = disk[i].first
  BY <1>3 DEF OpenInode
<1> HIDE DEF m, n
<1>6. l \in Seq(Block) /\ Mirrors(own, i, l)
  BY <1>3, <1>4, <1>5, ListForMirrors DEF RecordInv
<1>7. \A j \in Inode \ {i} : disk'[j] = disk[j]
  <2>1. \A j \in Inode \ {i} : Flushed(i, m)[j] = disk[j]
    BY <1>3, <1>5, FlushedType DEF RecordInv
  <2> QED BY <1>1, <2>1
<1>8. ASSUME NEW b \in Block, next'[b] # next[b] PROVE own[b] = i
  <2>1. PICK x \in 2 .. Len(l) :
          /\ l[x] = next[l[n]]
          /\ next' = [c \in Block |-> IF c \in Reach(next, next[l[n]]) \cup {l[x-1]}
                                      THEN NoBlock ELSE next[c]]
    BY <1>2, <1>8
  <2>2. b \in Reach(next, l[x]) \/ b = l[x-1]
    BY <1>8, <2>1
  <2>3. x \in 1 .. Len(l) /\ x - 1 \in 1 .. Len(l)
    OBVIOUS
  <2>4. l[x] \in Block /\ l[x] \in used /\ own[l[x]] = i /\ own[l[x-1]] = i
    BY <1>6, <2>3 DEF Mirrors
  <2>5. \A c \in Reach(next, l[x]) : own[c] = i
    BY <2>4, ReachOwned DEF Owned, RecordInv
  <2> QED BY <2>2, <2>4, <2>5
<1> QED BY <1>3, <1>7, <1>8 DEF Touches

LEMMA UnlinkTouches ==
  ASSUME RecordInv, NEW own \in Owner, Owned(own), NEW i \in Inode, Unlink(i)
  PROVE  Touches(own, i) /\ ~disk'[i].used
<1> DEFINE W == FileChain(i)
<1>1. /\ next' = [b \in Block |-> IF b \in W THEN NoBlock ELSE next[b]]
      /\ disk' = [disk EXCEPT ![i] = [used |-> FALSE, first |-> NoBlock, size |-> 0]]
  BY DEF Unlink, FileChain
<1>2. \A b \in W : own[b] = i
  BY FileOwned DEF RecordInv
<1> HIDE DEF W
<1> QED BY <1>1, <1>2 DEF Touches, RecordInv, TypeOK

LEMMA EmptyingTouches ==
  ASSUME RecordInv, NEW own \in Owner, Owned(own), NEW h \in Handle, TruncateToZero(h)
  PROVE  \E i \in Inode : Touches(own, i) /\ opened[i].writer # NoHandle
<1>0. PICK i : i = handle[h].inode
  OBVIOUS
<1> DEFINE m == [opened[i] EXCEPT !.list = <<>>, !.first = NoBlock, !.size = 0]
<1>1. handle[h].rw /\ handle[h] # NoDev /\ disk' = Flushed(i, m) /\ next' = next
  BY <1>0 DEF TruncateToZero, blockVars, NoDev
<1>2. i \in Inode /\ opened[i].writer # NoHandle
  BY <1>0, <1>1, Holder
<1> HIDE DEF m
<1>3. \A j \in Inode \ {i} : disk'[j] = disk[j]
  BY <1>1, <1>2 DEF Flushed, RecordInv, TypeOK
<1> QED BY <1>1, <1>2, <1>3 DEF Touches

\* The body of OneFilePerStep.
OneFile ==
    \A i \in Inode : FileChain(i)' # FileChain(i) =>
        /\ \A j \in Inode \ {i} : FileChain(j)' = FileChain(j) /\ disk'[j] = disk[j]
        /\ opened[i].writer # NoHandle \/ ~disk'[i].used \/ ~disk[i].used

LEMMA LinklessOneFile == Linkless => OneFile
BY DEF Linkless, OneFile, FileChain

LEMMA TouchesOneFile ==
  ASSUME TypeOK, TypeOK', NEW own, Owned(own), NEW i \in Inode, Touches(own, i),
         opened[i].writer # NoHandle \/ ~disk'[i].used
  PROVE  OneFile
<1> SUFFICES ASSUME NEW k \in Inode, FileChain(k)' # FileChain(k)
             PROVE  /\ \A j \in Inode \ {k} : FileChain(j)' = FileChain(j) /\ disk'[j] = disk[j]
                    /\ opened[k].writer # NoHandle \/ ~disk'[k].used \/ ~disk[k].used
  BY DEF OneFile
<1>1. k = i
  BY OthersKept
<1>2. \A j \in Inode \ {k} : FileChain(j)' = FileChain(j) /\ disk'[j] = disk[j]
  BY <1>1, OthersKept
<1> QED BY <1>1, <1>2

LEMMA StepOneFile == RecordInv /\ ChainInv /\ RecordInv' /\ [Next]_vars => OneFile
<1> SUFFICES ASSUME RecordInv, ChainInv, RecordInv', [Next]_vars PROVE OneFile
  OBVIOUS
<1>0. PICK own \in Owner : Owned(own)
  BY DEF ChainInv
<1>1. ASSUME NEW h \in Handle, CreateDev(h) PROVE OneFile
  <2>1. Linkless
    BY <1>1 DEF CreateDev, blockVars, Linkless, RecordInv, TypeOK, DiskInode
  <2> QED BY <2>1, LinklessOneFile
<1>2. ASSUME NEW h \in Handle, FlushDev(h) \/ CloseDev(h) PROVE OneFile
  BY <1>2, FlushLinkless, LinklessOneFile
<1>3. ASSUME \/ \E h \in Handle, i \in Inode, w \in BOOLEAN : OpenDev(h, i, w)
             \/ \E h \in Handle, pos \in Pos : ReadDev(h, pos)
             \/ UNCHANGED vars
      PROVE  OneFile
  <2>1. next' = next /\ disk' = disk
    BY <1>3 DEF OpenDev, ReadDev, blockVars, vars
  <2>2. Linkless
    BY <2>1 DEF Linkless
  <2> QED BY <2>2, LinklessOneFile
<1>4. ASSUME NEW i \in Inode, Touches(own, i), opened[i].writer # NoHandle \/ ~disk'[i].used
      PROVE  OneFile
  BY <1>0, <1>4, TouchesOneFile DEF RecordInv
<1>5. ASSUME NEW h \in Handle, NEW pos \in Pos, NEW len \in Pos, WriteDev(h, pos, len) PROVE OneFile
  BY <1>0, <1>4, <1>5, WriteTouches
<1>6. ASSUME NEW i \in Inode, Unlink(i) PROVE OneFile
  BY <1>0, <1>4, <1>6, UnlinkTouches
<1>7. ASSUME NEW h \in Handle, Truncate(h) PROVE OneFile
  <2>1. \E i \in Inode : Touches(own, i) /\ opened[i].writer # NoHandle
    BY <1>0, <1>7, EmptyingTouches, ResizeTouches, CutTouches DEF Truncate
  <2> QED BY <1>4, <2>1
<1> QED BY <1>1, <1>2, <1>3, <1>5, <1>6, <1>7 DEF Next, NextNoTrunc

\* A step changes the chain of one file at most: that of the unlinked inode,
\* or that of an inode some device holds open for writing (every call of
\* whefs_nodedev.c and whefs_inode_unlink).
THEOREM OneFilePerStepAlways == Spec => OneFilePerStep
<1>1. RecordInv /\ ChainInv /\ (RecordInv /\ ChainInv)' /\ [Next]_vars => OneFile
  BY StepOneFile
<1>2. OneFile => [\A i \in Inode : FileChain(i)' # FileChain(i) =>
        /\ \A j \in Inode \ {i} : FileChain(j)' = FileChain(j) /\ disk'[j] = disk[j]
        /\ opened[i].writer # NoHandle \/ ~disk'[i].used \/ ~disk[i].used]_vars
  BY DEF OneFile
<1> QED BY <1>1, <1>2, ChainTheorem, PTL DEF Spec, OneFilePerStep

-----------------------------------------------------------------------------
(* Whole lists.                                                             *)

\* Nothing follows the last block of l.
Ends(l) == l # <<>> => next[l[Len(l)]] = NoBlock

\* A list that mirrors the chain of a file and ends is the whole file.
LEMMA WholeFile ==
  ASSUME TypeOK, NEW own, NEW i \in Inode, NEW l \in Seq(Block), Mirrors(own, i, l),
         Ends(l), l = <<>> => disk[i].first = NoBlock
  PROVE  FileChain(i) = Elements(l) /\ Cardinality(FileChain(i)) = Len(l)
<1>1. Follows(next, disk[i].first, l)
  BY DEF Mirrors, Ends, Follows
<1>2. disk[i].first \in Block \cup {NoBlock} /\ next \in [Block -> Block \cup {NoBlock}]
  BY DEF TypeOK, BlockTypeOK, DiskInode
<1> QED BY <1>1, <1>2, WholeChain DEF FileChain

\* The list a device finds ends if the one it has does.
LEMMA ListForEnds ==
  ASSUME TypeOK, NEW m \in OpenInode, Ends(m.list), NEW n \in Nat, NEW l \in ListFor(m, n)
  PROVE  Ends(l)
<1>1. CASE m.list = <<>> /\ m.first # NoBlock /\ n <= BlockCount
  <2>1. l \in ChainLists(m.first) /\ m.first \in Block \cup {NoBlock}
    BY <1>1 DEF ListFor, OpenInode
  <2>2. l \in Seq(Block) /\ \A k \in 1 .. Len(l) : next[l[k]] = IF k = Len(l) THEN NoBlock ELSE l[k+1]
    BY <2>1, ChainListsType DEF TypeOK
  <2>3. l # <<>> => Len(l) \in 1 .. Len(l)
    BY <2>2
  <2> QED BY <2>2, <2>3 DEF Ends
<1>2. CASE ~(m.list = <<>> /\ m.first # NoBlock /\ n <= BlockCount)
  BY <1>2 DEF ListFor
<1> QED BY <1>1, <1>2

-----------------------------------------------------------------------------
(* A client that never truncates.                                           *)

\* The inductive invariant of SpecNoTrunc, on top of RecordInv and ChainInv: a
\* cached list runs to the end of its chain (a list cut short would make the
\* next append fail with its block marked used, and so lost), and the record
\* of an inode nobody has opened is blank.
ListsEnd == \A i \in Inode : Ends(opened[i].list)
UnopenedBlank == \A i \in Inode : opened[i].count = 0 => opened[i].size = 0
NoTruncInv == ListsEnd /\ UnopenedBlank /\ NoLostBlocks /\ SizeBacked

\* The bytes the blocks of file i hold.
Room(i) == BlockSize * Cardinality(FileChain(i))

LEMMA RoomType == ASSUME TypeOK, NEW i \in Inode
                  PROVE  Cardinality(FileChain(i)) \in Nat /\ Room(i) \in Nat
<1>1. disk[i].first \in Block \cup {NoBlock} /\ next \in [Block -> Block \cup {NoBlock}]
  BY DEF TypeOK, BlockTypeOK, DiskInode
<1>2. FileChain(i) \in SUBSET Block
  BY <1>1, ReachType DEF FileChain
<1>3. Cardinality(FileChain(i)) \in Nat
  BY <1>2, BlockFinite
<1> QED BY <1>3, NodeDevAssumption DEF Room

LEMMA BackedByRoom == SizeBacked <=> \A i \in Inode : disk[i].size <= Room(i) /\ opened[i].size <= Room(i)
BY DEF SizeBacked, Room

\* A call that changes no link and no flag.
LEMMA LinklessNoTrunc ==
  ASSUME TypeOK, NoTruncInv, Linkless, used' = used,
         \A i \in Inode :
            /\ Ends(opened'[i].list)
            /\ opened'[i].count = 0 => opened'[i].size = 0
            /\ disk'[i].size \in {disk[i].size, opened[i].size}
            /\ opened'[i].size \in {disk[i].size, opened[i].size, 0}
  PROVE  NoTruncInv'
<1>1. next' = next /\ \A i \in Inode : FileChain(i)' = FileChain(i)
  BY DEF Linkless, FileChain
<1>2. ListsEnd' /\ UnopenedBlank'
  BY <1>1 DEF ListsEnd, Ends, UnopenedBlank
<1>3. NoLostBlocks'
  BY <1>1 DEF NoTruncInv, NoLostBlocks
<1>4. ASSUME NEW i \in Inode PROVE disk'[i].size <= Room(i)' /\ opened'[i].size <= Room(i)'
  <2>1. Room(i)' = Room(i)
    BY <1>1 DEF Room
  <2>2. Room(i) \in Nat /\ disk[i].size <= Room(i) /\ opened[i].size <= Room(i)
    BY RoomType, BackedByRoom DEF NoTruncInv
  <2> QED BY <2>1, <2>2
<1>5. SizeBacked'
  BY <1>4 DEF SizeBacked, Room
<1> QED BY <1>2, <1>3, <1>5 DEF NoTruncInv

\* What a write leaves: the whole list, to its end, is the chain of its file.
LEMMA WrittenChain ==
  ASSUME RecordInv, NEW own, Owned(own), NoTruncInv, RecordInv', NEW p, Owned(p)',
         NEW h, NEW i, NEW pos \in Pos, NEW len \in Pos, NEW l, NEW s, NEW e,
         WriteParts(own, h, i, pos, len, l, s, e)
  PROVE  /\ FileChain(i) = Elements(l) /\ Cardinality(FileChain(i)) = Len(l)
         /\ FileChain(i)' = Elements(e) /\ Cardinality(FileChain(i))' = Len(e)
         /\ s \in Seq(Block) /\ e = l \o s /\ Ends(e)'
<1> DEFINE n == Least(BlocksFor((pos + len) - 1), BlockCount)
<1>1. /\ i \in Inode /\ len > 0 /\ l \in ListFor(opened[i], 1)
      /\ l \in Seq(Block) /\ Mirrors(own, i, l) /\ (l = <<>> => disk[i].first = NoBlock)
      /\ s \in NewBlocks(l, n) /\ e = Extended(l, s) /\ e \in Seq(Block)
      /\ next' = Linked(l, s) /\ opened'[i].list = e
      /\ disk'[i].first = IF disk[i].first = NoBlock /\ e # <<>> THEN e[1] ELSE disk[i].first
  BY DEF WriteParts
<1>2. n \in Nat
  BY <1>1, LastBlockType
<1> HIDE DEF n
<1>3. Ends(l)
  BY <1>1, ListForEnds, OpenedType DEF RecordInv, NoTruncInv, ListsEnd
<1>4. FileChain(i) = Elements(l) /\ Cardinality(FileChain(i)) = Len(l)
  BY <1>1, <1>3, WholeFile DEF RecordInv
<1>5. ~Severed(l) /\ e = l \o s
  BY <1>1, <1>3 DEF Ends, Severed, Extended
<1>6. s \in Seq(Block)
  BY <1>1, <1>2, NewBlocksTaken, TakenProperties DEF RecordInv, TypeOK
<1>7. Grown(l, s, e)
  BY <1>1, <1>2, GrowthFacts DEF RecordInv, Owned, Mirrors
<1>8. Mirrors(p, i, e)'
  BY <1>1 DEF Owned, Lists
<1>9. ASSUME e # <<>> PROVE next'[e[Len(e)]] = NoBlock
  <2>1. /\ Len(e) \in 1 .. Len(e) /\ e[Len(e)] \in Block /\ Len(l) <= Len(e) /\ Len(l) \in Nat
        /\ \A k \in Len(l) + 1 .. Len(e) : e[k] \notin used
        /\ \A k \in 1 .. Len(l) : e[k] = l[k] /\ l[k] \in used
    <3>1. Len(e) \in 1 .. Len(e) /\ e[Len(e)] \in Block /\ Len(l) \in Nat
      BY <1>1, <1>9
    <3>2. /\ Len(l) <= Len(e)
          /\ \A k \in Len(l) + 1 .. Len(e) : e[k] \notin used
          /\ \A k \in 1 .. Len(l) : e[k] = l[k]
      BY <1>7 DEF Grown
    <3>3. \A k \in 1 .. Len(l) : l[k] \in used
      BY <1>1 DEF Mirrors
    <3> QED BY <3>1, <3>2, <3>3
  <2>2. \A k \in Joints(l, e) : e[k] # e[Len(e)]
    <3>1. \A j, k \in 1 .. Len(e) : e[j] = e[k] => j = k
      BY <1>8 DEF Mirrors
    <3>2. \A k \in Joints(l, e) : k \in 1 .. Len(e) /\ k # Len(e)
      BY <2>1 DEF Joints
    <3> QED BY <2>1, <3>1, <3>2
  <2>3. next'[e[Len(e)]] = next[e[Len(e)]]
    <3>1. PICK b \in Block : b = e[Len(e)]
      BY <2>1
    <3>2. \A k \in Joints(l, e) : e[k] # b
      BY <2>2, <3>1
    <3>3. Linked(l, s)[b] = next[b]
      BY <1>7, <3>2 DEF Grown
    <3> QED BY <1>1, <3>1, <3>3
  <2>4. CASE Len(e) = Len(l)
    <3>1. l # <<>> /\ e[Len(e)] = l[Len(l)]
      BY <1>1, <1>9, <2>1, <2>4
    <3> QED BY <1>3, <2>3, <3>1 DEF Ends
  <2>5. CASE Len(e) # Len(l)
    <3>1. Len(e) \in Len(l) + 1 .. Len(e)
      BY <2>1, <2>5
    <3> QED BY <2>1, <2>3, <3>1 DEF Owned, Links
  <2> QED BY <2>4, <2>5
<1>10. ASSUME e = <<>> PROVE disk'[i].first = NoBlock
  <2>1. Len(l) <= Len(e)
    BY <1>7 DEF Grown
  <2>2. l = <<>>
    BY <1>1, <1>10, <2>1
  <2> QED BY <1>1, <1>10, <2>2
<1>11. Follows(next', disk'[i].first, e)
  BY <1>8, <1>9, <1>10 DEF Mirrors, Follows
<1>12. disk'[i].first \in Block \cup {NoBlock} /\ next' \in [Block -> Block \cup {NoBlock}]
  BY <1>1 DEF RecordInv, TypeOK, BlockTypeOK, DiskInode
<1>13. FileChain(i)' = Elements(e) /\ Cardinality(FileChain(i))' = Len(e)
  BY <1>1, <1>11, <1>12, WholeChain DEF FileChain
<1> QED BY <1>4, <1>5, <1>6, <1>9, <1>13 DEF Ends

LEMMA SizeAfterWriteBacked ==
  ASSUME NEW size \in Nat, NEW pos \in Nat, NEW end \in Nat, NEW n \in Nat, NEW room \in Nat,
         room = BlockSize * n, size <= room
  PROVE  SizeAfterWrite(size, pos, end, n) <= room
<1>1. n * BlockSize = room
  BY NodeDevAssumption
<1>2. Least(end, n * BlockSize) <= room
  BY <1>1 DEF Least
<1> QED BY <1>2 DEF SizeAfterWrite

LEMMA WriteNoTrunc ==
  ASSUME RecordInv, NEW own \in Owner, Owned(own), NoTruncInv, RecordInv', NEW p, Owned(p)',
         NEW h \in Handle, NEW pos \in Pos, NEW len \in Pos, WriteDev(h, pos, len)
  PROVE  NoTruncInv'
<1>1. PICK i, l, s, e : WriteParts(own, h, i, pos, len, l, s, e)
  BY WriteHasParts
<1>2. /\ FileChain(i) = Elements(l) /\ Cardinality(FileChain(i)) = Len(l)
      /\ FileChain(i)' = Elements(e) /\ Cardinality(FileChain(i))' = Len(e)
      /\ s \in Seq(Block) /\ e = l \o s /\ Ends(e)'
  BY <1>1, WrittenChain
<1>3. /\ i \in Inode /\ len > 0 /\ l \in Seq(Block) /\ Mirrors(own, i, l)
      /\ s \in NewBlocks(l, Least(BlocksFor((pos + len) - 1), BlockCount))
      /\ MarkUsed(s) /\ next' = Linked(l, s)
      /\ \A j \in Inode \ {i} : disk'[j] = disk[j] /\ opened'[j] = opened[j]
      /\ opened'[i].list = e /\ opened'[i].count # 0
      /\ opened'[i].size = SizeAfterWrite(opened[i].size, pos, pos + len, Len(e))
      /\ disk'[i].size \in {disk[i].size, opened[i].size}
  BY <1>1 DEF WriteParts
<1>4. Touches(own, i)
  BY <1>3, LastBlockType, GrowthTouches DEF RecordInv
<1>5. \A j \in Inode \ {i} : FileChain(j)' = FileChain(j)
  BY <1>3, <1>4, OthersKept DEF RecordInv
<1>6. ASSUME NEW j \in Inode \ {i} PROVE Ends(opened[j].list)'
  <2> DEFINE t == opened[j].list
  <2>1. t \in Seq(Block) /\ Mirrors(own, j, t) /\ Ends(t)
    BY OpenedType DEF RecordInv, Owned, Lists, NoTruncInv, ListsEnd
  <2>2. opened'[j].list = t
    BY <1>3
  <2> HIDE DEF t
  <2>3. ASSUME t # <<>> PROVE next'[t[Len(t)]] = NoBlock
    <3>1. Len(t) \in 1 .. Len(t) /\ t[Len(t)] \in Block
      BY <2>1, <2>3
    <3>2. t[Len(t)] \in used /\ own[t[Len(t)]] = j
      BY <2>1, <3>1 DEF Mirrors
    <3>3. next'[t[Len(t)]] = next[t[Len(t)]]
      BY <1>4, <3>1, <3>2 DEF Touches
    <3> QED BY <2>1, <2>3, <3>3 DEF Ends
  <2> QED BY <2>2, <2>3 DEF Ends
<1>7. ListsEnd'
  BY <1>2, <1>3, <1>6 DEF ListsEnd
<1>8. UnopenedBlank'
  BY <1>3 DEF NoTruncInv, UnopenedBlank
<1>9. NoLostBlocks'
  <2>1. used' = used \cup Elements(s)
    <3>1. DOMAIN s = 1 .. Len(s)
      BY <1>2
    <3> QED BY <1>3, <3>1 DEF MarkUsed, Elements
  <2>2. Elements(e) = Elements(l) \cup Elements(s)
    BY <1>2, <1>3, ConcatElements
  <2>3. FileChain(i)' = FileChain(i) \cup Elements(s)
    BY <1>2, <2>2
  <2>4. UNION {FileChain(j)' : j \in Inode} = (UNION {FileChain(j) : j \in Inode}) \cup Elements(s)
    BY <1>3, <1>5, <2>3
  <2> QED BY <2>1, <2>4 DEF NoTruncInv, NoLostBlocks
<1>10. ASSUME NEW j \in Inode \ {i} PROVE disk'[j].size <= Room(j)' /\ opened'[j].size <= Room(j)'
  <2>1. Room(j)' = Room(j)
    BY <1>5 DEF Room
  <2> QED BY <1>3, <2>1, BackedByRoom DEF NoTruncInv
<1>11. disk'[i].size <= Room(i)' /\ opened'[i].size <= Room(i)'
  <2>1. Room(i) = BlockSize * Len(l) /\ Room(i)' = BlockSize * Len(e)
    BY <1>2 DEF Room
  <2>2. Len(l) \in Nat /\ Len(e) \in Nat /\ Len(l) <= Len(e) /\ Room(i) \in Nat /\ Room(i)' \in Nat
    BY <1>2, <1>3, <2>1, NodeDevAssumption
  <2>3. Room(i) <= Room(i)'
    BY <2>1, <2>2, NodeDevAssumption
  <2>4. /\ opened[i].size \in Nat /\ disk[i].size \in Nat
        /\ opened[i].size <= Room(i) /\ disk[i].size <= Room(i)
    BY <1>3, OpenedType, BackedByRoom DEF NoTruncInv, RecordInv, TypeOK, DiskInode, Pos
  <2>5. opened[i].size <= Room(i)' /\ disk'[i].size <= Room(i)'
    BY <1>3, <2>2, <2>3, <2>4
  <2>6. pos \in Nat /\ pos + len \in Nat
    BY DEF Pos
  <2>7. PICK room \in Nat : room = Room(i)'
    BY <2>2
  <2>8. room = BlockSize * Len(e) /\ opened[i].size <= room
    BY <2>1, <2>5, <2>7
  <2>9. SizeAfterWrite(opened[i].size, pos, pos + len, Len(e)) <= room
    BY <2>2, <2>4, <2>6, <2>8, SizeAfterWriteBacked
  <2> QED BY <1>3, <2>5, <2>7, <2>9
<1>12. SizeBacked'
  BY <1>10, <1>11 DEF SizeBacked, Room
<1> QED BY <1>7, <1>8, <1>9, <1>12 DEF NoTruncInv

\* An allocator that hands out less than asked has handed out all it had.
LEMMA AllTaken ==
  ASSUME BlockTypeOK, NEW q \in Nat, NEW s \in Taken(q)
  PROVE  Len(s) = q \/ Available \subseteq Elements(s)
<1> DEFINE c == Cardinality(Available)
<1>1. /\ s \in [1 .. Least(q, c) -> Available]
      /\ s \in Seq(Block)
      /\ \A k \in 1 .. Len(s) : s[k] \in Available
      /\ \A j, k \in 1 .. Len(s) : j < k => s[j] < s[k]
  BY TakenProperties DEF Taken
<1>2. Available \in SUBSET Block /\ IsFiniteSet(Available) /\ c \in Nat
  BY BlockFinite DEF Available
<1>3. CASE Least(q, c) = q
  BY <1>1, <1>3
<1>4. CASE Least(q, c) # q
  <2>1. Least(q, c) = c
    BY <1>4 DEF Least
  <2>2. s \in [1 .. c -> Available] /\ Len(s) = c
    BY <1>1, <1>2, <2>1
  <2>3. ASSUME NEW j \in 1 .. c, NEW k \in 1 .. c, s[j] = s[k], j # k PROVE FALSE
    <3>1. s[j] \in Block
      <4>1. s[j] \in Available
        BY <2>2
      <4> QED BY <1>2, <4>1
    <3>2. s[j] \in Int
      BY <3>1 DEF Block
    <3>3. s[j] < s[k] \/ s[k] < s[j]
      BY <1>1, <2>2, <2>3
    <3> QED BY <2>3, <3>2, <3>3
  <2>4. s \in Injection(1 .. c, Available)
    BY <2>2, <2>3 DEF Injection, IsInjective
  <2>5. Cardinality(1 .. c) = c
    <3> HIDE DEF c
    <3> QED BY <1>2, FS_Interval
  <2>6. s \in Surjection(1 .. c, Available)
    <3> USE DEF c
    <3> QED BY <1>2, <2>4, <2>5, FS_Injection
  <2>7. \A b \in Available : \E k \in 1 .. c : s[k] = b
    BY <2>6 DEF Surjection
  <2> QED BY <2>2, <2>7 DEF Elements
<1> QED BY <1>3, <1>4

\* The blocks up to a position hold it.
LEMMA BlocksHold ==
  ASSUME NEW pos \in Nat
  PROVE  /\ pos < BlocksFor(pos) * BlockSize
         /\ \A q \in Nat : pos <= q => BlocksFor(pos) <= BlocksFor(q)
<1>1. BlockSize \in Nat \ {0}
  BY NodeDevAssumption
<1>2. pos < BlockSize * (1 + (pos \div BlockSize))
  BY <1>1
<1>3. BlockSize * (1 + (pos \div BlockSize)) = (1 + (pos \div BlockSize)) * BlockSize
  BY <1>1
<1>4. \A q \in Nat : pos <= q => pos \div BlockSize <= q \div BlockSize
  BY <1>1
<1>5. pos \div BlockSize \in Nat /\ \A q \in Nat : q \div BlockSize \in Nat
  BY <1>1
<1> QED BY <1>2, <1>3, <1>4, <1>5 DEF BlocksFor

\* A write that leaves a free block has written all it was asked, or to the
\* end of what the whole container could hold.
LEMMA WriteFillsUp ==
  ASSUME RecordInv, NEW own \in Owner, Owned(own), NoTruncInv, NothingFreeBelowHints,
         RecordInv', NEW p, Owned(p)', used' # Block,
         NEW h \in Handle, NEW pos \in Pos, NEW len \in Pos, WriteDev(h, pos, len)
  PROVE  opened'[handle[h].inode].size >= Least(pos + len, BlockSize * BlockCount)
<1>1. PICK i, l, s, e : WriteParts(own, h, i, pos, len, l, s, e)
  BY WriteHasParts
<1>2. s \in Seq(Block) /\ e = l \o s /\ l \in Seq(Block)
  <2>1. l \in Seq(Block)
    BY <1>1 DEF WriteParts
  <2>2. /\ FileChain(i) = Elements(l) /\ Cardinality(FileChain(i)) = Len(l)
        /\ FileChain(i)' = Elements(e) /\ Cardinality(FileChain(i))' = Len(e)
        /\ s \in Seq(Block) /\ e = l \o s /\ Ends(e)'
    BY <1>1, WrittenChain
  <2> QED BY <2>1, <2>2
<1> DEFINE last == (pos + len) - 1
           n == Least(BlocksFor(last), BlockCount)
<1>3. /\ i = handle[h].inode /\ i \in Inode /\ len > 0 /\ BlocksFor(pos) <= BlockCount
      /\ s \in NewBlocks(l, n) /\ MarkUsed(s)
      /\ opened'[i].size = SizeAfterWrite(opened[i].size, pos, pos + len, Len(e))
      /\ l \in ListFor(opened[i], 1)
  BY <1>1 DEF WriteParts
<1>4. n \in Nat \ {0} /\ last \in Nat /\ pos \in Nat /\ len \in Nat /\ pos <= last /\ pos + len = last + 1
  BY <1>3, LastBlockType DEF Pos
<1>5. /\ last < BlocksFor(last) * BlockSize /\ BlocksFor(pos) <= BlocksFor(last)
      /\ BlocksFor(pos) \in Nat /\ BlocksFor(last) \in Nat
  BY <1>4, BlocksHold, BlocksForType
<1> HIDE DEF last
<1>6. n <= BlockCount /\ BlocksFor(pos) <= n /\ (n = BlocksFor(last) \/ n = BlockCount)
  BY <1>3, <1>5, BlockCountAssumption DEF Least
<1> HIDE DEF n
<1>7. Len(e) = Len(l) + Len(s) /\ Len(e) \in Nat /\ Len(l) \in Nat /\ Len(s) \in Nat
  BY <1>2
<1>8. n <= Len(e)
  <2>1. CASE n <= Len(l)
    BY <1>4, <1>7, <2>1
  <2>2. CASE ~(n <= Len(l))
    <3>1. Ends(l)
      BY <1>3, ListForEnds, OpenedType DEF RecordInv, NoTruncInv, ListsEnd
    <3>2. s \in Taken(n - Len(l)) /\ n - Len(l) \in Nat
      BY <1>3, <1>4, <1>6, <1>7, <2>2, <3>1, BlockCountAssumption DEF NewBlocks, Ends, Severed
    <3>3. CASE Len(s) = n - Len(l)
      BY <1>4, <1>7, <3>3
    <3>4. CASE Available \subseteq Elements(s)
      <4>1. used' = used \cup Elements(s)
        <5>1. DOMAIN s = 1 .. Len(s)
          BY <1>2
        <5> QED BY <1>3, <5>1 DEF MarkUsed, Elements
      <4>2. \A b \in Block : b \in used \/ b \in Available
        BY DEF NothingFreeBelowHints, Available, RecordInv, TypeOK, BlockTypeOK, Block
      <4>3. used' \subseteq Block
        BY DEF RecordInv, TypeOK, BlockTypeOK
      <4> QED BY <3>4, <4>1, <4>2, <4>3
    <3> QED BY <3>2, <3>3, <3>4, AllTaken DEF RecordInv, TypeOK
  <2> QED BY <2>1, <2>2
<1>9. n * BlockSize <= Len(e) * BlockSize /\ n * BlockSize \in Nat /\ Len(e) * BlockSize \in Nat
  BY <1>4, <1>7, <1>8, NodeDevAssumption
<1>10. pos + len <= n * BlockSize \/ n * BlockSize = BlockSize * BlockCount
  <2>1. CASE n = BlocksFor(last)
    <3>1. last < n * BlockSize
      BY <1>5, <2>1
    <3> QED BY <1>4, <1>9, <3>1
  <2>2. CASE n = BlockCount
    BY <2>2, BlockCountAssumption, NodeDevAssumption
  <2> QED BY <1>6, <2>1, <2>2
<1>11. PICK stop : stop = Least(pos + len, Len(e) * BlockSize)
  OBVIOUS
<1>12. stop >= Least(pos + len, BlockSize * BlockCount) /\ stop \in Nat
  BY <1>4, <1>9, <1>10, <1>11, BlockCountAssumption, NodeDevAssumption DEF Least
<1>13. opened[i].size \in Nat
  BY <1>3, OpenedType DEF RecordInv, Pos
<1>14. opened'[i].size >= stop
  <2>1. BlocksFor(pos) <= Len(e)
    BY <1>4, <1>5, <1>6, <1>7, <1>8
  <2>2. opened'[i].size = IF stop > opened[i].size THEN stop ELSE opened[i].size
    BY <1>3, <1>11, <2>1 DEF SizeAfterWrite
  <2> QED BY <1>12, <1>13, <2>2
<1>15. Least(pos + len, BlockSize * BlockCount) \in Nat /\ opened'[i].size \in Nat
  <2>1. BlockSize * BlockCount \in Nat
    BY BlockCountAssumption, NodeDevAssumption
  <2>2. opened'[i].size \in Nat
    BY <1>3, <1>9, <1>12, <1>13, <1>11 DEF SizeAfterWrite
  <2> QED BY <1>4, <2>1, <2>2 DEF Least
<1> QED BY <1>3, <1>12, <1>14, <1>15

-----------------------------------------------------------------------------
(* The other calls of such a client.                                        *)

LEMMA OpenNoTrunc ==
  ASSUME RecordInv, NoTruncInv, NEW h \in Handle, NEW i \in Inode, NEW w \in BOOLEAN,
         UNCHANGED blockVars,
         opened' = [opened EXCEPT ![i] = WithOpener(i, disk[i], h, w)],
         disk' = disk \/ disk' = [disk EXCEPT ![i].used = TRUE]
  PROVE  NoTruncInv'
<1>1. used' = used /\ next' = next
  BY DEF blockVars
<1>2. opened[i] \in OpenInode
  BY OpenedType DEF RecordInv
<1>3. /\ WithOpener(i, disk[i], h, w).list \in {opened[i].list, <<>>}
      /\ WithOpener(i, disk[i], h, w).size \in {opened[i].size, disk[i].size}
      /\ WithOpener(i, disk[i], h, w).count # 0
  <2>1. CASE opened[i].count = 0
    BY <2>1 DEF WithOpener
  <2>2. CASE opened[i].count # 0
    <3> DEFINE r == [opened[i] EXCEPT !.count = @ + 1, !.writer = IF w THEN h ELSE @]
    <3>1. r.list = opened[i].list /\ r.count = opened[i].count + 1 /\ r.size = opened[i].size
      BY <1>2 DEF OpenInode
    <3>2. r.count # 0
      BY <1>2, <3>1 DEF OpenInode
    <3>3. WithOpener(i, disk[i], h, w) = r
      BY <2>2 DEF WithOpener
    <3> HIDE DEF r
    <3> QED BY <3>1, <3>2, <3>3
  <2> QED BY <2>1, <2>2
<1>4. \A j \in Inode : disk'[j].first = disk[j].first /\ disk'[j].size = disk[j].size
  BY DEF RecordInv, TypeOK, DiskInode
<1>5. Linkless
  BY <1>1, <1>4 DEF Linkless
<1>6. /\ \A j \in Inode \ {i} : opened'[j] = opened[j]
      /\ opened'[i] = WithOpener(i, disk[i], h, w)
  BY DEF RecordInv, TypeOK
<1>7. ASSUME NEW j \in Inode
      PROVE  /\ Ends(opened'[j].list)
             /\ opened'[j].count = 0 => opened'[j].size = 0
             /\ opened'[j].size \in {disk[j].size, opened[j].size, 0}
  <2>1. Ends(<<>>) /\ Ends(opened[j].list) /\ (opened[j].count = 0 => opened[j].size = 0)
    BY DEF Ends, NoTruncInv, ListsEnd, UnopenedBlank
  <2> QED BY <1>3, <1>6, <2>1
<1> QED BY <1>1, <1>4, <1>5, <1>7, LinklessNoTrunc DEF RecordInv

LEMMA CloseNoTrunc ==
  ASSUME RecordInv, NoTruncInv, NEW h \in Handle, FlushDev(h) \/ CloseDev(h)
  PROVE  NoTruncInv'
<1>0. PICK i : i = handle[h].inode
  OBVIOUS
<1>1. handle[h] # NoDev
  BY DEF FlushDev, CloseDev, NoDev
<1>2. i \in Inode /\ opened[i] \in OpenInode /\ opened[i].count \in Nat \ {0}
  BY <1>0, <1>1, Holder, OpenedType DEF RecordInv
<1>3. used' = used /\ (disk' = Flushed(i, opened[i]) \/ disk' = disk)
  BY <1>0 DEF FlushDev, CloseDev, blockVars
<1>4. \A j \in Inode : disk'[j].size \in {disk[j].size, opened[j].size}
  <2>1. /\ \A j \in Inode \ {i} : Flushed(i, opened[i])[j] = disk[j]
        /\ Flushed(i, opened[i])[i]
             = [used |-> TRUE, first |-> opened[i].first, size |-> opened[i].size]
    BY <1>2, FlushedType DEF RecordInv
  <2> QED BY <1>2, <1>3, <2>1
<1>5. PICK r : /\ opened' = [opened EXCEPT ![i] = r]
               /\ r.list = opened[i].list \/ r.list = <<>>
               /\ r.size = opened[i].size \/ r.size = 0
               /\ r.count = 0 => r.size = 0
  <2>1. CASE FlushDev(h)
    <3>1. opened' = [opened EXCEPT ![i] = opened[i]]
      BY <1>2, <2>1 DEF FlushDev, RecordInv, TypeOK
    <3> QED BY <1>2, <3>1
  <2>2. CASE CloseDev(h) /\ opened[i].count = 1
    <3>1. opened' = [opened EXCEPT ![i] = NotOpen]
      BY <1>0, <2>2 DEF CloseDev
    <3>2. NotOpen.list = <<>> /\ NotOpen.size = 0
      BY DEF NotOpen
    <3> QED BY <3>1, <3>2
  <2>3. CASE CloseDev(h) /\ opened[i].count # 1
    <3> DEFINE r == [opened[i] EXCEPT !.count = @ - 1, !.writer = IF @ = h THEN NoHandle ELSE @]
    <3>1. opened' = [opened EXCEPT ![i] = r]
      BY <1>0, <2>3 DEF CloseDev
    <3>2. r.list = opened[i].list /\ r.count = opened[i].count - 1 /\ r.size = opened[i].size
      BY <1>2 DEF OpenInode
    <3>3. r.count # 0
      BY <1>2, <2>3, <3>2
    <3> HIDE DEF r
    <3> QED BY <3>1, <3>2, <3>3
  <2> QED BY <2>1, <2>2, <2>3
<1>6. ASSUME NEW j \in Inode
      PROVE  /\ Ends(opened'[j].list)
             /\ opened'[j].count = 0 => opened'[j].size = 0
             /\ opened'[j].size \in {disk[j].size, opened[j].size, 0}
  <2>1. Ends(<<>>) /\ Ends(opened[j].list) /\ (opened[j].count = 0 => opened[j].size = 0)
    BY DEF Ends, NoTruncInv, ListsEnd, UnopenedBlank
  <2>2. CASE j = i
    <3>1. opened'[i] = r
      BY <1>2, <1>5 DEF RecordInv, TypeOK
    <3> QED BY <1>5, <2>1, <2>2, <3>1
  <2>3. CASE j # i
    <3>1. opened'[j] = opened[j]
      BY <1>5, <2>3 DEF RecordInv, TypeOK
    <3> QED BY <2>1, <3>1
  <2> QED BY <2>2, <2>3
<1>7. Linkless
  BY FlushLinkless
<1> QED BY <1>3, <1>4, <1>6, <1>7, LinklessNoTrunc DEF RecordInv

LEMMA ReadNoTrunc ==
  ASSUME RecordInv, NoTruncInv, NEW h \in Handle, NEW pos \in Pos, ReadDev(h, pos)
  PROVE  NoTruncInv'
<1>0. PICK i : i = handle[h].inode
  OBVIOUS
<1>1. handle[h] # NoDev /\ used' = used /\ next' = next /\ disk' = disk
  BY DEF ReadDev, blockVars
<1>2. i \in Inode /\ opened[i] \in OpenInode /\ opened[i].count # 0
  BY <1>0, <1>1, Holder, OpenedType DEF RecordInv
<1>3. PICK l \in ListFor(opened[i], 1) : opened' = [opened EXCEPT ![i].list = l]
  BY <1>0 DEF ReadDev
<1>4. Ends(l)
  BY <1>2, ListForEnds DEF RecordInv, NoTruncInv, ListsEnd
<1>5. /\ \A j \in Inode \ {i} : opened'[j] = opened[j]
      /\ opened'[i] = [opened[i] EXCEPT !.list = l]
  BY <1>2, <1>3 DEF RecordInv, TypeOK
<1>6. opened'[i].list = l /\ opened'[i].size = opened[i].size /\ opened'[i].count = opened[i].count
  BY <1>2, <1>5 DEF OpenInode
<1>7. ASSUME NEW j \in Inode
      PROVE  /\ Ends(opened'[j].list)
             /\ opened'[j].count = 0 => opened'[j].size = 0
             /\ opened'[j].size \in {disk[j].size, opened[j].size, 0}
  <2>1. Ends(opened[j].list) /\ (opened[j].count = 0 => opened[j].size = 0)
    BY DEF NoTruncInv, ListsEnd, UnopenedBlank
  <2> QED BY <1>2, <1>4, <1>5, <1>6, <2>1
<1>8. Linkless
  BY <1>1 DEF Linkless
<1> QED BY <1>1, <1>7, <1>8, LinklessNoTrunc DEF RecordInv

\* An unlinked inode gives back its chain and nothing else.
LEMMA UnlinkNoTrunc ==
  ASSUME RecordInv, NEW own \in Owner, Owned(own), NoTruncInv, RecordInv',
         NEW i \in Inode, Unlink(i)
  PROVE  NoTruncInv'
<1> DEFINE W == FileChain(i)
<1>1. /\ next' = [b \in Block |-> IF b \in W THEN NoBlock ELSE next[b]]
      /\ disk' = [disk EXCEPT ![i] = [used |-> FALSE, first |-> NoBlock, size |-> 0]]
      /\ used' = used \ W /\ opened' = opened /\ opened[i].count = 0
  BY DEF Unlink, FileChain, Wipe
<1>2. \A j \in Inode \ {i} : FileChain(j)' = FileChain(j) /\ disk'[j] = disk[j]
  BY UnlinkTouches, OthersKept DEF RecordInv
<1>3. disk'[i].first = NoBlock /\ disk'[i].size = 0
  BY <1>1 DEF RecordInv, TypeOK
<1>4. FileChain(i)' = {}
  <2>1. next' \in [Block -> Block \cup {NoBlock}] /\ NoBlock \in Block \cup {NoBlock}
    BY DEF RecordInv, TypeOK, BlockTypeOK
  <2>2. Reach(next', NoBlock) = {}
    BY <2>1, ReachType
  <2> QED BY <1>3, <2>2 DEF FileChain
<1>5. ListsEnd'
  <2> SUFFICES ASSUME NEW j \in Inode PROVE Ends(opened[j].list)'
    BY DEF ListsEnd
  <2> DEFINE t == opened[j].list
  <2>1. t \in Seq(Block) /\ Ends(t) /\ opened'[j].list = t
    BY <1>1, OpenedType DEF RecordInv, NoTruncInv, ListsEnd
  <2> HIDE DEF t, W
  <2>2. ASSUME t # <<>> PROVE next'[t[Len(t)]] = NoBlock
    <3>1. t[Len(t)] \in Block /\ next[t[Len(t)]] = NoBlock
      BY <2>1, <2>2 DEF Ends
    <3> QED BY <1>1, <3>1
  <2> QED BY <2>1, <2>2 DEF Ends
<1>6. UnopenedBlank'
  BY <1>1 DEF NoTruncInv, UnopenedBlank
<1>7. NoLostBlocks'
  <2>1. \A j \in Inode \ {i} : FileChain(j) \cap W = {}
    BY FileOwned DEF RecordInv
  <2>2. UNION {FileChain(j)' : j \in Inode} = (UNION {FileChain(j) : j \in Inode}) \ W
    BY <1>2, <1>4, <2>1
  <2> QED BY <1>1, <2>2 DEF NoTruncInv, NoLostBlocks
<1>8. ASSUME NEW j \in Inode PROVE disk'[j].size <= Room(j)' /\ opened'[j].size <= Room(j)'
  <2>1. CASE j = i
    <3>1. opened'[i].size = 0
      BY <1>1 DEF NoTruncInv, UnopenedBlank
    <3>2. Cardinality(FileChain(i))' = 0
      BY <1>4, FS_EmptySet
    <3>3. Room(i)' = 0
      BY <3>2, NodeDevAssumption DEF Room
    <3> QED BY <1>3, <2>1, <3>1, <3>3
  <2>2. CASE j # i
    <3>1. Room(j)' = Room(j)
      BY <1>2, <2>2 DEF Room
    <3> QED BY <1>1, <1>2, <2>2, <3>1, BackedByRoom DEF NoTruncInv
  <2> QED BY <2>1, <2>2
<1>9. SizeBacked'
  BY <1>8 DEF SizeBacked, Room
<1> QED BY <1>5, <1>6, <1>7, <1>9 DEF NoTruncInv

LEMMA NoTruncInit == Init => NoTruncInv
<1> SUFFICES ASSUME Init PROVE NoTruncInv
  OBVIOUS
<1>1. /\ used = {} /\ next \in [Block -> Block \cup {NoBlock}]
      /\ \A i \in Inode : disk[i].first = NoBlock /\ disk[i].size = 0
      /\ \A i \in Inode : opened[i].list = <<>> /\ opened[i].size = 0
  BY DEF Init, BlockInit, NotOpen
<1>2. ASSUME NEW i \in Inode PROVE FileChain(i) = {} /\ Room(i) = 0
  <2>1. FileChain(i) = {}
    BY <1>1, ReachType DEF FileChain
  <2>2. Cardinality(FileChain(i)) = 0
    BY <2>1, FS_EmptySet
  <2> QED BY <2>1, <2>2, NodeDevAssumption DEF Room
<1>3. ListsEnd /\ UnopenedBlank
  BY <1>1 DEF ListsEnd, Ends, UnopenedBlank
<1>4. NoLostBlocks
  BY <1>1, <1>2 DEF NoLostBlocks
<1>5. SizeBacked
  BY <1>1, <1>2, BackedByRoom
<1> QED BY <1>3, <1>4, <1>5 DEF NoTruncInv

LEMMA NoTruncNext ==
  RecordInv /\ ChainInv /\ NoTruncInv /\ RecordInv' /\ ChainInv' /\ [NextNoTrunc]_vars => NoTruncInv'
<1> SUFFICES ASSUME RecordInv, ChainInv, NoTruncInv, RecordInv', ChainInv', [NextNoTrunc]_vars
             PROVE  NoTruncInv'
  OBVIOUS
<1>1. PICK own \in Owner : Owned(own)
  BY DEF ChainInv
<1>2. PICK p : Owned(p)'
  BY DEF ChainInv
<1>3. ASSUME NEW h \in Handle, CreateDev(h) PROVE NoTruncInv'
  <2>1. PICK i \in Inode :
          /\ disk' = [disk EXCEPT ![i].used = TRUE]
          /\ opened' = [opened EXCEPT ![i] = WithOpener(i, disk[i], h, TRUE)]
    BY <1>3 DEF CreateDev, FreeInodes
  <2>2. UNCHANGED blockVars
    BY <1>3 DEF CreateDev
  <2> QED BY <2>1, <2>2, OpenNoTrunc
<1>4. ASSUME NEW h \in Handle, NEW i \in Inode, NEW w \in BOOLEAN, OpenDev(h, i, w) PROVE NoTruncInv'
  BY <1>4, OpenNoTrunc DEF OpenDev
<1>5. ASSUME NEW h \in Handle, FlushDev(h) \/ CloseDev(h) PROVE NoTruncInv'
  BY <1>5, CloseNoTrunc
<1>6. ASSUME NEW h \in Handle, NEW pos \in Pos, ReadDev(h, pos) PROVE NoTruncInv'
  BY <1>6, ReadNoTrunc
<1>7. ASSUME NEW h \in Handle, NEW pos \in Pos, NEW len \in Pos, WriteDev(h, pos, len) PROVE NoTruncInv'
  BY <1>1, <1>2, <1>7, WriteNoTrunc
<1>8. ASSUME NEW i \in Inode, Unlink(i) PROVE NoTruncInv'
  BY <1>1, <1>8, UnlinkNoTrunc
<1>9. CASE UNCHANGED vars
  <2>1. \A i \in Inode : FileChain(i)' = FileChain(i)
    BY <1>9 DEF vars, FileChain
  <2>2. used' = used /\ next' = next /\ disk' = disk /\ opened' = opened
    BY <1>9 DEF vars
  <2>3. ListsEnd' /\ UnopenedBlank' /\ NoLostBlocks'
    BY <2>1, <2>2 DEF NoTruncInv, ListsEnd, Ends, UnopenedBlank, NoLostBlocks
  <2>4. SizeBacked'
    BY <2>1, <2>2 DEF NoTruncInv, SizeBacked
  <2> QED BY <2>3, <2>4 DEF NoTruncInv
<1> QED BY <1>3, <1>4, <1>5, <1>6, <1>7, <1>8, <1>9 DEF NextNoTrunc

\* The invariant of a client that never truncates.
NoTruncAll == RecordInv /\ ChainInv /\ NothingFreeBelowHints /\ NoTruncInv

THEOREM NoTruncTheorem == SpecNoTrunc => []NoTruncAll
<1>1. Init => NoTruncAll
  <2>1. Init => NothingFreeBelowHints
    BY DEF Init, BlockInit, Block, Inode, NothingFreeBelowHints
  <2> QED BY <2>1, RecordInit, ChainInit, NoTruncInit DEF NoTruncAll
<1>2. NoTruncAll /\ [NextNoTrunc]_vars => NoTruncAll'
  <2> SUFFICES ASSUME NoTruncAll, [NextNoTrunc]_vars PROVE NoTruncAll'
    OBVIOUS
  <2>1. [Next]_vars
    BY DEF Next
  <2>2. RecordInv' /\ ChainInv' /\ NothingFreeBelowHints'
    BY <2>1, RecordNext, ChainNext, HintNext DEF NoTruncAll
  <2> QED BY <2>2, NoTruncNext DEF NoTruncAll
<1> QED BY <1>1, <1>2, PTL DEF SpecNoTrunc

\* Every block marked used belongs to a file, for a client that never
\* truncates: whefs_block_next_free, the writes and whefs_inode_unlink lose none.
THEOREM NoLostBlocksAlways == SpecNoTrunc => []NoLostBlocks
<1>1. NoTruncAll => NoLostBlocks
  BY DEF NoTruncAll, NoTruncInv
<1> QED BY <1>1, NoTruncTheorem, PTL

\* Every byte below a file's size has its block, in memory and on disk, even
\* after a write that the end of the container cut short (whio_dev_inode_write).
THEOREM SizeBackedAlways == SpecNoTrunc => []SizeBacked
<1>1. NoTruncAll => SizeBacked
  BY DEF NoTruncAll, NoTruncInv
<1> QED BY <1>1, NoTruncTheorem, PTL

\* A cached block list is the whole chain of its inode
\* (whefs_inode_block_list_load and whefs_inode_block_list_append).
THEOREM ListCompleteAlways == SpecNoTrunc => []ListComplete
<1>1. NoTruncAll => ListComplete
  <2> SUFFICES ASSUME NoTruncAll, NEW i \in Inode, opened[i].list # <<>>
               PROVE  Len(opened[i].list) = Cardinality(FileChain(i))
    BY DEF ListComplete
  <2>1. PICK own \in Owner : Owned(own)
    BY DEF NoTruncAll, ChainInv
  <2>2. opened[i].list \in Seq(Block) /\ Mirrors(own, i, opened[i].list) /\ Ends(opened[i].list)
    BY <2>1, OpenedType DEF NoTruncAll, RecordInv, Owned, Lists, NoTruncInv, ListsEnd
  <2> QED BY <2>2, WholeFile DEF NoTruncAll, RecordInv
<1> QED BY <1>1, NoTruncTheorem, PTL

\* The body of ShortWriteMeansFull.
FullWrites ==
    used' # Block => \A h \in Handle, pos, len \in Pos :
        LET i == handle[h].inode
            end == Least(pos + len, BlockSize * BlockCount)
        IN  /\ handle[h].rw /\ handle' = handle
            /\ pos + len <= MaxPos
            /\ opened'[i].size < end
            => ~WriteDev(h, pos, len)

LEMMA StepFullWrites == NoTruncAll /\ NoTruncAll' => FullWrites
<1> SUFFICES ASSUME NoTruncAll, NoTruncAll', used' # Block,
                    NEW h \in Handle, NEW pos \in Pos, NEW len \in Pos,
                    opened'[handle[h].inode].size < Least(pos + len, BlockSize * BlockCount),
                    WriteDev(h, pos, len)
             PROVE  FALSE
  BY DEF FullWrites
<1>1. PICK own \in Owner : Owned(own)
  BY DEF NoTruncAll, ChainInv
<1>2. PICK p : Owned(p)'
  BY DEF NoTruncAll, ChainInv
<1>3. opened'[handle[h].inode].size >= Least(pos + len, BlockSize * BlockCount)
  BY <1>1, <1>2, WriteFillsUp DEF NoTruncAll
<1>4. handle[h].inode \in Inode
  BY Holder DEF NoTruncAll, WriteDev, NoDev
<1>5. opened'[handle[h].inode].size \in Nat
  BY <1>4 DEF NoTruncAll, RecordInv, TypeOK, OpenInode, Pos
<1>6. Least(pos + len, BlockSize * BlockCount) \in Nat
  <2>1. BlockSize * BlockCount \in Nat /\ pos + len \in Nat
    BY BlockCountAssumption, NodeDevAssumption DEF Pos
  <2> QED BY <2>1 DEF Least
<1> QED BY <1>3, <1>5, <1>6

\* A write comes up short only when the container has no free block left, or
\* the position is beyond what the container could hold (whio_dev_inode_write).
THEOREM ShortWriteMeansFullAlways == SpecNoTrunc => ShortWriteMeansFull
<1>1. FullWrites => [used' # Block => \A h \in Handle, pos, len \in Pos :
        LET i == handle[h].inode
            end == Least(pos + len, BlockSize * BlockCount)
        IN  /\ handle[h].rw /\ handle' = handle
            /\ pos + len <= MaxPos
            /\ opened'[i].size < end
            => ~WriteDev(h, pos, len)]_vars
  BY DEF FullWrites
<1> QED BY <1>1, StepFullWrites, NoTruncTheorem, PTL DEF ShortWriteMeansFull

-----------------------------------------------------------------------------
(***************************************************************************)
(* The bytes of files: FileData implements Files.                           *)
(***************************************************************************)

-----------------------------------------------------------------------------
(* Positions: the block of a position and its offset there, and back.        *)

LEMMA PositionParts ==
  ASSUME NEW p \in Nat
  PROVE  /\ BlocksFor(p) \in Nat \ {0} /\ p % BlockSize \in Offset
         /\ PosOf(BlocksFor(p), p % BlockSize) = p
<1>1. BlockSize \in Nat \ {0}
  BY NodeDevAssumption
<1>2. p \div BlockSize \in Nat /\ p % BlockSize \in 0 .. BlockSize - 1
  BY <1>1
<1>3. p = BlockSize * (p \div BlockSize) + (p % BlockSize)
  BY <1>1
<1>4. PICK q \in Nat : q = p \div BlockSize
  BY <1>2
<1>5. PICK r \in 0 .. BlockSize - 1 : r = p % BlockSize
  BY <1>2
<1>6. BlocksFor(p) = 1 + q /\ (1 + q) - 1 = q /\ BlockSize * q = q * BlockSize
  BY <1>1, <1>4 DEF BlocksFor
<1>7. PosOf(1 + q, r) = p
  BY <1>1, <1>3, <1>4, <1>5, <1>6 DEF PosOf
<1> QED BY <1>5, <1>6, <1>7 DEF Offset

\* Two pairs of a block and an offset name one position only if they are the same.
LEMMA PositionUnique ==
  ASSUME NEW x \in Nat \ {0}, NEW y \in Nat \ {0}, NEW o \in Offset, NEW u \in Offset
  PROVE  /\ PosOf(x, o) \in Nat
         /\ PosOf(x, o) = PosOf(y, u) => x = y /\ o = u
         /\ x < y => PosOf(x, o) < (y - 1) * BlockSize
         /\ x <= y => PosOf(x, o) < y * BlockSize
         /\ (x - 1) * BlockSize <= PosOf(x, o)
<1>1. BlockSize \in Nat \ {0} /\ o \in 0 .. BlockSize - 1 /\ u \in 0 .. BlockSize - 1
  BY NodeDevAssumption DEF Offset
<1>2. \A a, b \in Nat : a < b => a * BlockSize + BlockSize <= b * BlockSize
  BY <1>1
<1>3. \A a \in Nat : a * BlockSize \in Nat
  BY <1>1
<1>4. x - 1 \in Nat /\ y - 1 \in Nat /\ x \in Nat /\ y \in Nat
  OBVIOUS
<1>5. PICK a \in Nat : a = (x - 1) * BlockSize
  BY <1>3, <1>4
<1>6. PICK b \in Nat : b = (y - 1) * BlockSize
  BY <1>3, <1>4
<1>7. PosOf(x, o) = a + o /\ PosOf(y, u) = b + u
  BY <1>5, <1>6 DEF PosOf
<1>8. x < y => a + BlockSize <= b
  BY <1>2, <1>4, <1>5, <1>6
<1>9. y < x => b + BlockSize <= a
  BY <1>2, <1>4, <1>5, <1>6
<1>10. x <= y => a + BlockSize <= y * BlockSize
  BY <1>2, <1>4, <1>5
<1>11. x = y => a = b
  BY <1>5, <1>6
<1>12. y * BlockSize \in Nat
  BY <1>3, <1>4
<1> QED BY <1>1, <1>4, <1>5, <1>6, <1>7, <1>8, <1>9, <1>10, <1>11, <1>12

\* A position lies below the end of n blocks exactly if its block is one of them.
LEMMA PositionWithin ==
  ASSUME NEW p \in Nat, NEW n \in Nat
  PROVE  /\ BlocksFor(p) <= n <=> p < n * BlockSize
         /\ n * BlockSize \in Nat /\ BlockSize * n = n * BlockSize
<1>1. PICK x \in Nat \ {0} : x = BlocksFor(p)
  BY PositionParts
<1>2. PICK o \in Offset : o = p % BlockSize
  BY PositionParts
<1>3. PosOf(x, o) = p
  BY <1>1, <1>2, PositionParts
<1>4. n * BlockSize \in Nat /\ BlockSize * n = n * BlockSize
  BY NodeDevAssumption
<1>5. ASSUME x <= n PROVE p < n * BlockSize
  BY <1>3, <1>5, PositionUnique
<1>6. ASSUME ~(x <= n) PROVE ~(p < n * BlockSize)
  <2>1. n + 1 \in Nat \ {0} /\ n + 1 <= x /\ x - 1 \in Nat
    BY <1>6
  <2>2. (x - 1) * BlockSize <= p
    BY <1>3, PositionUnique
  <2>3. n * BlockSize <= (x - 1) * BlockSize
    BY <2>1, NodeDevAssumption
  <2>4. (x - 1) * BlockSize \in Nat
    BY <2>1, NodeDevAssumption
  <2> QED BY <1>4, <2>2, <2>3, <2>4
<1> QED BY <1>1, <1>4, <1>5, <1>6

-----------------------------------------------------------------------------
(* The blocks of a file are one list only.                                   *)

\* The block list whefs_inode_block_list_load() builds is the chain, if the chain ends.
LEMMA LoadedChain ==
  ASSUME BlockTypeOK, NEW b \in Block \cup {NoBlock}, NEW l \in Seq(Block), Follows(next, b, l)
  PROVE  ChainLists(b) = {l}
<1>1. next \in [Block -> Block \cup {NoBlock}]
  BY DEF BlockTypeOK
<1>2. Reach(next, b) = Elements(l) /\ Cardinality(Reach(next, b)) = Len(l)
  BY <1>1, WholeChain
<1>3. l \in ChainLists(b)
  <2>1. DOMAIN l = 1 .. Len(l) /\ Len(l) \in Nat
    OBVIOUS
  <2>2. l \in [1 .. Len(l) -> Elements(l)]
    <3>1. \A k \in 1 .. Len(l) : l[k] \in Elements(l)
      BY DEF Elements
    <3> QED BY <2>1, <3>1
  <2>3. l # <<>> => l[1] = b
    BY DEF Follows
  <2>4. \A k \in DOMAIN l : next[l[k]] = IF k = Len(l) THEN NoBlock ELSE l[k+1]
    <3>1. ASSUME NEW k \in 1 .. Len(l), k # Len(l) PROVE k \in 1 .. Len(l) - 1
      <4>1. PICK n \in Nat : n = Len(l)
        OBVIOUS
      <4>2. k \in 1 .. n /\ k # n
        BY <3>1, <4>1
      <4>3. k \in 1 .. n - 1
        BY <4>2
      <4> QED BY <4>1, <4>3
    <3>2. ASSUME NEW k \in 1 .. Len(l) PROVE l # <<>>
      OBVIOUS
    <3> QED BY <2>1, <3>1, <3>2 DEF Follows
  <2> QED BY <1>2, <2>2, <2>3, <2>4 DEF ChainLists
<1>4. ASSUME NEW m \in ChainLists(b) PROVE m = l
  <2>1. /\ m \in Seq(Block) /\ (m # <<>> => m[1] = b)
        /\ Len(m) = Len(l)
        /\ \A k \in 1 .. Len(m) : next[m[k]] = IF k = Len(m) THEN NoBlock ELSE m[k+1]
    BY <1>2, ChainListsType
  <2>2. \A k \in 1 .. Len(l) : m[k] = l[k]
    <3> DEFINE T == {k \in 1 .. Len(l) : m[k] # l[k]}
    <3> SUFFICES ASSUME T # {} PROVE FALSE
      OBVIOUS
    <3>1. PICK n \in T : \A k \in T : n <= k
      <4>1. T \in SUBSET Nat
        OBVIOUS
      <4> HIDE DEF T
      <4> QED BY <4>1, LeastNatural
    <3>2. n \in 1 .. Len(l) /\ l[n] # m[n] /\ l # <<>> /\ m # <<>>
      BY <2>1, <3>1
    <3>3. n # 1
      BY <2>1, <3>2 DEF Follows
    <3>4. n - 1 \in 1 .. Len(l) - 1 /\ n - 1 \in 1 .. Len(l) /\ (n - 1) + 1 = n /\ n - 1 # Len(l)
      BY <3>2, <3>3
    <3>5. n - 1 \notin T
      BY <3>1, <3>4
    <3>6. l[n-1] = m[n-1]
      BY <3>4, <3>5
    <3>7. next[l[n-1]] = l[n] /\ next[m[n-1]] = m[n]
      BY <2>1, <3>4 DEF Follows
    <3> QED BY <3>2, <3>6, <3>7
  <2> QED BY <2>1, <2>2
<1> QED BY <1>3, <1>4

\* File i is the blocks l, in order.
Holds(i, l) == l \in Seq(Block) /\ Follows(next, disk[i].first, l)

\* What a read goes through is the file, if the cached list is that or none.
ReadsWhole ==
    TypeOK /\ RecordInSync => \A i \in Inode : \A l : Holds(i, l) /\ opened[i].list \in {<<>>, l}
                                => BlocksRead(i) = l

LEMMA BlocksReadHeld == ReadsWhole
<1> SUFFICES ASSUME TypeOK, RecordInSync, NEW i \in Inode, NEW l, Holds(i, l), opened[i].list \in {<<>>, l}
             PROVE  BlocksRead(i) = l
  BY DEF ReadsWhole
<1>1. BlockTypeOK /\ disk[i].first \in Block \cup {NoBlock} /\ opened[i].count \in Nat
  BY DEF TypeOK, DiskInode, OpenInode
<1>2. (IF opened[i].count > 0 THEN opened[i].first ELSE disk[i].first) = disk[i].first
  BY DEF RecordInSync
<1>3. ChainLists(disk[i].first) = {l}
  BY <1>1, LoadedChain DEF Holds
<1>4. (CHOOSE q \in ChainLists(disk[i].first) : TRUE) = l
  BY <1>3
<1> QED BY <1>2, <1>4 DEF BlocksRead

-----------------------------------------------------------------------------
(* What a file is, and the inductive invariant of FileSpec.                  *)

\* The size of file i: that of its opened record, or the one on disk.
Size(i) == IF opened[i].count > 0 THEN opened[i].size ELSE disk[i].size

\* The first n bytes in the blocks l.
Contents(l, n) == [k \in 1 .. n |-> bytes[l[BlocksFor(k - 1)]][(k - 1) % BlockSize]]

\* The blocks l hold zeroes from position n on.
Blank(l, n) == \A k \in 1 .. Len(l), o \in Offset : PosOf(k, o) >= n => bytes[l[k]][o] = 0

\* File i is the first n bytes of the blocks l, and zeroes follow.
IsFile(i, l, n) ==
    /\ Holds(i, l)
    /\ opened[i].list \in {<<>>, l}
    /\ Size(i) = n
    /\ n <= Len(l) * BlockSize
    /\ Blank(l, n)

BytesTyped == bytes \in [Block -> [Offset -> Nat]]

\* What the allocator hands out next holds zeroes.
FreeBlank == \A b \in Block \ used : \A o \in Offset : bytes[b][o] = 0

\* The inductive invariant of FileSpec: with a client that keeps off the
\* truncations the code does wrong, a cached list is all of its file, the blocks
\* reach to the file's size, and what lies behind that size holds zeroes.
FileInv ==
    /\ RecordInv /\ ChainInv
    /\ BytesTyped /\ FreeBlank
    /\ \A i \in Inode : \E l : IsFile(i, l, Size(i))

LEMMA SizeType == ASSUME TypeOK, NEW i \in Inode PROVE Size(i) \in Nat /\ Size(i) \in Pos
<1>1. opened[i].size \in Pos /\ disk[i].size \in Pos
  BY DEF TypeOK, OpenInode, DiskInode
<1> QED BY <1>1, NodeDevAssumption DEF Size, Pos

\* A read of a whole file returns its bytes.
ReadsFiles ==
    RecordInv => \A i \in Inode : \A l, n : IsFile(i, l, n) =>
        /\ ReadAll(i) = Contents(l, n)
        /\ n \in Nat /\ l \in Seq(Block) /\ Elements(l) = FileChain(i)

LEMMA ReadAllIsFile == ReadsFiles
<1> SUFFICES ASSUME RecordInv, NEW i \in Inode, NEW l, NEW n, IsFile(i, l, n)
             PROVE  /\ ReadAll(i) = Contents(l, n)
                    /\ n \in Nat /\ l \in Seq(Block) /\ Elements(l) = FileChain(i)
  BY DEF ReadsFiles
<1>1. Holds(i, l) /\ opened[i].list \in {<<>>, l} /\ Size(i) = n /\ n <= Len(l) * BlockSize
  BY DEF IsFile
<1>2. TypeOK /\ RecordInSync
  BY DEF RecordInv
<1>3. BlocksRead(i) = l
  BY <1>1, <1>2, BlocksReadHeld DEF ReadsWhole
<1>4. n \in Nat
  BY <1>1, <1>2, SizeType
<1>5. Least(n, Len(l) * BlockSize) = n
  BY <1>1 DEF Least
<1>6. ReadAll(i) = Contents(l, n)
  BY <1>1, <1>3, <1>5 DEF ReadAll, Contents, Size
<1>7. /\ l \in Seq(Block) /\ Follows(next, disk[i].first, l)
      /\ disk[i].first \in Block \cup {NoBlock} /\ next \in [Block -> Block \cup {NoBlock}]
  BY <1>1, <1>2 DEF Holds, TypeOK, BlockTypeOK, DiskInode
<1>8. Elements(l) = FileChain(i)
  BY <1>7, WholeChain DEF FileChain
<1> QED BY <1>4, <1>6, <1>7, <1>8

\* What F, the abstract specification, is told of the contents.
FileContents == [i \in Inode |-> ReadAll(i)]

\* A call that makes file i the first z bytes of the blocks q, and keeps every
\* other record and block in use, changes the contents of i only.
LEMMA OneFileChanged ==
  ASSUME FileInv, RecordInv', ChainInv', BytesTyped', FreeBlank',
         NEW i \in Inode, NEW l, IsFile(i, l, Size(i)), NEW q, NEW z, IsFile(i, q, z)',
         \A j \in Inode \ {i} : disk'[j] = disk[j] /\ opened'[j] = opened[j],
         \A b \in used : b \notin Elements(l) => next'[b] = next[b] /\ bytes'[b] = bytes[b]
  PROVE  /\ FileInv'
         /\ FileContents[i] = Contents(l, Size(i))
         /\ FileContents' = [FileContents EXCEPT ![i] = Contents(q, z)']
<1>1. RecordInv /\ ChainInv /\ \A j \in Inode : \E m : IsFile(j, m, Size(j))
  BY DEF FileInv
<1>2. BlocksOwned
  BY <1>1, OwnedBlocks
<1>3. ReadsFiles /\ ReadsFiles'
  BY ReadAllIsFile, PTL
<1>4. ASSUME NEW j \in Inode, j # i
      PROVE  (\E m : IsFile(j, m, Size(j))') /\ Size(j)' = Size(j) /\ ReadAll(j)' = ReadAll(j)
  <2>1. PICK m : IsFile(j, m, Size(j))
    BY <1>1
  <2>2. m \in Seq(Block) /\ Elements(m) = FileChain(j) /\ Elements(l) = FileChain(i)
        /\ ReadAll(j) = Contents(m, Size(j)) /\ Size(j) \in Nat
    BY <1>1, <1>3, <2>1 DEF ReadsFiles
  <2>3. \A b \in Elements(m) : b \in used /\ b \notin Elements(l)
    BY <1>2, <1>4, <2>2 DEF BlocksOwned
  <2>4. \A k \in 1 .. Len(m) : next'[m[k]] = next[m[k]] /\ bytes'[m[k]] = bytes[m[k]]
    BY <2>3 DEF Elements
  <2>5. disk'[j] = disk[j] /\ opened'[j] = opened[j]
    BY <1>4
  <2>6. Size(j)' = Size(j)
    BY <2>5 DEF Size
  <2>7. Follows(next', disk'[j].first, m)
    <3>1. Follows(next, disk[j].first, m)
      BY <2>1 DEF IsFile, Holds
    <3>2. m # <<>> => Len(m) \in 1 .. Len(m)
      BY <2>2
    <3>3. \A k \in 1 .. Len(m) - 1 : k \in 1 .. Len(m)
      BY <2>2
    <3> QED BY <2>4, <2>5, <3>1, <3>2, <3>3 DEF Follows
  <2>8. Blank(m, Size(j))'
    BY <2>1, <2>4, <2>6 DEF IsFile, Blank, Offset, PosOf
  <2>9. IsFile(j, m, Size(j))'
    BY <2>1, <2>2, <2>5, <2>6, <2>7, <2>8 DEF IsFile, Holds
  <2>10. ReadAll(j)' = Contents(m, Size(j))'
    BY <1>3, <2>9 DEF ReadsFiles
  <2>11. Contents(m, Size(j))' = Contents(m, Size(j))
    <3>1. PICK n \in Nat : n = Size(j)
      BY <2>2
    <3>2. ASSUME NEW k \in 1 .. n PROVE BlocksFor(k - 1) \in 1 .. Len(m)
      <4>1. k - 1 \in Nat /\ k - 1 < n /\ n <= Len(m) * BlockSize /\ Len(m) \in Nat
        BY <2>1, <2>2, <3>1 DEF IsFile
      <4>2. k - 1 < Len(m) * BlockSize
        BY <4>1, PositionWithin
      <4>3. BlocksFor(k - 1) <= Len(m) /\ BlocksFor(k - 1) \in Nat \ {0}
        BY <4>1, <4>2, PositionWithin, PositionParts
      <4> QED BY <4>1, <4>3
    <3>3. \A k \in 1 .. n : bytes'[m[BlocksFor(k - 1)]] = bytes[m[BlocksFor(k - 1)]]
      BY <2>4, <3>2
    <3> QED BY <2>6, <3>1, <3>3 DEF Contents, BlocksFor
  <2> QED BY <2>2, <2>6, <2>9, <2>10, <2>11
<1>5. ReadAll(i)' = Contents(q, z)' /\ ReadAll(i) = Contents(l, Size(i))
  BY <1>1, <1>3 DEF ReadsFiles
<1>6. Size(i)' = z
  BY DEF IsFile
<1>7. FileInv'
  BY <1>4, <1>6 DEF FileInv
<1>8. FileContents' = [FileContents EXCEPT ![i] = Contents(q, z)']
  <2>1. FileContents' = [j \in Inode |-> ReadAll(j)']
    BY DEF FileContents, Inode
  <2> QED BY <1>4, <1>5, <2>1 DEF FileContents
<1> QED BY <1>5, <1>7, <1>8 DEF FileContents

-----------------------------------------------------------------------------
(* Calls that write no byte and free no block.                               *)

\* The list a call finds is the file.
LEMMA ListFound ==
  ASSUME RecordInv, NEW i \in Inode, NEW l, NEW z, IsFile(i, l, z),
         NEW m, m.list = opened[i].list, m.first = disk[i].first,
         NEW n \in Nat, n <= BlockCount \/ m.list # <<>>
  PROVE  ListFor(m, n) = {l}
<1>1. l \in Seq(Block) /\ Follows(next, disk[i].first, l) /\ opened[i].list \in {<<>>, l}
  BY DEF IsFile, Holds
<1>2. BlockTypeOK /\ disk[i].first \in Block \cup {NoBlock}
  BY DEF RecordInv, TypeOK, DiskInode
<1>3. CASE m.list = <<>> /\ m.first # NoBlock
  BY <1>1, <1>2, <1>3, LoadedChain DEF ListFor
<1>4. CASE m.list = <<>> /\ m.first = NoBlock
  <2>1. l = <<>>
    <3>1. l # <<>> => l[1] \in Block
      BY <1>1
    <3> QED BY <1>1, <1>4, <3>1 DEF Follows, Block, NoBlock
  <2> QED BY <1>4, <2>1 DEF ListFor
<1>5. CASE m.list # <<>>
  BY <1>1, <1>5 DEF ListFor
<1> QED BY <1>3, <1>4, <1>5

\* A call that changes no block, no chain and no size changes no contents.
LEMMA ContentsKept ==
  ASSUME FileInv, RecordInv', ChainInv', UNCHANGED <<used, next, bytes>>,
         \A i \in Inode :
            /\ disk'[i].first = disk[i].first /\ Size(i)' = Size(i)
            /\ \A l : IsFile(i, l, Size(i)) => opened'[i].list \in {<<>>, l}
  PROVE  FileInv' /\ FileContents' = FileContents
<1>1. RecordInv /\ \A j \in Inode : \E m : IsFile(j, m, Size(j))
  BY DEF FileInv
<1>2. ReadsFiles /\ ReadsFiles'
  BY ReadAllIsFile, PTL
<1>3. ASSUME NEW i \in Inode
      PROVE  (\E l : IsFile(i, l, Size(i))') /\ ReadAll(i)' = ReadAll(i)
  <2>1. PICK l : IsFile(i, l, Size(i))
    BY <1>1
  <2>2. ReadAll(i) = Contents(l, Size(i))
    BY <1>1, <1>2, <2>1 DEF ReadsFiles
  <2>3. opened'[i].list \in {<<>>, l} /\ Holds(i, l)' /\ Size(i)' = Size(i) /\ Blank(l, Size(i))'
    BY <2>1 DEF IsFile, Holds, Blank
  <2>4. IsFile(i, l, Size(i))'
    BY <2>1, <2>3 DEF IsFile
  <2>5. ReadAll(i)' = Contents(l, Size(i))'
    BY <1>2, <2>4 DEF ReadsFiles
  <2>6. Contents(l, Size(i))' = Contents(l, Size(i))
    BY <2>3 DEF Contents
  <2> QED BY <2>2, <2>4, <2>5, <2>6
<1>4. BytesTyped' /\ FreeBlank'
  BY DEF FileInv, BytesTyped, FreeBlank, Offset
<1>5. FileInv'
  BY <1>3, <1>4 DEF FileInv
<1>6. FileContents' = [i \in Inode |-> ReadAll(i)']
  BY DEF FileContents
<1> QED BY <1>3, <1>5, <1>6 DEF FileContents

\* Opening or creating a file changes no contents.
LEMMA OpenKeeps ==
  ASSUME FileInv, RecordInv', ChainInv', NEW h, NEW i \in Inode, NEW w,
         UNCHANGED <<used, next, bytes>>,
         opened' = [opened EXCEPT ![i] = WithOpener(i, disk[i], h, w)],
         disk' = disk \/ disk' = [disk EXCEPT ![i].used = TRUE]
  PROVE  FileInv' /\ FileContents' = FileContents
<1>1. RecordInv /\ TypeOK
  BY DEF FileInv, RecordInv
<1>2. ASSUME NEW j \in Inode
      PROVE  disk'[j].first = disk[j].first /\ disk'[j].size = disk[j].size
  <2>1. disk \in [Inode -> DiskInode] /\ disk[j] \in DiskInode
    BY <1>1 DEF TypeOK
  <2> QED BY <2>1 DEF DiskInode
<1>3. opened \in [Inode -> OpenInode] /\ opened'[i] = WithOpener(i, disk[i], h, w)
      /\ \A j \in Inode \ {i} : opened'[j] = opened[j]
  BY <1>1 DEF TypeOK
<1>4. ASSUME NEW j \in Inode
      PROVE  Size(j)' = Size(j) /\ opened'[j].list \in {<<>>, opened[j].list}
  <2>1. CASE j # i
    BY <1>2, <1>3, <2>1 DEF Size
  <2>2. CASE j = i /\ opened[i].count = 0
    <3>1. WithOpener(i, disk[i], h, w).count = 1 /\ WithOpener(i, disk[i], h, w).list = <<>>
          /\ WithOpener(i, disk[i], h, w).size = disk[i].size
      BY <2>2 DEF WithOpener
    <3> QED BY <1>3, <2>2, <3>1 DEF Size
  <2>3. CASE j = i /\ opened[i].count # 0
    <3>1. opened[i] \in OpenInode /\ opened[i].count \in Nat
      BY <1>1, OpenedType
    <3>2. opened'[i] = [opened[i] EXCEPT !.count = @ + 1, !.writer = IF w THEN h ELSE @]
      BY <1>3, <2>3 DEF WithOpener
    <3>3. PICK d : d = opened[i]
      OBVIOUS
    <3>4. PICK e : e = opened'[i]
      OBVIOUS
    <3>5. e = [d EXCEPT !.count = d.count + 1, !.writer = IF w THEN h ELSE d.writer]
      BY <3>2, <3>3, <3>4
    <3>6. d \in OpenInode
      BY <3>1, <3>3
    <3>7. e.count = d.count + 1 /\ e.list = d.list /\ e.size = d.size
      BY <3>5, <3>6 DEF OpenInode
    <3> QED BY <2>3, <3>1, <3>3, <3>4, <3>7 DEF Size
  <2> QED BY <2>1, <2>2, <2>3
<1>5. \A j \in Inode : \A l : IsFile(j, l, Size(j)) => opened[j].list \in {<<>>, l}
  BY DEF IsFile
<1> QED BY <1>2, <1>4, <1>5, ContentsKept

\* An entry with one device on it, which does not write, has no writer.
LEMMA LastReaderNoWriter ==
  ASSUME RecordInv, NEW h \in Handle, handle[h] # NoDev, NEW i, i = handle[h].inode,
         ~handle[h].rw, opened[i].count = 1
  PROVE  opened[i].writer = NoHandle
<1>1. i \in Inode /\ h \in Users(i) /\ OpenersCounted
  BY Holder DEF RecordInv
<1>2. Cardinality(Users(i)) = 1 /\ IsFiniteSet(Users(i))
  BY <1>1, UsersFinite DEF OpenersCounted
<1>3. Cardinality(Users(i) \ {h}) = 0 /\ IsFiniteSet(Users(i) \ {h})
  BY <1>1, <1>2, FS_RemoveElement
<1>4. Users(i) \ {h} = {}
  BY <1>3, FS_EmptySet
<1>5. {u \in Users(i) : handle[u].rw} = {}
  BY <1>4
<1> QED BY <1>1, <1>5 DEF OpenersCounted

\* Flushing and closing change no contents: the last device to go leaves the
\* size on disk, whether it wrote or not.
LEMMA CloseKeeps ==
  ASSUME FileInv, RecordInv', ChainInv', UNCHANGED bytes, NEW h \in Handle, FlushDev(h) \/ CloseDev(h)
  PROVE  FileInv' /\ FileContents' = FileContents
<1>0. PICK i : i = handle[h].inode
  OBVIOUS
<1>1. RecordInv /\ TypeOK
  BY DEF FileInv, RecordInv
<1>2. handle[h] # NoDev
  BY DEF FlushDev, CloseDev, NoDev
<1>3. i \in Inode /\ opened[i] \in OpenInode /\ opened[i].count \in Nat \ {0}
  BY <1>0, <1>1, <1>2, Holder, OpenedType
<1>4. Linkless
  BY <1>1, FlushLinkless
<1>5. used' = used /\ next' = next
  BY DEF FlushDev, CloseDev, blockVars
<1>6. disk' = Flushed(i, opened[i]) \/ (disk' = disk /\ ~handle[h].rw)
  BY <1>0 DEF FlushDev, CloseDev
<1>7. /\ \A j \in Inode \ {i} : disk'[j] = disk[j]
      /\ disk'[i].size = opened[i].size \/ (disk'[i].size = disk[i].size /\ ~handle[h].rw)
  <2>1. /\ \A j \in Inode \ {i} : Flushed(i, opened[i])[j] = disk[j]
        /\ Flushed(i, opened[i])[i]
             = [used |-> TRUE, first |-> opened[i].first, size |-> opened[i].size]
    BY <1>1, <1>3, FlushedType
  <2> QED BY <1>6, <2>1
<1>8. /\ \A j \in Inode \ {i} : opened'[j] = opened[j]
      /\ \/ opened'[i] = opened[i]
         \/ opened[i].count = 1 /\ opened'[i] = NotOpen /\ CloseDev(h)
         \/ /\ opened[i].count # 1
            /\ opened'[i] = [opened[i] EXCEPT !.count = @ - 1, !.writer = IF @ = h THEN NoHandle ELSE @]
  <2>1. opened \in [Inode -> OpenInode]
    BY <1>1 DEF TypeOK
  <2>2. CASE FlushDev(h)
    BY <2>2 DEF FlushDev
  <2>3. CASE CloseDev(h)
    BY <1>0, <1>3, <2>1, <2>3 DEF CloseDev
  <2> QED BY <2>2, <2>3
<1>9. Size(i)' = Size(i) /\ opened'[i].list \in {<<>>, opened[i].list}
  <2>1. CASE opened'[i] = opened[i]
    BY <1>3, <2>1 DEF Size
  <2>2. CASE opened[i].count = 1 /\ opened'[i] = NotOpen
    <3>1. disk'[i].size = opened[i].size
      <4>1. CASE disk'[i].size = disk[i].size /\ ~handle[h].rw
        <5>1. opened[i].writer = NoHandle
          BY <1>0, <1>1, <1>2, <2>2, <4>1, LastReaderNoWriter
        <5> QED BY <1>1, <1>3, <2>2, <4>1, <5>1 DEF RecordInv, RecordInSync
      <4> QED BY <1>7, <4>1
    <3>2. opened'[i].count = 0 /\ opened'[i].list = <<>>
      BY <2>2 DEF NotOpen
    <3> QED BY <2>2, <3>1, <3>2 DEF Size
  <2>3. CASE /\ opened[i].count # 1
             /\ opened'[i] = [opened[i] EXCEPT !.count = @ - 1, !.writer = IF @ = h THEN NoHandle ELSE @]
    <3>1. opened'[i].count = opened[i].count - 1 /\ opened'[i].list = opened[i].list
          /\ opened'[i].size = opened[i].size
      BY <1>3, <2>3 DEF OpenInode
    <3> QED BY <1>3, <2>3, <3>1 DEF Size
  <2> QED BY <1>8, <2>1, <2>2, <2>3
<1>10. \A j \in Inode : Size(j)' = Size(j) /\ opened'[j].list \in {<<>>, opened[j].list}
  <2>1. \A j \in Inode \ {i} : Size(j)' = Size(j)
    BY <1>7, <1>8 DEF Size
  <2> QED BY <1>8, <1>9, <2>1
<1>11. \A j \in Inode : \A l : IsFile(j, l, Size(j)) => opened[j].list \in {<<>>, l}
  BY DEF IsFile
<1> QED BY <1>4, <1>5, <1>10, <1>11, ContentsKept DEF Linkless

\* Reading loads the list of a file, which is the file, and changes no contents.
LEMMA ReadKeeps ==
  ASSUME FileInv, RecordInv', ChainInv', UNCHANGED bytes, NEW h \in Handle, NEW pos \in Pos, ReadDev(h, pos)
  PROVE  FileInv' /\ FileContents' = FileContents
<1>0. PICK i : i = handle[h].inode
  OBVIOUS
<1>1. RecordInv /\ TypeOK
  BY DEF FileInv, RecordInv
<1>2. i \in Inode /\ opened[i] \in OpenInode /\ disk[i].first = opened[i].first
  BY <1>0, <1>1, Holder, OpenedType DEF ReadDev
<1>3. PICK l \in ListFor(opened[i], 1) : opened' = [opened EXCEPT ![i].list = l]
  BY <1>0 DEF ReadDev
<1>4. used' = used /\ next' = next /\ disk' = disk
  BY DEF ReadDev, blockVars
<1>5. PICK r : r = [opened[i] EXCEPT !.list = l]
  OBVIOUS
<1>6. r.count = opened[i].count /\ r.size = opened[i].size /\ r.list = l
  BY <1>2, <1>5 DEF OpenInode
<1>7. opened'[i] = r /\ \A j \in Inode \ {i} : opened'[j] = opened[j]
  BY <1>1, <1>2, <1>3, <1>5 DEF TypeOK
<1>8. \A j \in Inode : Size(j)' = Size(j)
  BY <1>4, <1>6, <1>7 DEF Size
<1>9. ASSUME NEW j \in Inode, NEW q, IsFile(j, q, Size(j))
      PROVE  opened'[j].list \in {<<>>, q}
  <2>1. CASE j = i
    <3>1. ListFor(opened[i], 1) = {q}
      BY <1>1, <1>2, <1>9, <2>1, ListFound, BlockCountAssumption
    <3> QED BY <1>3, <1>6, <1>7, <2>1, <3>1
  <2>2. CASE j # i
    BY <1>7, <1>9, <2>2 DEF IsFile
  <2> QED BY <2>1, <2>2
<1> QED BY <1>4, <1>8, <1>9, ContentsKept

-----------------------------------------------------------------------------
(* Calls that empty a file.                                                  *)

\* A file without blocks is empty.
LEMMA EmptyFile ==
  ASSUME NEW first, first = NoBlock, NEW nx, NEW list, list = <<>>, NEW n, n = 0
  PROVE  /\ Follows(nx, first, <<>>) /\ list \in {<<>>, <<>>}
         /\ n <= Len(<<>>) * BlockSize /\ Blank(<<>>, n) /\ Contents(<<>>, n) = <<>>
<1>1. Len(<<>>) = 0 /\ 0 * BlockSize = 0 /\ 1 .. 0 = {}
  BY NodeDevAssumption
<1>2. Follows(nx, first, <<>>)
  BY <1>1 DEF Follows
<1>3. Blank(<<>>, n)
  BY <1>1 DEF Blank
<1>4. Contents(<<>>, n) = <<>>
  BY DEF Contents
<1> QED BY <1>1, <1>2, <1>3, <1>4

\* Its form for the state after a call.
Emptied(i) == disk[i].first = NoBlock /\ opened[i].list = <<>> /\ Size(i) = 0

EmptiedIsEmpty == \A i : Emptied(i) => IsFile(i, <<>>, 0) /\ Contents(<<>>, 0) = <<>>

LEMMA EmptiedFile == EmptiedIsEmpty
<1> SUFFICES ASSUME NEW i, Emptied(i) PROVE IsFile(i, <<>>, 0) /\ Contents(<<>>, 0) = <<>>
  BY DEF EmptiedIsEmpty
<1>1. disk[i].first = NoBlock /\ opened[i].list = <<>> /\ Size(i) = 0
  BY DEF Emptied
<1>2. /\ Follows(next, disk[i].first, <<>>) /\ opened[i].list \in {<<>>, <<>>}
      /\ 0 <= Len(<<>>) * BlockSize /\ Blank(<<>>, 0) /\ Contents(<<>>, 0) = <<>>
  BY <1>1, EmptyFile
<1> QED BY <1>1, <1>2 DEF IsFile, Holds

\* Truncating to zero empties the file.
LEMMA ZeroEmpties ==
  ASSUME FileInv, RecordInv', ChainInv', UNCHANGED bytes, NEW h \in Handle, TruncateToZero(h),
         NEW i, i = handle[h].inode
  PROVE  /\ FileInv' /\ FileContents' = [FileContents EXCEPT ![i] = <<>>]
         /\ i \in Inode /\ disk[i].used /\ \A j \in Inode : disk'[j].used <=> disk[j].used
<1>1. RecordInv /\ TypeOK
  BY DEF FileInv, RecordInv
<1>2. handle[h] # NoDev
  BY DEF TruncateToZero, NoDev
<1>3. i \in Inode /\ opened[i] \in OpenInode /\ opened[i].count \in Nat \ {0} /\ disk[i].used
  BY <1>1, <1>2, Holder, OpenedType
<1>4. PICK m : m = [opened[i] EXCEPT !.list = <<>>, !.first = NoBlock, !.size = 0]
  OBVIOUS
<1>5. m \in OpenInode /\ m.list = <<>> /\ m.first = NoBlock /\ m.size = 0 /\ m.count = opened[i].count
  <2>1. 0 \in Pos
    BY NodeDevAssumption DEF Pos
  <2>2. <<>> \in Seq(Block)
    OBVIOUS
  <2> QED BY <1>3, <1>4, <2>1, <2>2 DEF OpenInode
<1>6. used' = used /\ next' = next /\ opened' = [opened EXCEPT ![i] = m] /\ disk' = Flushed(i, m)
  BY <1>4 DEF TruncateToZero, blockVars
<1>7. opened'[i] = m /\ \A j \in Inode \ {i} : opened'[j] = opened[j]
  BY <1>1, <1>3, <1>6 DEF TypeOK
<1>8. /\ \A j \in Inode \ {i} : disk'[j] = disk[j]
      /\ disk'[i] = [used |-> TRUE, first |-> NoBlock, size |-> 0]
  BY <1>1, <1>3, <1>5, <1>6, FlushedType
<1>9. Emptied(i)'
  BY <1>3, <1>5, <1>7, <1>8 DEF Emptied, Size
<1>10. EmptiedIsEmpty'
  BY EmptiedFile, PTL
<1>11. IsFile(i, <<>>, 0)' /\ Contents(<<>>, 0)' = <<>>
  BY <1>9, <1>10 DEF EmptiedIsEmpty
<1>12. PICK l : IsFile(i, l, Size(i))
  BY <1>3 DEF FileInv
<1>13. BytesTyped' /\ FreeBlank'
  BY <1>6 DEF FileInv, BytesTyped, FreeBlank, Offset
<1>14. \A b \in used : b \notin Elements(l) => next'[b] = next[b] /\ bytes'[b] = bytes[b]
  BY <1>6
<1>15. \A j \in Inode \ {i} : disk'[j] = disk[j] /\ opened'[j] = opened[j]
  BY <1>7, <1>8
<1>16. FileInv' /\ FileContents' = [FileContents EXCEPT ![i] = Contents(<<>>, 0)']
  BY <1>3, <1>11, <1>12, <1>13, <1>14, <1>15, OneFileChanged
<1>17. \A j \in Inode : disk'[j].used <=> disk[j].used
  <2>1. disk'[i].used = disk[i].used
    BY <1>3, <1>8
  <2> QED BY <1>8, <2>1
<1> QED BY <1>3, <1>11, <1>16, <1>17

\* The bytes the zeroing of blocks leaves.
LEMMA ZeroedBytes ==
  ASSUME BytesTyped, NEW W, NEW b, NEW from, bytes' = Zeroed(W, b, from)
  PROVE  /\ BytesTyped'
         /\ \A c \in Block, o \in Offset :
              bytes'[c][o] = IF c \in W \/ (c = b /\ o >= from) THEN 0 ELSE bytes[c][o]
         /\ \A c \in Block : c \notin W /\ c # b => bytes'[c] = bytes[c]
<1>1. \A c \in Block : bytes[c] \in [Offset -> Nat]
  BY DEF BytesTyped
<1>2. bytes' = [c \in Block |-> [o \in Offset |->
                  IF c \in W \/ (c = b /\ o >= from) THEN 0 ELSE bytes[c][o]]]
  BY DEF Zeroed
<1>3. \A c \in Block, o \in Offset :
        bytes'[c][o] = IF c \in W \/ (c = b /\ o >= from) THEN 0 ELSE bytes[c][o]
  BY <1>2
<1>4. bytes' \in [Block -> [Offset -> Nat]]
  <2>1. \A c \in Block : \A o \in Offset :
          (IF c \in W \/ (c = b /\ o >= from) THEN 0 ELSE bytes[c][o]) \in Nat
    BY <1>1
  <2> QED BY <1>2, <2>1
<1>5. ASSUME NEW c \in Block, c \notin W, c # b PROVE bytes'[c] = bytes[c]
  <2>1. bytes'[c] = [o \in Offset |-> bytes[c][o]]
    BY <1>2, <1>5
  <2> QED BY <1>1, <2>1
<1> QED BY <1>3, <1>4, <1>5 DEF BytesTyped, Offset

\* Unlinking a file empties it, and leaves zeroes in the blocks it frees.
LEMMA UnlinkEmpties ==
  ASSUME FileInv, RecordInv', ChainInv', NEW i \in Inode, FileUnlink(i)
  PROVE  /\ FileInv' /\ FileContents' = [FileContents EXCEPT ![i] = <<>>]
         /\ disk[i].used /\ ~disk'[i].used /\ \A j \in Inode \ {i} : disk'[j] = disk[j]
<1>1. RecordInv /\ TypeOK /\ ChainInv /\ BytesTyped /\ FreeBlank
  BY DEF FileInv, RecordInv
<1>2. PICK W : W = Reach(next, disk[i].first)
  OBVIOUS
<1>3. /\ disk[i].used /\ opened[i].count = 0
      /\ used' = used \ W
      /\ next' = [b \in Block |-> IF b \in W THEN NoBlock ELSE next[b]]
      /\ disk' = [disk EXCEPT ![i] = [used |-> FALSE, first |-> NoBlock, size |-> 0]]
      /\ opened' = opened
      /\ bytes' = Zeroed(used \ used', NoBlock, 0)
  BY <1>2 DEF FileUnlink, Unlink, Wipe
<1>4. PICK l : IsFile(i, l, Size(i))
  BY DEF FileInv
<1>5. Elements(l) = W
  <2>1. ReadsFiles
    BY ReadAllIsFile
  <2> QED BY <1>1, <1>2, <1>4, <2>1 DEF ReadsFiles, FileChain
<1>6. W \subseteq used /\ used \subseteq Block
  BY <1>1, <1>2, OwnedBlocks DEF BlocksOwned, FileChain, TypeOK, BlockTypeOK
<1>7. used \ used' = W
  BY <1>3, <1>6
<1>8. /\ BytesTyped'
      /\ \A c \in Block, o \in Offset :
              bytes'[c][o] = IF c \in W \/ (c = NoBlock /\ o >= 0) THEN 0 ELSE bytes[c][o]
      /\ \A c \in Block : c \notin W /\ c # NoBlock => bytes'[c] = bytes[c]
  <2>1. bytes' = Zeroed(W, NoBlock, 0)
    BY <1>3, <1>7
  <2> QED BY <1>1, <2>1, ZeroedBytes
<1>9. FreeBlank'
  <2>1. \A c \in Block : c # NoBlock
    BY DEF Block, NoBlock
  <2>2. \A c \in Block \ used' : c \in W \/ c \in Block \ used
    BY <1>3
  <2>3. \A c \in Block \ used' : \A o \in Offset : bytes'[c][o] = 0
    BY <1>1, <1>8, <2>1, <2>2 DEF FreeBlank
  <2> QED BY <2>3 DEF FreeBlank, Offset
<1>10. \A b \in used : b \notin Elements(l) => next'[b] = next[b] /\ bytes'[b] = bytes[b]
  <2>1. \A c \in Block : c # NoBlock
    BY DEF Block, NoBlock
  <2> QED BY <1>3, <1>5, <1>6, <1>8, <2>1
<1>11. /\ \A j \in Inode \ {i} : disk'[j] = disk[j]
       /\ disk'[i] = [used |-> FALSE, first |-> NoBlock, size |-> 0]
  BY <1>1, <1>3 DEF TypeOK
<1>12. Emptied(i)'
  <2>1. opened[i].list = <<>>
    BY <1>1, <1>3, UnopenedList
  <2> QED BY <1>3, <1>11, <2>1 DEF Emptied, Size
<1>13. EmptiedIsEmpty'
  BY EmptiedFile, PTL
<1>14. IsFile(i, <<>>, 0)' /\ Contents(<<>>, 0)' = <<>>
  BY <1>12, <1>13 DEF EmptiedIsEmpty
<1>15. \A j \in Inode \ {i} : disk'[j] = disk[j] /\ opened'[j] = opened[j]
  BY <1>3, <1>11
<1>16. FileInv' /\ FileContents' = [FileContents EXCEPT ![i] = Contents(<<>>, 0)']
  BY <1>4, <1>8, <1>9, <1>10, <1>14, <1>15, OneFileChanged
<1>17. FileContents' = [FileContents EXCEPT ![i] = <<>>]
  BY <1>14, <1>16
<1>18. ~disk'[i].used
  BY <1>11
<1> QED BY <1>3, <1>11, <1>16, <1>17, <1>18

-----------------------------------------------------------------------------
(* Calls that give a file more blocks.                                       *)

\* File i, the blocks l, becomes the blocks e: l and then blocks that were free.
GrownBy(i, l, e) ==
    /\ Holds(i, e)'
    /\ Len(l) <= Len(e)
    /\ \A k \in 1 .. Len(l) : e[k] = l[k]
    /\ \A k \in Len(l) + 1 .. Len(e) : e[k] \notin used
    /\ \A j, k \in 1 .. Len(e) : e[j] = e[k] => j = k
    /\ used \subseteq used' /\ used' \subseteq used \cup Elements(e)
    /\ \A b \in used : b \notin Elements(l) => next'[b] = next[b]

\* The list of a file is not severed, so what the allocator hands out is
\* appended to it, all of it.
LEMMA GrownChain ==
  ASSUME RecordInv, ChainInv, RecordInv', ChainInv', NEW i \in Inode, NEW l, NEW z, IsFile(i, l, z),
         NEW n \in Nat, NEW s \in NewBlocks(l, n), MarkUsed(s), next' = Linked(l, s),
         NEW e, e = Extended(l, s), opened'[i].list = e,
         disk'[i].first = IF disk[i].first = NoBlock /\ e # <<>> THEN e[1] ELSE disk[i].first
  PROVE  GrownBy(i, l, e)
<1>1. PICK own \in Owner : Owned(own)
  BY DEF ChainInv
<1>2. PICK p : Owned(p)'
  BY DEF ChainInv
<1>3. l \in Seq(Block) /\ Follows(next, disk[i].first, l)
  BY DEF IsFile, Holds
<1>4. Elements(l) = FileChain(i)
  <2>1. ReadsFiles
    BY ReadAllIsFile
  <2> QED BY <2>1 DEF ReadsFiles
<1>5. Elements(l) \subseteq used
  BY <1>4, OwnedBlocks DEF BlocksOwned
<1>6. \A k \in 1 .. Len(l) : l[k] \in used
  BY <1>5 DEF Elements
<1>7. ~Severed(l) /\ e = l \o s
  BY <1>3 DEF Follows, Severed, Extended
<1>8. s \in Seq(Block)
  BY <1>3, NewBlocksTaken, TakenProperties DEF RecordInv, TypeOK
<1>9. e \in Seq(Block) /\ Len(e) = Len(l) + Len(s) /\ Elements(e) = Elements(l) \cup Elements(s)
  BY <1>3, <1>7, <1>8, ConcatElements
<1>10. Grown(l, s, e)
  <2>1. TypeOK /\ Links
    BY <1>1 DEF RecordInv, Owned
  <2> QED BY <1>3, <1>6, <2>1, GrowthFacts
<1>11. Mirrors(p, i, e)'
  BY <1>2 DEF Owned, Lists
<1>12. \A j, k \in 1 .. Len(e) : e[j] = e[k] => j = k
  BY <1>11 DEF Mirrors
<1>13. /\ Len(l) <= Len(e)
       /\ \A k \in 1 .. Len(l) : e[k] = l[k]
       /\ \A k \in Len(l) + 1 .. Len(e) : e[k] \notin used
       /\ \A b \in Block : (\A k \in Joints(l, e) : e[k] # b) => next'[b] = next[b]
  BY <1>10 DEF Grown
<1>14. used' = used \cup Elements(s)
  <2>1. DOMAIN s = 1 .. Len(s)
    BY <1>8
  <2> QED BY <2>1 DEF MarkUsed, Elements
<1>15. \A b \in used : b \notin Elements(l) => next'[b] = next[b]
  <2> SUFFICES ASSUME NEW b \in used, b \notin Elements(l) PROVE next'[b] = next[b]
    OBVIOUS
  <2>1. b \in Block
    BY DEF RecordInv, TypeOK, BlockTypeOK
  <2>2. ASSUME NEW k \in Joints(l, e), e[k] = b PROVE FALSE
    <3>1. k \in 1 .. Len(e) - 1 /\ k >= Len(l) /\ Len(l) \in Nat /\ Len(e) \in Nat
      BY <1>3, <1>9 DEF Joints
    <3>2. CASE k = Len(l)
      <4>1. k \in 1 .. Len(l) /\ l[k] = b
        BY <1>13, <2>2, <3>1, <3>2
      <4> QED BY <4>1 DEF Elements
    <3>3. CASE k # Len(l)
      <4>1. k \in Len(l) + 1 .. Len(e)
        BY <3>1, <3>3
      <4> QED BY <1>13, <2>2, <4>1
    <3> QED BY <3>2, <3>3
  <2> QED BY <1>13, <2>1, <2>2
<1>16. Follows(next', disk'[i].first, e)
  <2>1. ASSUME e # <<>> PROVE next'[e[Len(e)]] = NoBlock
    <3>1. Len(e) \in 1 .. Len(e) /\ e[Len(e)] \in Block /\ Len(l) \in Nat
      BY <1>3, <1>9, <2>1
    <3>2. \A k \in Joints(l, e) : e[k] # e[Len(e)]
      <4>1. \A k \in Joints(l, e) : k \in 1 .. Len(e) /\ k # Len(e)
        BY <3>1 DEF Joints
      <4> QED BY <1>12, <3>1, <4>1
    <3>3. next'[e[Len(e)]] = next[e[Len(e)]]
      BY <1>13, <3>1, <3>2
    <3>4. CASE Len(e) = Len(l)
      <4>1. l # <<>> /\ e[Len(e)] = l[Len(l)]
        BY <1>3, <1>13, <2>1, <3>1, <3>4
      <4> QED BY <1>3, <3>3, <4>1 DEF Follows
    <3>5. CASE Len(e) # Len(l)
      <4>1. Len(e) \in Len(l) + 1 .. Len(e)
        BY <1>13, <3>1, <3>5
      <4>2. e[Len(e)] \notin used
        BY <1>13, <4>1
      <4> QED BY <1>1, <3>1, <3>3, <4>2 DEF Owned, Links
    <3> QED BY <3>4, <3>5
  <2>2. ASSUME e = <<>> PROVE disk'[i].first = NoBlock
    <3>1. l = <<>>
      BY <1>3, <1>13, <2>2
    <3> QED BY <1>3, <2>2, <3>1 DEF Follows
  <2> QED BY <1>11, <2>1, <2>2 DEF Mirrors, Follows
<1> QED BY <1>9, <1>12, <1>13, <1>14, <1>15, <1>16 DEF GrownBy, Holds

\* The blocks a file gains hold zeroes.
LEMMA GrownBlank ==
  ASSUME FileInv, NEW i \in Inode, NEW l, NEW z, IsFile(i, l, z), NEW e, GrownBy(i, l, e)
  PROVE  /\ e \in Seq(Block) /\ Len(l) \in Nat /\ Len(e) \in Nat /\ z \in Nat
         /\ z <= Len(e) * BlockSize
         /\ Blank(e, z)
         /\ Contents(e, z) = Contents(l, z)
<1>1. l \in Seq(Block) /\ Len(l) \in Nat /\ z <= Len(l) * BlockSize /\ Blank(l, z)
  BY DEF IsFile, Holds
<1>2. e \in Seq(Block) /\ Len(e) \in Nat
  BY DEF GrownBy, Holds, Block
<1>3. z \in Nat
  BY SizeType DEF IsFile, FileInv, RecordInv
<1>4. Len(l) * BlockSize \in Nat /\ Len(l) * BlockSize <= Len(e) * BlockSize /\ Len(e) * BlockSize \in Nat
  <2>1. Len(l) <= Len(e)
    BY DEF GrownBy
  <2>2. PICK x \in Nat : x = Len(l)
    BY <1>1
  <2>3. PICK y \in Nat : y = Len(e)
    BY <1>2
  <2>4. x * BlockSize <= y * BlockSize /\ x * BlockSize \in Nat /\ y * BlockSize \in Nat
    BY <2>1, <2>2, <2>3, NodeDevAssumption
  <2> QED BY <2>2, <2>3, <2>4
<1>5. z <= Len(e) * BlockSize
  BY <1>1, <1>3, <1>4
<1>6. Blank(e, z)
  <2> SUFFICES ASSUME NEW k \in 1 .. Len(e), NEW o \in Offset, PosOf(k, o) >= z
               PROVE  bytes[e[k]][o] = 0
    BY DEF Blank
  <2>1. CASE k \in 1 .. Len(l)
    BY <1>1, <2>1 DEF Blank, GrownBy
  <2>2. CASE k \notin 1 .. Len(l)
    <3>1. k \in Len(l) + 1 .. Len(e)
      BY <1>1, <1>2, <2>2
    <3>2. e[k] \in Block \ used
      BY <1>2, <3>1 DEF GrownBy
    <3> QED BY <3>2 DEF FileInv, FreeBlank
  <2> QED BY <2>1, <2>2
<1>7. Contents(e, z) = Contents(l, z)
  <2>1. ASSUME NEW k \in 1 .. z PROVE e[BlocksFor(k - 1)] = l[BlocksFor(k - 1)]
    <3>1. k - 1 \in Nat /\ k - 1 < z
      BY <1>3
    <3>2. k - 1 < Len(l) * BlockSize
      BY <1>1, <1>3, <1>4, <3>1
    <3>3. BlocksFor(k - 1) \in Nat \ {0} /\ BlocksFor(k - 1) <= Len(l)
      BY <1>1, <3>1, <3>2, PositionParts, PositionWithin
    <3>4. BlocksFor(k - 1) \in 1 .. Len(l)
      BY <1>1, <3>3
    <3> QED BY <3>4 DEF GrownBy
  <2> QED BY <2>1 DEF Contents
<1> QED BY <1>1, <1>2, <1>3, <1>5, <1>6, <1>7

\* More of blank blocks is the file filled with zeroes.
LEMMA ResizedUp ==
  ASSUME NEW e \in Seq(Block), NEW z \in Nat, NEW n \in Nat, z <= n, n <= Len(e) * BlockSize, Blank(e, z)
  PROVE  Contents(e, n) = F!Resized(Contents(e, z), n)
<1>1. Len(Contents(e, z)) = z /\ \A k \in 1 .. z : Contents(e, z)[k] = bytes[e[BlocksFor(k - 1)]][(k - 1) % BlockSize]
  BY DEF Contents
<1>2. ASSUME NEW k \in 1 .. n, ~(k <= z)
      PROVE  bytes[e[BlocksFor(k - 1)]][(k - 1) % BlockSize] = 0
  <2>1. k - 1 \in Nat /\ k - 1 >= z /\ k - 1 < n
    BY <1>2
  <2>2. PICK x \in Nat \ {0} : x = BlocksFor(k - 1)
    BY <2>1, PositionParts
  <2>3. PICK o \in Offset : o = (k - 1) % BlockSize
    BY <2>1, PositionParts
  <2>4. PosOf(x, o) = k - 1
    BY <2>1, <2>2, <2>3, PositionParts
  <2>5. Len(e) \in Nat /\ Len(e) * BlockSize \in Nat
    BY NodeDevAssumption
  <2>6. k - 1 < Len(e) * BlockSize
    BY <2>1, <2>5
  <2>7. x \in 1 .. Len(e)
    BY <2>1, <2>2, <2>5, <2>6, PositionWithin
  <2> QED BY <2>1, <2>2, <2>3, <2>4, <2>7 DEF Blank
<1>3. F!Resized(Contents(e, z), n) = [k \in 1 .. n |-> IF k <= z THEN Contents(e, z)[k] ELSE 0]
  BY <1>1 DEF F!Resized
<1>4. \A k \in 1 .. n : k <= z => k \in 1 .. z
  OBVIOUS
<1>5. \A k \in 1 .. n : (IF k <= z THEN Contents(e, z)[k] ELSE 0) = bytes[e[BlocksFor(k - 1)]][(k - 1) % BlockSize]
  BY <1>1, <1>2, <1>4
<1> QED BY <1>3, <1>5 DEF Contents

\* What a resizing call leaves of the other files, and of the flags of all.
Resizes(i, len) ==
    /\ FileInv'
    /\ FileContents' = [FileContents EXCEPT ![i] = F!Resized(@, len)]
    /\ i \in Inode /\ disk[i].used /\ \A j \in Inode : disk'[j].used <=> disk[j].used

\* The parts of a truncation that may grow the list: the list l it finds, the
\* blocks s it takes and the list e that makes.
ResizeParts(h, i, len, n, l, s, e, q) ==
    /\ i \in Inode /\ n = BlocksFor(len - 1) /\ n \in Nat \ {0}
    /\ opened[i].count \in Nat \ {0} /\ disk[i].first = opened[i].first /\ disk[i].used
    /\ l \in (IF opened[i].list = <<>> /\ disk[i].first # NoBlock /\ n <= BlockCount
              THEN ChainLists(disk[i].first) ELSE {opened[i].list})
    /\ l \in Seq(Block) /\ s \in NewBlocks(l, n) /\ e = Extended(l, s)
    /\ MarkUsed(s) /\ next' = Linked(l, s)
    /\ \A j \in Inode \ {i} : disk'[j] = disk[j] /\ opened'[j] = opened[j]
    /\ disk'[i].used /\ disk'[i].first = IF disk[i].first = NoBlock /\ e # <<>> THEN e[1] ELSE disk[i].first
    /\ opened'[i].count = opened[i].count /\ opened'[i].size = len
    /\ opened'[i].list = q

LEMMA UpHasParts ==
  ASSUME RecordInv, NEW h \in Handle, NEW len \in Pos, NEW i, i = handle[h].inode,
         TruncateUp(h, len) \/ TruncateInLastBlock(h, len)
  PROVE  \E n, l, s, e :
            \/ /\ ResizeParts(h, i, len, n, l, s, e, e)
               /\ TruncateUp(h, len) \/ ~(n <= Len(e))
            \/ /\ ResizeParts(h, i, len, n, l, s, e, <<e[1]>>)
               /\ n <= Len(e) /\ TruncateInLastBlock(h, len) /\ Linked(l, s)[e[n]] = NoBlock
<1> DEFINE m == [opened[i] EXCEPT !.size = len]
           n == BlocksFor(len - 1)
           Effect(l, s, a) ==
             /\ MarkUsed(s)
             /\ next' = Linked(l, s)
             /\ \/ /\ opened' = [opened EXCEPT ![i] = a]
                   /\ TruncateUp(h, len) \/ ~(n <= Len(a.list))
                \/ /\ opened' = [opened EXCEPT ![i] = [a EXCEPT !.list = <<a.list[1]>>]]
                   /\ n <= Len(a.list) /\ Linked(l, s)[a.list[n]] = NoBlock
                   /\ TruncateInLastBlock(h, len)
             /\ disk' = Flushed(i, a)
<1>1. handle[h] # NoDev
  <2>1. handle[h].rw
    BY DEF TruncateUp, TruncateInLastBlock
  <2> HIDE DEF m, n, Effect
  <2> QED BY <2>1 DEF NoDev
<1>2. PICK l \in ListFor(m, n) : \E s \in NewBlocks(l, n) : Effect(l, s, Attached(m, l, s))
  <2>1. CASE TruncateUp(h, len)
    BY <2>1 DEF TruncateUp
  <2>2. CASE TruncateInLastBlock(h, len)
    BY <2>2 DEF TruncateInLastBlock
  <2> QED BY <2>1, <2>2
<1>3. PICK s \in NewBlocks(l, n) : Effect(l, s, Attached(m, l, s))
  BY <1>2
<1>4. /\ i \in Inode /\ opened[i] \in OpenInode
      /\ opened[i].count \in Nat \ {0} /\ disk[i].first = opened[i].first /\ disk[i].used
      /\ len > opened[i].size \/ len \in 1 .. opened[i].size - 1
  <2>1. i \in Inode /\ opened[i] \in OpenInode
        /\ opened[i].count \in Nat \ {0} /\ disk[i].first = opened[i].first /\ disk[i].used
    BY <1>1, Holder, OpenedType DEF RecordInv
  <2>2. len > opened[i].size \/ len \in 1 .. opened[i].size - 1
    BY DEF TruncateUp, TruncateInLastBlock
  <2> QED BY <2>1, <2>2
<1>5. n \in Nat \ {0}
  BY <1>4, BlocksKeptType DEF RecordInv
<1>6. /\ m \in OpenInode /\ m.count = opened[i].count /\ m.size = len
      /\ m.list = opened[i].list /\ m.first = opened[i].first
  BY <1>4 DEF OpenInode
<1> HIDE DEF m, n
<1>7. l \in Seq(Block)
  BY <1>5, <1>6, ListForType DEF RecordInv
<1> DEFINE a == Attached(m, l, s)
<1>8. PICK e : e = Extended(l, s)
  OBVIOUS
<1>9. a \in OpenInode /\ a.count = m.count /\ a.size = m.size /\ a.list = e
  BY <1>5, <1>6, <1>7, <1>8, GrownType DEF RecordInv
<1>10. a.first = IF m.first = NoBlock /\ e # <<>> THEN e[1] ELSE m.first
  <2>1. a = [m EXCEPT !.list = e, !.first = IF @ = NoBlock /\ e # <<>> THEN e[1] ELSE @]
    BY <1>8 DEF Attached
  <2> HIDE DEF a
  <2> QED BY <1>6, <2>1 DEF OpenInode
<1>11. /\ MarkUsed(s) /\ next' = Linked(l, s) /\ disk' = Flushed(i, a)
       /\ \/ /\ opened' = [opened EXCEPT ![i] = a]
             /\ TruncateUp(h, len) \/ ~(n <= Len(a.list))
          \/ /\ opened' = [opened EXCEPT ![i] = [a EXCEPT !.list = <<a.list[1]>>]]
             /\ n <= Len(a.list) /\ Linked(l, s)[a.list[n]] = NoBlock
             /\ TruncateInLastBlock(h, len)
  BY <1>3
<1> HIDE DEF a
<1>12. /\ \A j \in Inode \ {i} : disk'[j] = disk[j]
       /\ disk'[i].used /\ disk'[i].first = a.first
  <2>1. /\ \A j \in Inode \ {i} : Flushed(i, a)[j] = disk[j]
        /\ Flushed(i, a)[i] = [used |-> TRUE, first |-> a.first, size |-> a.size]
    BY <1>4, <1>9, FlushedType DEF RecordInv
  <2> QED BY <1>11, <2>1
<1>13. l \in (IF opened[i].list = <<>> /\ disk[i].first # NoBlock /\ n <= BlockCount
              THEN ChainLists(disk[i].first) ELSE {opened[i].list})
  BY <1>4, <1>6 DEF ListFor
<1>14. n = BlocksFor(len - 1)
  BY DEF n
<1>15. opened \in [Inode -> OpenInode]
  BY DEF RecordInv, TypeOK
<1>16. CASE opened' = [opened EXCEPT ![i] = a] /\ (TruncateUp(h, len) \/ ~(n <= Len(a.list)))
  <2>1. opened'[i] = a /\ \A j \in Inode \ {i} : opened'[j] = opened[j]
    BY <1>4, <1>15, <1>16
  <2>2. ResizeParts(h, i, len, n, l, s, e, e)
    BY <1>4, <1>5, <1>6, <1>7, <1>8, <1>9, <1>10, <1>11, <1>12, <1>13, <1>14, <2>1 DEF ResizeParts
  <2>3. TruncateUp(h, len) \/ ~(n <= Len(e))
    BY <1>9, <1>16
  <2> QED BY <2>2, <2>3
<1>17. CASE /\ opened' = [opened EXCEPT ![i] = [a EXCEPT !.list = <<a.list[1]>>]]
            /\ n <= Len(a.list) /\ Linked(l, s)[a.list[n]] = NoBlock
            /\ TruncateInLastBlock(h, len)
  <2>1. PICK r : r = [a EXCEPT !.list = <<a.list[1]>>]
    OBVIOUS
  <2>2. r.count = a.count /\ r.size = a.size /\ r.list = <<e[1]>>
    BY <1>9, <2>1 DEF OpenInode
  <2>3. opened'[i] = r /\ \A j \in Inode \ {i} : opened'[j] = opened[j]
    BY <1>4, <1>15, <1>17, <2>1
  <2>4. ResizeParts(h, i, len, n, l, s, e, <<e[1]>>)
    BY <1>4, <1>5, <1>6, <1>7, <1>8, <1>9, <1>10, <1>11, <1>12, <1>13, <1>14, <2>2, <2>3 DEF ResizeParts
  <2>5. n <= Len(e) /\ Linked(l, s)[e[n]] = NoBlock
    BY <1>9, <1>17
  <2> QED BY <1>17, <2>4, <2>5
<1> QED BY <1>11, <1>16, <1>17

\* Truncating up fills the file with zeroes, when its blocks can be had: they
\* were free, and nothing was left behind the old size.
LEMMA UpResizes ==
  ASSUME FileInv, RecordInv', ChainInv', UNCHANGED bytes, NEW h \in Handle, NEW len \in Pos,
         TruncateUp(h, len), Careful(h, len), NEW i, i = handle[h].inode
  PROVE  Resizes(i, len)
<1>1. RecordInv /\ ChainInv /\ BytesTyped /\ FreeBlank
  BY DEF FileInv
<1>2. len > opened[i].size
  BY DEF TruncateUp
<1>3. PICK n, l, s, e : ResizeParts(h, i, len, n, l, s, e, e)
  <2>1. ASSUME TruncateInLastBlock(h, len) PROVE FALSE
    <3>1. len \in 1 .. opened[i].size - 1 /\ handle[h].rw
      BY <2>1 DEF TruncateInLastBlock
    <3>2. i \in Inode /\ opened[i].size \in Nat
      <4>1. i \in Inode
        BY <1>1, <3>1, Holder DEF NoDev
      <4> QED BY <1>1, <4>1, OpenedType, NodeDevAssumption DEF RecordInv, Pos
    <3> QED BY <1>2, <3>1, <3>2
  <2> QED BY <1>1, <2>1, UpHasParts
<1>4. /\ i \in Inode /\ n = BlocksFor(len - 1) /\ n \in Nat \ {0}
      /\ opened[i].count \in Nat \ {0} /\ disk[i].first = opened[i].first /\ disk[i].used
      /\ l \in (IF opened[i].list = <<>> /\ disk[i].first # NoBlock /\ n <= BlockCount
                THEN ChainLists(disk[i].first) ELSE {opened[i].list})
      /\ l \in Seq(Block) /\ s \in NewBlocks(l, n) /\ e = Extended(l, s)
      /\ MarkUsed(s) /\ next' = Linked(l, s)
      /\ \A j \in Inode \ {i} : disk'[j] = disk[j] /\ opened'[j] = opened[j]
      /\ disk'[i].used
      /\ disk'[i].first = IF disk[i].first = NoBlock /\ e # <<>> THEN e[1] ELSE disk[i].first
      /\ opened'[i].count = opened[i].count /\ opened'[i].size = len
      /\ opened'[i].list = e
  BY <1>3 DEF ResizeParts
<1>5. n <= Len(e)
  BY <1>2, <1>4 DEF Careful
<1>6. PICK f : IsFile(i, f, Size(i))
  BY <1>4 DEF FileInv
<1>7. n <= BlockCount \/ opened[i].list # <<>>
  <2> SUFFICES ASSUME ~(n <= BlockCount), opened[i].list = <<>> PROVE FALSE
    OBVIOUS
  <2>1. l = <<>> /\ n > BlockCount
    BY <1>4, BlockCountAssumption
  <2>2. s = <<>>
    BY <1>4, <2>1 DEF NewBlocks
  <2>3. e = <<>>
    BY <1>4, <2>1, <2>2 DEF Extended
  <2> QED BY <1>4, <1>5, <2>3
<1>8. l = f
  <2>1. ListFor(opened[i], n) = {f}
    BY <1>1, <1>4, <1>6, <1>7, ListFound
  <2>2. l \in ListFor(opened[i], n)
    BY <1>4 DEF ListFor
  <2> QED BY <2>1, <2>2
<1>9. IsFile(i, l, Size(i))
  BY <1>6, <1>8
<1>10. PICK z \in Nat : z = Size(i)
  BY <1>1, <1>4, SizeType DEF RecordInv
<1>11. z = opened[i].size /\ len \in Nat /\ z <= len /\ len >= 1
  <2>1. z = opened[i].size /\ len \in Nat
    BY <1>4, <1>10, NodeDevAssumption DEF Size, Pos
  <2> QED BY <1>2, <1>10, <2>1
<1>12. IsFile(i, l, z)
  BY <1>9, <1>10
<1>13. GrownBy(i, l, e)
  <2>1. n \in Nat
    BY <1>4
  <2> QED BY <1>1, <1>4, <1>12, <2>1, GrownChain
<1>14. /\ e \in Seq(Block) /\ Len(l) \in Nat /\ Len(e) \in Nat
       /\ Blank(e, z) /\ Contents(e, z) = Contents(l, z)
  BY <1>4, <1>12, <1>13, GrownBlank
<1>15. len <= Len(e) * BlockSize
  <2>1. len - 1 \in Nat
    BY <1>11
  <2>2. len - 1 < Len(e) * BlockSize /\ Len(e) * BlockSize \in Nat
    BY <1>4, <1>5, <1>14, <2>1, PositionWithin
  <2> QED BY <1>11, <2>2
<1>16. Contents(e, len) = F!Resized(Contents(l, z), len)
  BY <1>11, <1>14, <1>15, ResizedUp
<1>17. Blank(e, len)'
  <2>1. ASSUME NEW k \in 1 .. Len(e), NEW o \in Offset, PosOf(k, o) >= len
        PROVE  bytes'[e[k]][o] = 0
    <3>1. k \in Nat \ {0} /\ PosOf(k, o) \in Nat
      <4>1. k \in Nat \ {0}
        BY <1>14
      <4> QED BY <4>1, PositionUnique
    <3>2. PosOf(k, o) >= z
      BY <1>11, <2>1, <3>1
    <3> QED BY <1>14, <3>2 DEF Blank
  <2> QED BY <2>1 DEF Blank, PosOf, Offset
<1>18. IsFile(i, e, len)'
  <2>1. Holds(i, e)'
    BY <1>13 DEF GrownBy
  <2>2. Size(i)' = len
    BY <1>4 DEF Size
  <2> QED BY <1>4, <1>15, <1>17, <2>1, <2>2 DEF IsFile
<1>19. BytesTyped' /\ FreeBlank'
  <2>1. used \subseteq used'
    BY <1>13 DEF GrownBy
  <2> QED BY <1>1, <2>1 DEF BytesTyped, FreeBlank, Offset
<1>20. \A b \in used : b \notin Elements(l) => next'[b] = next[b] /\ bytes'[b] = bytes[b]
  BY <1>13 DEF GrownBy
<1>21. \A j \in Inode \ {i} : disk'[j] = disk[j] /\ opened'[j] = opened[j]
  BY <1>4
<1>22. /\ FileInv' /\ FileContents[i] = Contents(l, Size(i))
       /\ FileContents' = [FileContents EXCEPT ![i] = Contents(e, len)']
  BY <1>4, <1>9, <1>18, <1>19, <1>20, <1>21, OneFileChanged
<1>23. Contents(e, len)' = Contents(e, len)
  BY DEF Contents
<1>24. FileContents' = [FileContents EXCEPT ![i] = F!Resized(@, len)]
  BY <1>10, <1>16, <1>22, <1>23
<1>25. \A j \in Inode : disk'[j].used <=> disk[j].used
  <2>1. disk'[i].used <=> disk[i].used
    BY <1>4
  <2>2. \A j \in Inode \ {i} : disk'[j].used <=> disk[j].used
    BY <1>21
  <2> QED BY <2>1, <2>2
<1>26. FileInv'
  BY <1>22
<1> QED BY <1>4, <1>24, <1>25, <1>26 DEF Resizes

\* File i, the blocks f, is cut behind the n-th of them: the rest is freed, and
\* zeroes follow the len bytes kept.
CutTo(i, f, n, len) ==
    /\ i \in Inode /\ n \in 1 .. Len(f) /\ opened[i].count \in Nat \ {0} /\ disk[i].used
    /\ used' = used \ {f[k] : k \in n + 1 .. Len(f)}
    /\ next' = [b \in Block |-> IF b \in {f[k] : k \in n .. Len(f)} THEN NoBlock ELSE next[b]]
    /\ bytes' = Zeroed({f[k] : k \in n + 1 .. Len(f)}, f[n], len % BlockSize)
    /\ \A j \in Inode \ {i} : disk'[j] = disk[j] /\ opened'[j] = opened[j]
    /\ disk'[i].used /\ disk'[i].first = disk[i].first
    /\ opened'[i].count = opened[i].count /\ opened'[i].size = len
    /\ opened'[i].list = SubSeq(f, 1, n)

\* A size that is no multiple of the block size ends inside the block its last
\* byte is in.
LEMMA SizeInsideBlock ==
  ASSUME NEW len \in Nat \ {0}, len % BlockSize # 0, NEW n, n = BlocksFor(len - 1)
  PROVE  /\ n \in Nat \ {0} /\ len % BlockSize \in Offset /\ PosOf(n, len % BlockSize) = len
         /\ len - 1 \in Nat
<1>1. len - 1 \in Nat /\ len \in Nat
  OBVIOUS
<1>2. PICK o \in Offset : o = len % BlockSize
  BY <1>1, PositionParts
<1>3. PICK x \in Nat \ {0} : x = BlocksFor(len)
  BY <1>1, PositionParts
<1>4. PosOf(x, o) = len
  BY <1>1, <1>2, <1>3, PositionParts
<1>5. PICK r \in Offset : r = (len - 1) % BlockSize
  BY <1>1, PositionParts
<1>6. n \in Nat \ {0} /\ PosOf(n, r) = len - 1
  BY <1>1, <1>5, PositionParts
<1>7. o - 1 \in Offset
  BY <1>2, NodeDevAssumption DEF Offset
<1>8. PosOf(x, o - 1) = len - 1
  <2>1. PICK a \in Nat : a = (x - 1) * BlockSize
    <3>1. x - 1 \in Nat
      OBVIOUS
    <3> QED BY <3>1, NodeDevAssumption
  <2>2. a + o = len /\ o \in Nat
    BY <1>4, <2>1, NodeDevAssumption DEF PosOf, Offset
  <2>3. a + (o - 1) = len - 1
    BY <1>1, <2>2
  <2> QED BY <2>1, <2>3 DEF PosOf
<1>9. x = n
  BY <1>6, <1>7, <1>8, PositionUnique
<1> QED BY <1>1, <1>2, <1>4, <1>6, <1>9

\* Cutting a file inside a block keeps the bytes in front of the cut.
LEMMA CutResizes ==
  ASSUME FileInv, RecordInv', ChainInv', NEW i, NEW f, NEW z, IsFile(i, f, z), NEW n,
         NEW len \in Nat \ {0}, len < z, len % BlockSize # 0, n = BlocksFor(len - 1),
         CutTo(i, f, n, len)
  PROVE  Resizes(i, len)
<1>1. RecordInv /\ ChainInv /\ BytesTyped /\ FreeBlank
  BY DEF FileInv
<1> DEFINE W == {f[k] : k \in n + 1 .. Len(f)}
           q == SubSeq(f, 1, n)
<1>2. /\ i \in Inode /\ n \in 1 .. Len(f) /\ opened[i].count \in Nat \ {0} /\ disk[i].used
      /\ used' = used \ W
      /\ next' = [b \in Block |-> IF b \in {f[k] : k \in n .. Len(f)} THEN NoBlock ELSE next[b]]
      /\ bytes' = Zeroed(W, f[n], len % BlockSize)
      /\ \A j \in Inode \ {i} : disk'[j] = disk[j] /\ opened'[j] = opened[j]
      /\ disk'[i].used /\ disk'[i].first = disk[i].first
      /\ opened'[i].count = opened[i].count /\ opened'[i].size = len
      /\ opened'[i].list = q
  BY DEF CutTo
<1>3. /\ f \in Seq(Block) /\ Len(f) \in Nat /\ f # <<>>
      /\ f[1] = disk[i].first
      /\ \A k \in 1 .. Len(f) - 1 : next[f[k]] = f[k+1]
      /\ \A j, k \in 1 .. Len(f) : f[j] = f[k] => j = k
      /\ \A k \in 1 .. Len(f) : f[k] \in Block
  <2>1. f \in Seq(Block) /\ Follows(next, disk[i].first, f)
    BY DEF IsFile, Holds
  <2>2. Len(f) \in Nat /\ f # <<>> /\ \A k \in 1 .. Len(f) : f[k] \in Block
    BY <1>2, <2>1
  <2> QED BY <2>1, <2>2 DEF Follows
<1>4. PICK o \in Offset : o = len % BlockSize
  BY SizeInsideBlock
<1>5. PosOf(n, o) = len /\ n \in Nat \ {0} /\ len - 1 \in Nat
  BY <1>4, SizeInsideBlock
<1>6. /\ q \in Seq(Block) /\ Len(q) = n /\ \A k \in 1 .. n : q[k] = f[k]
  BY <1>2, <1>3
<1> HIDE DEF q
<1>7. /\ BytesTyped'
      /\ \A c \in Block, u \in Offset :
              bytes'[c][u] = IF c \in W \/ (c = f[n] /\ u >= o) THEN 0 ELSE bytes[c][u]
      /\ \A c \in Block : c \notin W /\ c # f[n] => bytes'[c] = bytes[c]
  <2>1. bytes' = Zeroed(W, f[n], o)
    BY <1>2, <1>4
  <2> HIDE DEF W
  <2> QED BY <1>1, <2>1, ZeroedBytes
<1>8. /\ \A k \in 1 .. n : f[k] \notin W /\ (f[k] = f[n] => k = n)
      /\ \A b \in W : b \in Block /\ b \in Elements(f)
      /\ f[n] \in Block /\ f[n] \in Elements(f)
  <2>1. \A k \in 1 .. n : k \in 1 .. Len(f) /\ k \notin n + 1 .. Len(f)
    BY <1>2, <1>3
  <2>2. \A k \in n + 1 .. Len(f) : k \in 1 .. Len(f)
    BY <1>2, <1>3
  <2>3. \A k \in 1 .. n : f[k] \notin W
    BY <1>3, <2>1, <2>2
  <2>4. \A k \in 1 .. n : f[k] = f[n] => k = n
    BY <1>2, <1>3, <2>1
  <2>5. \A b \in W : b \in Block /\ b \in Elements(f)
    BY <1>3, <2>2 DEF Elements
  <2> QED BY <1>2, <1>3, <2>3, <2>4, <2>5 DEF Elements
<1>9. FreeBlank'
  <2>1. \A c \in Block \ used' : c \in W \/ c \in Block \ used
    BY <1>2
  <2>2. \A c \in Block \ used' : \A u \in Offset : bytes'[c][u] = 0
    BY <1>1, <1>7, <2>1 DEF FreeBlank
  <2> QED BY <2>2 DEF FreeBlank, Offset
<1>10. \A b \in used : b \notin Elements(f) => next'[b] = next[b] /\ bytes'[b] = bytes[b]
  <2> SUFFICES ASSUME NEW b \in used, b \notin Elements(f) PROVE next'[b] = next[b] /\ bytes'[b] = bytes[b]
    OBVIOUS
  <2>1. b \in Block
    BY <1>1 DEF RecordInv, TypeOK, BlockTypeOK
  <2>2. b \notin W /\ b # f[n]
    BY <1>8
  <2>3. b \notin {f[k] : k \in n .. Len(f)}
    <3>1. \A k \in n .. Len(f) : k \in 1 .. Len(f)
      BY <1>2, <1>3
    <3> QED BY <3>1 DEF Elements
  <2> QED BY <1>2, <1>7, <2>1, <2>2, <2>3
<1>11. Follows(next', disk'[i].first, q)
  <2>1. q # <<>> /\ q[1] = disk'[i].first
    BY <1>2, <1>3, <1>5, <1>6
  <2>2. next'[q[n]] = NoBlock
    <3>1. q[n] = f[n] /\ n \in n .. Len(f)
      BY <1>2, <1>3, <1>5, <1>6
    <3>2. q[n] \in {f[k] : k \in n .. Len(f)}
      BY <3>1
    <3> QED BY <1>2, <1>8, <3>1, <3>2
  <2>3. ASSUME NEW k \in 1 .. n - 1 PROVE next'[q[k]] = q[k+1]
    <3>1. k \in 1 .. Len(f) - 1 /\ k \in 1 .. n /\ k + 1 \in 1 .. n /\ k \in 1 .. Len(f) /\ k \notin n .. Len(f)
      BY <1>2, <1>3, <1>5, <2>3
    <3>2. f[k] \notin {f[x] : x \in n .. Len(f)}
      <4>1. \A x \in n .. Len(f) : x \in 1 .. Len(f)
        BY <1>2, <1>3
      <4> QED BY <1>3, <3>1, <4>1
    <3>3. f[k] \in Block /\ q[k] = f[k] /\ q[k+1] = f[k+1] /\ next[f[k]] = f[k+1]
      BY <1>3, <1>6, <3>1
    <3> QED BY <1>2, <3>2, <3>3
  <2>4. \A j, k \in 1 .. n : q[j] = q[k] => j = k
    <3>1. \A k \in 1 .. n : k \in 1 .. Len(f)
      BY <1>2, <1>3
    <3> QED BY <1>3, <1>6, <3>1
  <2> QED BY <1>6, <2>1, <2>2, <2>3, <2>4 DEF Follows
<1>12. Blank(q, len)'
  <2> SUFFICES ASSUME NEW k \in 1 .. n, NEW u \in Offset, PosOf(k, u) >= len
               PROVE  bytes'[q[k]][u] = 0
    BY <1>6 DEF Blank, PosOf, Offset
  <2>1. k \in Nat \ {0} /\ k <= n
    BY <1>5
  <2>2. k = n
    <3> SUFFICES ASSUME k < n PROVE FALSE
      BY <1>5, <2>1
    <3>1. PosOf(k, u) < (n - 1) * BlockSize /\ PosOf(k, u) \in Nat
      BY <1>5, <2>1, PositionUnique
    <3>2. (n - 1) * BlockSize <= len /\ (n - 1) * BlockSize \in Nat
      <4>1. n - 1 \in Nat
        BY <1>5
      <4> QED BY <1>5, <4>1, PositionUnique, NodeDevAssumption
    <3> QED BY <3>1, <3>2
  <2>3. u >= o
    <3>1. PICK a \in Nat : a = (n - 1) * BlockSize
      <4>1. n - 1 \in Nat
        BY <1>5
      <4> QED BY <4>1, NodeDevAssumption
    <3>2. a + u >= a + o
      BY <1>5, <2>2, <3>1 DEF PosOf
    <3> QED BY <3>1, <3>2, NodeDevAssumption DEF Offset
  <2>4. q[k] = f[n] /\ f[n] \in Block
    BY <1>6, <1>8, <2>2
  <2> QED BY <1>7, <2>3, <2>4
<1>13. IsFile(i, q, len)'
  <2>1. Size(i)' = len
    BY <1>2 DEF Size
  <2>2. len <= n * BlockSize
    <3>1. len < n * BlockSize /\ n * BlockSize \in Nat
      BY <1>5, PositionUnique, NodeDevAssumption
    <3> QED BY <3>1
  <2>3. Holds(i, q)'
    BY <1>6, <1>11 DEF Holds
  <2> QED BY <1>2, <1>6, <1>12, <2>1, <2>2, <2>3 DEF IsFile
<1>14. Contents(q, len)' = F!Resized(Contents(f, z), len)
  <2>1. z \in Nat
    BY <1>1, <1>2, SizeType DEF IsFile, RecordInv
  <2>2. ASSUME NEW k \in 1 .. len
        PROVE  bytes'[q[BlocksFor(k - 1)]][(k - 1) % BlockSize] = bytes[f[BlocksFor(k - 1)]][(k - 1) % BlockSize]
    <3>1. PICK p \in Nat : p = k - 1
      OBVIOUS
    <3>2. p < len
      BY <3>1
    <3>3. PICK x \in Nat \ {0} : x = BlocksFor(p)
      BY PositionParts
    <3>4. PICK u \in Offset : u = p % BlockSize
      BY PositionParts
    <3>5. PosOf(x, u) = p
      BY <3>3, <3>4, PositionParts
    <3>6. x <= n
      <4> SUFFICES ASSUME n < x PROVE FALSE
        BY <1>5
      <4>1. len < (x - 1) * BlockSize
        BY <1>5, PositionUnique
      <4>2. (x - 1) * BlockSize <= p /\ (x - 1) * BlockSize \in Nat
        <5>1. x - 1 \in Nat
          OBVIOUS
        <5> QED BY <3>5, <5>1, PositionUnique, NodeDevAssumption
      <4> QED BY <3>2, <4>1, <4>2
    <3>7. x = n => u < o
      <4> SUFFICES ASSUME x = n PROVE u < o
        OBVIOUS
      <4>1. PICK a \in Nat : a = (n - 1) * BlockSize
        <5>1. n - 1 \in Nat
          BY <1>5
        <5> QED BY <5>1, NodeDevAssumption
      <4>2. a + u < a + o
        BY <1>5, <3>2, <3>5, <4>1 DEF PosOf
      <4> QED BY <4>1, <4>2, NodeDevAssumption DEF Offset
    <3>8. x \in 1 .. n /\ q[x] = f[x] /\ f[x] \in Block
      <4>1. x \in 1 .. n /\ x \in 1 .. Len(f)
        BY <1>2, <1>3, <3>6
      <4> QED BY <1>3, <1>6, <4>1
    <3>9. ~(f[x] \in W \/ (f[x] = f[n] /\ u >= o))
      <4>1. f[x] \notin W /\ (f[x] = f[n] => x = n)
        BY <1>8, <3>8
      <4>2. ~(u < o /\ u >= o)
        BY NodeDevAssumption DEF Offset
      <4> QED BY <3>7, <4>1, <4>2
    <3>10. bytes'[q[x]][u] = bytes[f[x]][u]
      <4> HIDE DEF W
      <4> QED BY <1>7, <3>8, <3>9
    <3> QED BY <3>1, <3>3, <3>4, <3>10
  <2>3. Contents(q, len)' = [k \in 1 .. len |-> bytes'[q[BlocksFor(k - 1)]][(k - 1) % BlockSize]]
    BY DEF Contents, BlocksFor
  <2>4. Len(Contents(f, z)) = z
        /\ \A k \in 1 .. z : Contents(f, z)[k] = bytes[f[BlocksFor(k - 1)]][(k - 1) % BlockSize]
    BY <2>1 DEF Contents
  <2>5. F!Resized(Contents(f, z), len) = [k \in 1 .. len |-> IF k <= z THEN Contents(f, z)[k] ELSE 0]
    BY <2>4 DEF F!Resized
  <2>6. \A k \in 1 .. len : k <= z /\ k \in 1 .. z
    BY <2>1
  <2>7. \A k \in 1 .. len :
           (IF k <= z THEN Contents(f, z)[k] ELSE 0) = bytes'[q[BlocksFor(k - 1)]][(k - 1) % BlockSize]
    BY <2>2, <2>4, <2>6
  <2> QED BY <2>3, <2>5, <2>7
<1>15. IsFile(i, f, Size(i)) /\ Size(i) = z
  BY DEF IsFile
<1>16. \A j \in Inode \ {i} : disk'[j] = disk[j] /\ opened'[j] = opened[j]
  BY <1>2
<1> HIDE DEF W
<1>17. /\ FileInv' /\ FileContents[i] = Contents(f, Size(i))
       /\ FileContents' = [FileContents EXCEPT ![i] = Contents(q, len)']
  <2>1. i \in Inode
    BY <1>2
  <2>2. BytesTyped'
    BY <1>7
  <2>3. IsFile(i, f, Size(i))
    BY <1>15
  <2>4. RecordInv' /\ ChainInv'
    OBVIOUS
  <2> QED BY <1>9, <1>10, <1>13, <1>16, <2>1, <2>2, <2>3, <2>4, OneFileChanged
<1>18. FileContents' = [FileContents EXCEPT ![i] = F!Resized(@, len)]
  BY <1>14, <1>15, <1>17
<1>19. \A j \in Inode : disk'[j].used <=> disk[j].used
  <2>1. disk'[i].used <=> disk[i].used
    BY <1>2
  <2>2. \A j \in Inode \ {i} : disk'[j].used <=> disk[j].used
    BY <1>2
  <2> QED BY <2>1, <2>2
<1>20. FileInv'
  BY <1>17
<1> QED BY <1>2, <1>18, <1>19, <1>20 DEF Resizes

\* A file has no more blocks than there are.
LEMMA FileFits ==
  ASSUME RecordInv, NEW i \in Inode, NEW f, NEW z, IsFile(i, f, z)
  PROVE  Len(f) \in Nat /\ Len(f) <= BlockCount
<1>1. f \in Seq(Block) /\ Follows(next, disk[i].first, f)
  BY DEF IsFile, Holds
<1>2. disk[i].first \in Block \cup {NoBlock} /\ next \in [Block -> Block \cup {NoBlock}]
  BY DEF RecordInv, TypeOK, BlockTypeOK, DiskInode
<1>3. PICK R : R = Reach(next, disk[i].first)
  OBVIOUS
<1>4. R \in SUBSET Block /\ Cardinality(R) = Len(f)
  BY <1>1, <1>2, <1>3, WholeChain, ReachType
<1>5. IsFiniteSet(Block) /\ Cardinality(Block) = BlockCount
  <2>1. Cardinality(1 .. BlockCount) = BlockCount
    BY BlockCountAssumption, FS_Interval
  <2> QED BY <2>1, BlockFinite DEF Block
<1>6. Cardinality(R) <= Cardinality(Block)
  BY <1>4, <1>5, FS_Subset
<1> QED BY <1>1, <1>4, <1>5, <1>6

\* The block a careful truncation down keeps last is one of the file, and has no
\* block behind it only if it is the first.
LEMMA DownKeeps ==
  ASSUME FileInv, NEW h \in Handle, NEW len \in Pos, Careful(h, len), NEW i, i = handle[h].inode,
         handle[h].rw, len \in 1 .. opened[i].size - 1, NEW f, IsFile(i, f, Size(i)),
         NEW n, n = BlocksFor(len - 1)
  PROVE  /\ i \in Inode /\ opened[i] \in OpenInode /\ opened[i].count \in Nat \ {0} /\ disk[i].used
         /\ disk[i].first = opened[i].first
         /\ len \in Nat \ {0} /\ len < Size(i) /\ len % BlockSize # 0
         /\ n \in 1 .. Len(f) /\ (n = Len(f) => n = 1)
         /\ \A m : m.list = opened[i].list /\ m.first = disk[i].first => ListFor(m, n) = {f}
<1>1. RecordInv
  BY DEF FileInv
<1>2. i \in Inode /\ opened[i] \in OpenInode /\ opened[i].count \in Nat \ {0} /\ disk[i].used
      /\ disk[i].first = opened[i].first
  <2>1. handle[h] # NoDev
    BY DEF NoDev
  <2> QED BY <1>1, <2>1, Holder, OpenedType DEF RecordInv
<1>3. PICK z \in Nat : z = opened[i].size
  BY <1>2, NodeDevAssumption DEF OpenInode, Pos
<1>4. Size(i) = z
  BY <1>2, <1>3 DEF Size
<1>5. len \in Nat \ {0} /\ len < z /\ len - 1 \in Nat /\ len - 1 < z
  BY <1>3
<1>6. len % BlockSize # 0 /\ (n > 1 => \A l \in ListFor(opened[i], n) : n < Len(l))
  BY <1>3, <1>5 DEF Careful
<1>7. Len(f) \in Nat /\ Len(f) <= BlockCount /\ z <= Len(f) * BlockSize /\ Len(f) * BlockSize \in Nat
  BY <1>1, <1>2, <1>4, FileFits, NodeDevAssumption DEF IsFile
<1>8. n \in Nat \ {0} /\ n <= Len(f)
  <2>1. len - 1 < Len(f) * BlockSize
    BY <1>3, <1>5, <1>7
  <2> QED BY <1>5, <1>7, <2>1, PositionParts, PositionWithin
<1>9. \A m : m.list = opened[i].list /\ m.first = disk[i].first => ListFor(m, n) = {f}
  <2>1. n \in Nat /\ n <= BlockCount
    BY <1>7, <1>8, BlockCountAssumption
  <2> QED BY <1>1, <1>2, <2>1, ListFound
<1>10. n = Len(f) => n = 1
  <2>1. ListFor(opened[i], n) = {f}
    BY <1>2, <1>9
  <2> QED BY <1>6, <1>7, <1>8, <2>1
<1>11. n \in 1 .. Len(f)
  BY <1>7, <1>8
<1> QED BY <1>2, <1>4, <1>5, <1>6, <1>9, <1>10, <1>11

\* Inside its only block, a file is cut there.
LEMMA InLastBlockCuts ==
  ASSUME FileInv, NEW h \in Handle, NEW len \in Pos, Careful(h, len), NEW i, i = handle[h].inode,
         TruncateInLastBlock(h, len), NEW f, IsFile(i, f, Size(i)),
         NEW n, n = BlocksFor(len - 1), bytes' = Zeroed(used \ used', f[n], len % BlockSize)
  PROVE  CutTo(i, f, n, len)
<1>1. RecordInv /\ ChainInv
  BY DEF FileInv
<1>2. handle[h].rw /\ len \in 1 .. opened[i].size - 1
  BY DEF TruncateInLastBlock
<1>3. /\ i \in Inode /\ opened[i] \in OpenInode /\ opened[i].count \in Nat \ {0} /\ disk[i].used
      /\ disk[i].first = opened[i].first
      /\ n \in 1 .. Len(f) /\ (n = Len(f) => n = 1)
      /\ ListFor(opened[i], n) = {f}
  BY <1>2, DownKeeps
<1>4. ~TruncateUp(h, len)
  <2>1. opened[i].size \in Nat
    BY <1>3, NodeDevAssumption DEF OpenInode, Pos
  <2>2. ~(len > opened[i].size)
    BY <1>2, <2>1
  <2> QED BY <2>2 DEF TruncateUp
<1>5. PICK x, l, s, e :
         \/ ResizeParts(h, i, len, x, l, s, e, e) /\ ~(x <= Len(e))
         \/ /\ ResizeParts(h, i, len, x, l, s, e, <<e[1]>>)
            /\ x <= Len(e) /\ Linked(l, s)[e[x]] = NoBlock
  BY <1>1, <1>4, UpHasParts
<1>6. PICK q : ResizeParts(h, i, len, x, l, s, e, q) /\ q \in {e, <<e[1]>>}
  BY <1>5
<1>7. /\ x = n
      /\ l \in (IF opened[i].list = <<>> /\ disk[i].first # NoBlock /\ x <= BlockCount
                THEN ChainLists(disk[i].first) ELSE {opened[i].list})
      /\ l \in Seq(Block) /\ s \in NewBlocks(l, x) /\ e = Extended(l, s)
      /\ MarkUsed(s) /\ next' = Linked(l, s)
      /\ \A j \in Inode \ {i} : disk'[j] = disk[j] /\ opened'[j] = opened[j]
      /\ disk'[i].used
      /\ disk'[i].first = IF disk[i].first = NoBlock /\ e # <<>> THEN e[1] ELSE disk[i].first
      /\ opened'[i].count = opened[i].count /\ opened'[i].size = len
      /\ opened'[i].list = q
  BY <1>6 DEF ResizeParts
<1>8. l = f
  <2>1. l \in ListFor(opened[i], n)
    BY <1>3, <1>7 DEF ListFor
  <2> QED BY <1>3, <2>1
<1>9. s = <<>> /\ n <= Len(f) /\ Len(f) \in Nat
  <2>1. n <= Len(f) /\ Len(f) \in Nat
    BY <1>3, <1>7, <1>8
  <2> QED BY <1>7, <1>8, <2>1 DEF NewBlocks
<1>10. f \in Seq(Block) /\ Follows(next, disk[i].first, f) /\ f # <<>>
  BY <1>3 DEF IsFile, Holds
<1>11. e = f
  <2>1. ~Severed(l)
    BY <1>8, <1>10 DEF Severed, Follows
  <2>2. e = l \o <<>>
    BY <1>7, <1>9, <2>1 DEF Extended
  <2> QED BY <1>7, <1>8, <2>2
<1>12. used' = used
  BY <1>7, <1>9 DEF MarkUsed
<1>13. next \in [Block -> Block \cup {NoBlock}]
  BY <1>1 DEF RecordInv, TypeOK, BlockTypeOK
<1>14. Linked(l, s) = next
  <2>1. \A b : {k \in 1 .. Len(f) - 1 : k >= Len(f) /\ f[k] = b} = {}
    BY <1>9
  <2>2. Linked(l, s) = [b \in Block |-> next[b]]
    BY <1>7, <1>8, <1>11, <2>1 DEF Linked
  <2> QED BY <1>13, <2>2
<1>15. opened'[i].list = <<f[1]>> /\ next[f[n]] = NoBlock
  BY <1>5, <1>7, <1>9, <1>11, <1>14 DEF ResizeParts
<1>16. n = 1 /\ Len(f) = 1
  <2>1. n = Len(f)
    <3> SUFFICES ASSUME n # Len(f) PROVE FALSE
      OBVIOUS
    <3>1. n \in 1 .. Len(f) - 1 /\ n + 1 \in 1 .. Len(f)
      BY <1>3, <1>9
    <3>2. next[f[n]] = f[n+1] /\ f[n+1] \in Block
      BY <1>10, <3>1 DEF Follows
    <3> QED BY <1>15, <3>2 DEF Block, NoBlock
  <2> QED BY <1>3, <2>1
<1>17. {f[k] : k \in n + 1 .. Len(f)} = {} /\ {f[k] : k \in n .. Len(f)} = {f[1]}
  <2>1. n + 1 .. Len(f) = {} /\ n .. Len(f) = {1}
    BY <1>16
  <2> QED BY <2>1
<1>18. next' = [b \in Block |-> IF b \in {f[1]} THEN NoBlock ELSE next[b]]
  BY <1>7, <1>13, <1>14, <1>15, <1>16
<1>19. bytes' = Zeroed({}, f[n], len % BlockSize)
  <2>1. used \ used' = {}
    BY <1>12
  <2> QED BY <2>1
<1>20. SubSeq(f, 1, n) = <<f[1]>>
  <2>1. PICK q2 : q2 = SubSeq(f, 1, 1)
    OBVIOUS
  <2>2. q2 \in Seq(Block) /\ Len(q2) = 1 /\ q2[1] = f[1]
    BY <1>10, <1>16, <2>1
  <2>3. PICK q3 : q3 = <<f[1]>>
    OBVIOUS
  <2>4. q3 \in Seq(Block) /\ Len(q3) = 1 /\ q3[1] = f[1]
    BY <1>10, <1>16, <2>3
  <2>5. q2 = q3
    BY <2>2, <2>4
  <2> QED BY <1>16, <2>1, <2>3, <2>5
<1>21. disk'[i].first = disk[i].first
  BY <1>7, <1>10, <1>11 DEF Follows
<1>22. used' = used \ {f[k] : k \in n + 1 .. Len(f)}
  BY <1>12, <1>17
<1>23. next' = [b \in Block |-> IF b \in {f[k] : k \in n .. Len(f)} THEN NoBlock ELSE next[b]]
  BY <1>17, <1>18
<1>24. bytes' = Zeroed({f[k] : k \in n + 1 .. Len(f)}, f[n], len % BlockSize)
  BY <1>17, <1>19
<1>25. opened'[i].list = SubSeq(f, 1, n)
  BY <1>15, <1>20
<1> QED BY <1>3, <1>7, <1>21, <1>22, <1>23, <1>24, <1>25 DEF CutTo

\* What is linked behind the n-th block of a file is the rest of it.
LEMMA RestReached ==
  ASSUME NEW nx \in [Block -> Block \cup {NoBlock}], NEW b \in Block \cup {NoBlock},
         NEW f \in Seq(Block), Follows(nx, b, f), NEW n \in 1 .. Len(f) - 1
  PROVE  Reach(nx, f[n+1]) = {f[k] : k \in n + 1 .. Len(f)}
<1>1. PICK t : t = SubSeq(f, n + 1, Len(f))
  OBVIOUS
<1>2. Len(f) \in Nat /\ \A k \in 1 .. Len(f) : f[k] \in Block
  OBVIOUS
<1>3. t \in Seq(Block) /\ Len(t) = Len(f) - n /\ Len(t) \in Nat \ {0} /\ n \in Nat
  BY <1>1, <1>2
<1>4. \A k \in 1 .. Len(t) : t[k] = f[n + k]
  <2>1. PICK y \in Nat : y = Len(f)
    BY <1>2
  <2>2. PICK x \in Nat : x = n + 1
    BY <1>3
  <2>3. t = SubSeq(f, x, y) /\ Len(t) = y - n
    BY <1>1, <1>3, <2>1, <2>2
  <2>4. ASSUME NEW k \in 1 .. Len(t) PROVE t[k] = f[n + k]
    <3>1. k \in 1 .. (y - x) + 1 /\ (x + k) - 1 = n + k
      BY <1>3, <2>2, <2>3
    <3>2. SubSeq(f, x, y)[k] = f[(x + k) - 1]
      BY <2>1, <2>3, <3>1
    <3> QED BY <2>3, <3>1, <3>2
  <2> QED BY <2>4
<1>5. Follows(nx, f[n+1], t)
  <2>1. t # <<>> /\ t[1] = f[n+1] /\ f # <<>>
    BY <1>2, <1>3, <1>4
  <2>2. nx[t[Len(t)]] = NoBlock
    <3>1. t[Len(t)] = f[Len(f)]
      BY <1>2, <1>3, <1>4
    <3> QED BY <2>1, <3>1 DEF Follows
  <2>3. ASSUME NEW k \in 1 .. Len(t) - 1 PROVE nx[t[k]] = t[k+1]
    <3>1. n + k \in 1 .. Len(f) - 1 /\ k \in 1 .. Len(t) /\ k + 1 \in 1 .. Len(t) /\ n + (k + 1) = (n + k) + 1
      BY <1>2, <1>3
    <3>2. nx[f[n + k]] = f[(n + k) + 1]
      BY <3>1 DEF Follows
    <3> QED BY <1>4, <3>1, <3>2
  <2>4. ASSUME NEW j \in 1 .. Len(t), NEW k \in 1 .. Len(t), t[j] = t[k] PROVE j = k
    <3>1. n + j \in 1 .. Len(f) /\ n + k \in 1 .. Len(f)
      BY <1>2, <1>3
    <3>2. n + j = n + k
      BY <1>4, <2>4, <3>1 DEF Follows
    <3> QED BY <1>3, <3>2
  <2> QED BY <2>1, <2>2, <2>3, <2>4 DEF Follows
<1>6. f[n+1] \in Block \cup {NoBlock}
  <2>1. n + 1 \in 1 .. Len(f)
    BY <1>2
  <2> QED BY <1>2, <2>1
<1>7. Reach(nx, f[n+1]) = Elements(t)
  BY <1>3, <1>5, <1>6, WholeChain
<1>8. Elements(t) = {f[k] : k \in n + 1 .. Len(f)}
  <2>1. ASSUME NEW c \in Elements(t) PROVE c \in {f[k] : k \in n + 1 .. Len(f)}
    <3>1. PICK k \in 1 .. Len(t) : c = t[k]
      BY <2>1 DEF Elements
    <3>2. n + k \in n + 1 .. Len(f)
      BY <1>2, <1>3
    <3> QED BY <1>4, <3>1, <3>2
  <2>2. ASSUME NEW x \in n + 1 .. Len(f) PROVE f[x] \in Elements(t)
    <3>1. x - n \in 1 .. Len(t) /\ n + (x - n) = x
      BY <1>2, <1>3
    <3>2. f[x] = t[x - n]
      BY <1>4, <3>1
    <3> QED BY <3>1, <3>2 DEF Elements
  <2> QED BY <2>1, <2>2
<1> QED BY <1>7, <1>8

\* Truncating a file that has more blocks than it keeps cuts it behind those.
LEMMA ChainCuts ==
  ASSUME FileInv, NEW h \in Handle, NEW len \in Pos, Careful(h, len), NEW i, i = handle[h].inode,
         TruncateChain(h, len), NEW f, IsFile(i, f, Size(i)),
         bytes' = Zeroed(used \ used', f[BlocksFor(len - 1)], len % BlockSize)
  PROVE  CutTo(i, f, BlocksFor(len - 1), len)
<1> DEFINE n == BlocksFor(len - 1)
<1>1. RecordInv /\ ChainInv
  BY DEF FileInv
<1>2. handle[h].rw /\ len \in 1 .. opened[i].size - 1
  BY DEF TruncateChain
<1>3. /\ i \in Inode /\ opened[i] \in OpenInode /\ opened[i].count \in Nat \ {0} /\ disk[i].used
      /\ disk[i].first = opened[i].first
      /\ n \in 1 .. Len(f)
      /\ \A m : m.list = opened[i].list /\ m.first = disk[i].first => ListFor(m, n) = {f}
  BY <1>2, DownKeeps
<1> DEFINE m == [opened[i] EXCEPT !.size = len]
           Whole(l) == {x \in 2 .. Len(l) : l[x] = next[l[n]]} = {}
           CutAt(l, W, y) == /\ Wipe(W)
                             /\ next' = [b \in Block |-> IF b \in W \cup {l[y]} THEN NoBlock ELSE next[b]]
                             /\ opened' = [opened EXCEPT ![i] = [m EXCEPT !.list = SubSeq(l, 1, y)]]
<1>4. PICK l \in ListFor(m, n) :
        /\ next[l[n]] # NoBlock
        /\ Whole(l) \/ \E x \in 2 .. Len(l) : l[x] = next[l[n]] /\ CutAt(l, Reach(next, next[l[n]]), x - 1)
  BY DEF TruncateChain
<1>d. /\ disk' = Flushed(i, m)
      /\ bytes' = Zeroed(used \ used', f[n], len % BlockSize)
  BY DEF TruncateChain
<1>5. m \in OpenInode /\ m.list = opened[i].list /\ m.first = disk[i].first /\ m.size = len
      /\ m.count = opened[i].count
  BY <1>3 DEF OpenInode
<1> HIDE DEF m
<1>6. l = f
  <2>1. ListFor(m, n) = {f}
    BY <1>3, <1>5
  <2> QED BY <1>4, <2>1
<1> HIDE DEF n, Whole, CutAt
<1>7. /\ next[f[n]] # NoBlock
      /\ Whole(f) \/ \E x \in 2 .. Len(f) : f[x] = next[f[n]] /\ CutAt(f, Reach(next, next[f[n]]), x - 1)
  BY <1>4, <1>6
<1>8. /\ f \in Seq(Block) /\ Len(f) \in Nat /\ Follows(next, disk[i].first, f) /\ f # <<>>
      /\ \A k \in 1 .. Len(f) - 1 : next[f[k]] = f[k+1]
      /\ \A j, k \in 1 .. Len(f) : f[j] = f[k] => j = k
      /\ \A k \in 1 .. Len(f) : f[k] \in Block
  <2>1. f \in Seq(Block) /\ Follows(next, disk[i].first, f)
    BY DEF IsFile, Holds
  <2>2. Len(f) \in Nat /\ f # <<>> /\ \A k \in 1 .. Len(f) : f[k] \in Block
    BY <1>3, <2>1
  <2> QED BY <2>1, <2>2 DEF Follows
<1>9. n \in 1 .. Len(f) - 1 /\ n + 1 \in 2 .. Len(f) /\ n + 1 \in 1 .. Len(f) /\ next[f[n]] = f[n+1]
  <2>1. n # Len(f)
    BY <1>7, <1>8 DEF Follows
  <2>2. n \in 1 .. Len(f) - 1 /\ n + 1 \in 2 .. Len(f) /\ n + 1 \in 1 .. Len(f)
    BY <1>3, <1>8, <2>1
  <2> QED BY <1>8, <2>2
<1>10. {x \in 2 .. Len(f) : f[x] = next[f[n]]} = {n + 1}
  <2>1. \A x \in 2 .. Len(f) : f[x] = next[f[n]] => x = n + 1
    <3>1. \A x \in 2 .. Len(f) : x \in 1 .. Len(f)
      BY <1>8
    <3> QED BY <1>8, <1>9, <3>1
  <2> QED BY <1>9, <2>1
<1>11. Reach(next, next[f[n]]) = {f[k] : k \in n + 1 .. Len(f)}
  <2>1. next \in [Block -> Block \cup {NoBlock}] /\ disk[i].first \in Block \cup {NoBlock}
    BY <1>1, <1>3 DEF RecordInv, TypeOK, BlockTypeOK, DiskInode
  <2>2. Reach(next, f[n+1]) = {f[k] : k \in n + 1 .. Len(f)}
    <3>1. PICK b \in Block \cup {NoBlock} : b = disk[i].first
      BY <2>1
    <3>2. f \in Seq(Block) /\ Follows(next, b, f)
      BY <1>8, <3>1
    <3>3. n \in 1 .. Len(f) - 1
      BY <1>9
    <3> QED BY <2>1, <3>2, <3>3, RestReached
  <2> QED BY <1>9, <2>2
<1>12. PICK W : W = {f[k] : k \in n + 1 .. Len(f)}
  OBVIOUS
<1>13. /\ Wipe(W)
       /\ next' = [b \in Block |-> IF b \in W \cup {f[n]} THEN NoBlock ELSE next[b]]
       /\ opened' = [opened EXCEPT ![i] = [m EXCEPT !.list = SubSeq(f, 1, n)]]
  <2>1. ~Whole(f)
    BY <1>10 DEF Whole
  <2>2. PICK x \in 2 .. Len(f) : f[x] = next[f[n]] /\ CutAt(f, Reach(next, next[f[n]]), x - 1)
    BY <1>7, <2>1
  <2>3. x - 1 = n
    BY <1>9, <1>10, <2>2
  <2>4. CutAt(f, W, n)
    BY <1>11, <1>12, <2>2, <2>3
  <2> QED BY <2>4 DEF CutAt
<1>14. W \cup {f[n]} = {f[k] : k \in n .. Len(f)}
  <2>1. \A k \in n .. Len(f) : k = n \/ k \in n + 1 .. Len(f)
    BY <1>8, <1>9
  <2>2. n \in n .. Len(f) /\ \A k \in n + 1 .. Len(f) : k \in n .. Len(f)
    BY <1>8, <1>9
  <2> QED BY <1>12, <2>1, <2>2
<1>15. used' = used \ W
  BY <1>13 DEF Wipe
<1>16. W \subseteq used
  <2>1. ReadsFiles
    BY ReadAllIsFile
  <2>2. Elements(f) = FileChain(i)
    BY <1>1, <1>3, <2>1 DEF ReadsFiles
  <2>3. Elements(f) \subseteq used
    BY <1>1, <1>3, <2>2, OwnedBlocks DEF BlocksOwned
  <2>4. \A k \in n + 1 .. Len(f) : k \in 1 .. Len(f)
    BY <1>8, <1>9
  <2> QED BY <1>12, <2>3, <2>4 DEF Elements
<1>17. bytes' = Zeroed(W, f[n], len % BlockSize)
  <2>1. used \ used' = W
    BY <1>15, <1>16
  <2> QED BY <1>d, <2>1
<1>18. /\ \A j \in Inode \ {i} : disk'[j] = disk[j]
       /\ disk'[i].used /\ disk'[i].first = disk[i].first
  <2>1. /\ \A j \in Inode \ {i} : Flushed(i, m)[j] = disk[j]
        /\ Flushed(i, m)[i] = [used |-> TRUE, first |-> m.first, size |-> m.size]
    BY <1>1, <1>3, <1>5, FlushedType DEF RecordInv
  <2> QED BY <1>5, <1>d, <2>1
<1>19. PICK r : r = [m EXCEPT !.list = SubSeq(f, 1, n)]
  OBVIOUS
<1>20. r.count = opened[i].count /\ r.size = len /\ r.list = SubSeq(f, 1, n)
  BY <1>5, <1>19 DEF OpenInode
<1>21. opened'[i] = r /\ \A j \in Inode \ {i} : opened'[j] = opened[j]
  BY <1>1, <1>3, <1>13, <1>19 DEF RecordInv, TypeOK
<1>22. opened'[i].count = opened[i].count /\ opened'[i].size = len /\ opened'[i].list = SubSeq(f, 1, n)
  BY <1>20, <1>21
<1>23. used' = used \ {f[k] : k \in n + 1 .. Len(f)}
  BY <1>12, <1>15
<1>24. next' = [b \in Block |-> IF b \in {f[k] : k \in n .. Len(f)} THEN NoBlock ELSE next[b]]
  BY <1>13, <1>14
<1>25. bytes' = Zeroed({f[k] : k \in n + 1 .. Len(f)}, f[n], len % BlockSize)
  BY <1>12, <1>17
<1>26. \A j \in Inode \ {i} : disk'[j] = disk[j] /\ opened'[j] = opened[j]
  BY <1>18, <1>21
<1>27. CutTo(i, f, n, len)
  BY <1>3, <1>18, <1>22, <1>23, <1>24, <1>25, <1>26 DEF CutTo
<1> QED BY <1>27 DEF n

\* Truncating down, carefully, keeps the bytes in front of the new size.
LEMMA DownResizes ==
  ASSUME FileInv, RecordInv', ChainInv', NEW h \in Handle, NEW len \in Pos,
         FileTruncateDown(h, len), Careful(h, len), NEW i, i = handle[h].inode
  PROVE  Resizes(i, len)
<1>1. handle[h].rw /\ len \in 1 .. opened[i].size - 1
  BY DEF FileTruncateDown, TruncateInLastBlock, TruncateChain
<1>2. i \in Inode
  <2>1. handle[h] # NoDev
    BY <1>1 DEF NoDev
  <2> QED BY <2>1, Holder DEF FileInv
<1>3. PICK f : IsFile(i, f, Size(i))
  BY <1>2 DEF FileInv
<1>4. PICK n : n = BlocksFor(len - 1)
  OBVIOUS
<1>5. /\ len \in Nat \ {0} /\ len < Size(i) /\ len % BlockSize # 0
      /\ n \in 1 .. Len(f) /\ disk[i].first = opened[i].first
      /\ \A m : m.list = opened[i].list /\ m.first = disk[i].first => ListFor(m, n) = {f}
  <2>1. FileInv /\ Careful(h, len) /\ i = handle[h].inode /\ handle[h].rw
    BY <1>1
  <2>2. len \in 1 .. opened[i].size - 1
    BY <1>1
  <2>3. disk[i].first = opened[i].first /\ n \in 1 .. Len(f)
        /\ \A m : m.list = opened[i].list /\ m.first = disk[i].first => ListFor(m, n) = {f}
    BY <1>3, <1>4, <2>1, <2>2, DownKeeps
  <2>4. len \in Nat \ {0} /\ len < Size(i)
    BY <1>3, <1>4, <2>1, <2>2, DownKeeps
  <2>5. len % BlockSize # 0
    BY <1>3, <1>4, <2>1, <2>2, DownKeeps
  <2> QED BY <2>3, <2>4, <2>5
<1>6. bytes' = Zeroed(used \ used', f[n], len % BlockSize)
  <2>1. ListFor(opened[i], n) = {f}
    BY <1>5
  <2>2. n <= Len(f)
    BY <1>5
  <2> QED BY <1>4, <2>1, <2>2 DEF FileTruncateDown
<1>7. TruncateInLastBlock(h, len) \/ TruncateChain(h, len)
  BY DEF FileTruncateDown
<1>8. CutTo(i, f, n, len)
  BY <1>3, <1>4, <1>6, <1>7, InLastBlockCuts, ChainCuts
<1>9. PICK z : z = Size(i)
  OBVIOUS
<1>10. IsFile(i, f, z) /\ len < z
  BY <1>3, <1>5, <1>9
<1> QED BY <1>4, <1>5, <1>8, <1>10, CutResizes

-----------------------------------------------------------------------------
(* Writing.                                                                  *)

\* The bytes a write leaves: those of d at its positions in the file, and the
\* old ones everywhere else.
LEMMA StoredBytes ==
  ASSUME BytesTyped, NEW e \in Seq(Block), \A j, k \in 1 .. Len(e) : e[j] = e[k] => j = k,
         NEW pos \in Nat, NEW d \in Seq(Nat), NEW stop \in Nat, stop <= pos + Len(d),
         bytes' = Stored(e, pos, d, stop)
  PROVE  /\ BytesTyped'
         /\ \A x \in 1 .. Len(e), o \in Offset :
              bytes'[e[x]][o] = IF PosOf(x, o) \in pos .. stop - 1 THEN d[1 + PosOf(x, o) - pos]
                                ELSE bytes[e[x]][o]
         /\ \A c \in Block : c \notin Elements(e) => bytes'[c] = bytes[c]
<1> DEFINE At(b, o) == {PosOf(k, o) : k \in {x \in DOMAIN e : e[x] = b}} \cap pos .. stop - 1
           Byte(b, o) == IF At(b, o) = {} THEN bytes[b][o] ELSE d[1 + (CHOOSE p \in At(b, o) : TRUE) - pos]
<1>1. bytes' = [b \in Block |-> [o \in Offset |-> Byte(b, o)]]
  BY DEF Stored
<1>2. DOMAIN e = 1 .. Len(e) /\ Len(e) \in Nat /\ \A k \in 1 .. Len(e) : e[k] \in Block
  OBVIOUS
<1>3. \A b \in Block : bytes[b] \in [Offset -> Nat]
  BY DEF BytesTyped
<1>4. ASSUME NEW b \in Block, NEW o \in Offset PROVE Byte(b, o) \in Nat
  <2>1. CASE At(b, o) = {}
    BY <1>3, <2>1
  <2>2. CASE At(b, o) # {}
    <3>1. PICK p : p = CHOOSE u \in At(b, o) : TRUE
      OBVIOUS
    <3>2. p \in pos .. stop - 1
      BY <2>2, <3>1
    <3>3. 1 + p - pos \in 1 .. Len(d)
      <4>1. Len(d) \in Nat
        OBVIOUS
      <4> QED BY <3>2, <4>1
    <3>4. d[1 + p - pos] \in Nat
      BY <3>3
    <3> QED BY <2>2, <3>1, <3>4
  <2> QED BY <2>1, <2>2
<1>5. ASSUME NEW x \in 1 .. Len(e), NEW o \in Offset
      PROVE  Byte(e[x], o) = IF PosOf(x, o) \in pos .. stop - 1 THEN d[1 + PosOf(x, o) - pos]
                             ELSE bytes[e[x]][o]
  <2>1. {y \in DOMAIN e : e[y] = e[x]} = {x}
    BY <1>2
  <2>2. At(e[x], o) = {PosOf(x, o)} \cap pos .. stop - 1
    BY <2>1
  <2>3. PICK p : p = PosOf(x, o)
    OBVIOUS
  <2>4. CASE p \in pos .. stop - 1
    <3>1. At(e[x], o) = {p}
      BY <2>2, <2>3, <2>4
    <3>2. (CHOOSE u \in {p} : TRUE) = p
      OBVIOUS
    <3>3. Byte(e[x], o) = d[1 + p - pos]
      BY <3>1, <3>2
    <3> HIDE DEF Byte
    <3> QED BY <2>3, <2>4, <3>3
  <2>5. CASE p \notin pos .. stop - 1
    <3>1. At(e[x], o) = {}
      BY <2>2, <2>3, <2>5
    <3>2. Byte(e[x], o) = bytes[e[x]][o]
      BY <3>1
    <3> HIDE DEF Byte
    <3> QED BY <2>3, <2>5, <3>2
  <2> QED BY <2>4, <2>5
<1>6. ASSUME NEW c \in Block, c \notin Elements(e), NEW o \in Offset PROVE Byte(c, o) = bytes[c][o]
  <2>1. {y \in DOMAIN e : e[y] = c} = {}
    BY <1>2, <1>6 DEF Elements
  <2>2. At(c, o) = {}
    BY <2>1
  <2> QED BY <2>2
<1> HIDE DEF Byte
<1>7. bytes' \in [Block -> [Offset -> Nat]]
  BY <1>1, <1>4
<1>8. \A x \in 1 .. Len(e), o \in Offset : bytes'[e[x]][o] = Byte(e[x], o)
  BY <1>1, <1>2
<1>9. ASSUME NEW c \in Block, c \notin Elements(e) PROVE bytes'[c] = bytes[c]
  <2>1. bytes'[c] = [o \in Offset |-> Byte(c, o)]
    BY <1>1
  <2>2. bytes'[c] = [o \in Offset |-> bytes[c][o]]
    BY <1>6, <1>9, <2>1
  <2> QED BY <1>3, <2>2
<1>10. BytesTyped'
  BY <1>7 DEF BytesTyped, Offset
<1>11. \A x \in 1 .. Len(e), o \in Offset :
              bytes'[e[x]][o] = IF PosOf(x, o) \in pos .. stop - 1 THEN d[1 + PosOf(x, o) - pos]
                                ELSE bytes[e[x]][o]
  BY <1>5, <1>8
<1> QED BY <1>9, <1>10, <1>11

\* The blocks e hold what they held, with d written at pos up to stop.
HoldsWritten(e, pos, d, stop) ==
    \A x \in 1 .. Len(e), o \in Offset :
        bytes'[e[x]][o] = IF PosOf(x, o) \in pos .. stop - 1 THEN d[1 + PosOf(x, o) - pos]
                          ELSE bytes[e[x]][o]

\* The same, for the byte at position p.
LEMMA WrittenAt ==
  ASSUME NEW e \in Seq(Block), NEW pos \in Nat, NEW d, NEW stop, HoldsWritten(e, pos, d, stop),
         NEW p \in Nat, p < Len(e) * BlockSize
  PROVE  bytes'[e[BlocksFor(p)]][p % BlockSize]
           = IF p \in pos .. stop - 1 THEN d[1 + p - pos] ELSE bytes[e[BlocksFor(p)]][p % BlockSize]
<1>1. Len(e) \in Nat
  OBVIOUS
<1>2. PICK x \in Nat \ {0} : x = BlocksFor(p)
  BY PositionParts
<1>3. PICK o \in Offset : o = p % BlockSize
  BY PositionParts
<1>4. PosOf(x, o) = p
  BY <1>2, <1>3, PositionParts
<1>5. x \in 1 .. Len(e)
  BY <1>1, <1>2, PositionWithin
<1>6. bytes'[e[x]][o] = IF PosOf(x, o) \in pos .. stop - 1 THEN d[1 + PosOf(x, o) - pos]
                        ELSE bytes[e[x]][o]
  BY <1>5 DEF HoldsWritten
<1>7. bytes'[e[x]][o] = IF p \in pos .. stop - 1 THEN d[1 + p - pos] ELSE bytes[e[x]][o]
  BY <1>4, <1>6
<1> QED BY <1>2, <1>3, <1>7

\* A position behind the size of blank blocks holds a zero.
LEMMA BlankAt ==
  ASSUME NEW e \in Seq(Block), NEW z \in Nat, Blank(e, z), NEW p \in Nat, p < Len(e) * BlockSize, p >= z
  PROVE  bytes[e[BlocksFor(p)]][p % BlockSize] = 0
<1>1. Len(e) \in Nat
  OBVIOUS
<1>2. PICK x \in Nat \ {0} : x = BlocksFor(p)
  BY PositionParts
<1>3. PICK o \in Offset : o = p % BlockSize
  BY PositionParts
<1>4. PosOf(x, o) = p
  BY <1>2, <1>3, PositionParts
<1>5. x \in 1 .. Len(e)
  BY <1>1, <1>2, PositionWithin
<1> QED BY <1>2, <1>3, <1>4, <1>5 DEF Blank

\* The size y a write of len bytes at pos leaves of size z, in n blocks: what
\* fits of it, up to stop, was written, or nothing.
WroteUpTo(stop, z, pos, len, n, y) ==
    /\ stop \in Nat /\ stop <= pos + len /\ stop <= n * BlockSize
    /\ y \in Nat /\ z <= y /\ y <= n * BlockSize
    /\ \/ /\ BlocksFor(pos) <= n /\ pos < stop /\ stop - pos \in 1 .. len
          /\ y = IF stop > z THEN stop ELSE z
       \/ pos >= stop /\ y = z

LEMMA WrittenSize ==
  ASSUME NEW z \in Nat, NEW pos \in Nat, NEW len \in Nat \ {0}, NEW n \in Nat, z <= n * BlockSize,
         NEW stop, stop = Least(pos + len, n * BlockSize),
         NEW y, y = SizeAfterWrite(z, pos, pos + len, n)
  PROVE  WroteUpTo(stop, z, pos, len, n, y)
<1>1. PICK room \in Nat : room = n * BlockSize
  BY NodeDevAssumption
<1>2. stop \in Nat /\ stop <= pos + len /\ stop <= room /\ (stop = pos + len \/ stop = room)
  BY <1>1 DEF Least
<1>3. BlocksFor(pos) <= n <=> pos < room
  BY <1>1, PositionWithin
<1>4. y = IF BlocksFor(pos) <= n /\ stop > z THEN stop ELSE z
  BY DEF SizeAfterWrite
<1>5. CASE pos < room
  BY <1>1, <1>2, <1>3, <1>4, <1>5 DEF WroteUpTo
<1>6. CASE ~(pos < room)
  BY <1>1, <1>2, <1>3, <1>4, <1>6 DEF WroteUpTo
<1> QED BY <1>5, <1>6

\* What a file reads as after a write.
LEMMA WrittenContents ==
  ASSUME NEW e \in Seq(Block), NEW z \in Nat, z <= Len(e) * BlockSize, Blank(e, z),
         NEW pos \in Nat, NEW d \in Seq(Nat), d # <<>>,
         NEW stop, stop = Least(pos + Len(d), Len(e) * BlockSize),
         NEW y, y = SizeAfterWrite(z, pos, pos + Len(d), Len(e)), HoldsWritten(e, pos, d, stop)
  PROVE  /\ y \in Nat /\ y <= Len(e) * BlockSize /\ Blank(e, y)'
         /\ \/ Contents(e, y)' = Contents(e, z)
            \/ /\ stop - pos \in 1 .. Len(d)
               /\ Contents(e, y)' = F!Overwritten(Contents(e, z), pos, SubSeq(d, 1, stop - pos))
<1>1. Len(e) \in Nat /\ Len(d) \in Nat \ {0}
  OBVIOUS
<1>2. /\ stop \in Nat /\ stop <= pos + Len(d) /\ stop <= Len(e) * BlockSize
      /\ y \in Nat /\ z <= y /\ y <= Len(e) * BlockSize
      /\ \/ /\ BlocksFor(pos) <= Len(e) /\ pos < stop /\ stop - pos \in 1 .. Len(d)
            /\ y = IF stop > z THEN stop ELSE z
         \/ pos >= stop /\ y = z
  <2>1. PICK n \in Nat : n = Len(e)
    BY <1>1
  <2>2. PICK len \in Nat \ {0} : len = Len(d)
    BY <1>1
  <2>3. z <= n * BlockSize /\ stop = Least(pos + len, n * BlockSize)
    BY <2>1, <2>2
  <2>4. y = SizeAfterWrite(z, pos, pos + len, n)
    BY <2>1, <2>2
  <2>5. WroteUpTo(stop, z, pos, len, n, y)
    BY <2>3, <2>4, WrittenSize
  <2>6. WroteUpTo(stop, z, pos, Len(d), Len(e), y)
    BY <2>1, <2>2, <2>5
  <2> QED BY <2>6 DEF WroteUpTo
<1>3. PICK room \in Nat : room = Len(e) * BlockSize
  BY <1>1, NodeDevAssumption
<1>4. Blank(e, y)'
  <2> SUFFICES ASSUME NEW k \in 1 .. Len(e), NEW o \in Offset, PosOf(k, o) >= y
               PROVE  bytes'[e[k]][o] = 0
    BY DEF Blank, PosOf, Offset
  <2>1. PICK p \in Nat : p = PosOf(k, o)
    <3>1. k \in Nat \ {0}
      OBVIOUS
    <3> QED BY <3>1, PositionUnique
  <2>2. p >= y /\ p >= z
    BY <1>2, <2>1
  <2>3. p \notin pos .. stop - 1
    BY <1>2, <2>2
  <2>4. bytes'[e[k]][o] = bytes[e[k]][o]
    BY <2>1, <2>3 DEF HoldsWritten
  <2>5. bytes[e[k]][o] = 0
    BY <2>1, <2>2 DEF Blank
  <2> QED BY <2>4, <2>5
<1>5. ASSUME NEW k \in 1 .. y
      PROVE  bytes'[e[BlocksFor(k - 1)]][(k - 1) % BlockSize]
               = IF k - 1 \in pos .. stop - 1 THEN d[1 + (k - 1) - pos]
                 ELSE IF k <= z THEN Contents(e, z)[k] ELSE 0
  <2>1. PICK p \in Nat : p = k - 1
    BY <1>2
  <2>2. p < Len(e) * BlockSize
    BY <1>2, <1>3, <2>1
  <2>3. bytes'[e[BlocksFor(p)]][p % BlockSize]
          = IF p \in pos .. stop - 1 THEN d[1 + p - pos] ELSE bytes[e[BlocksFor(p)]][p % BlockSize]
    BY <2>2, WrittenAt
  <2>4. CASE k <= z
    <3>1. k \in 1 .. z
      BY <1>2, <2>4
    <3>2. Contents(e, z)[k] = bytes[e[BlocksFor(k - 1)]][(k - 1) % BlockSize]
      BY <3>1 DEF Contents
    <3> QED BY <2>1, <2>3, <2>4, <3>2
  <2>5. CASE ~(k <= z)
    <3>1. p >= z
      BY <1>2, <2>1, <2>5
    <3>2. bytes[e[BlocksFor(p)]][p % BlockSize] = 0
      BY <2>2, <3>1, BlankAt
    <3> QED BY <2>1, <2>3, <2>5, <3>2
  <2> QED BY <2>4, <2>5
<1>6. Contents(e, y)' = [k \in 1 .. y |-> bytes'[e[BlocksFor(k - 1)]][(k - 1) % BlockSize]]
  BY DEF Contents, BlocksFor
<1>7. Contents(e, z) \in [1 .. z -> {bytes[e[BlocksFor(k - 1)]][(k - 1) % BlockSize] : k \in 1 .. z}]
      /\ Len(Contents(e, z)) = z
  BY DEF Contents
<1>8. CASE pos >= stop /\ y = z
  <2>1. \A k \in 1 .. y : bytes'[e[BlocksFor(k - 1)]][(k - 1) % BlockSize] = Contents(e, z)[k]
    <3>1. \A k \in 1 .. y : k <= z /\ k - 1 \notin pos .. stop - 1
      BY <1>2, <1>8
    <3> QED BY <1>5, <3>1
  <2>2. Contents(e, y)' = Contents(e, z)
    BY <1>6, <1>8, <2>1 DEF Contents
  <2> QED BY <1>2, <1>4, <2>2
<1>9. CASE /\ BlocksFor(pos) <= Len(e) /\ pos < stop /\ stop - pos \in 1 .. Len(d)
           /\ y = IF stop > z THEN stop ELSE z
  <2>1. PICK w : w = SubSeq(d, 1, stop - pos)
    OBVIOUS
  <2>2. Len(w) = stop - pos /\ \A k \in 1 .. stop - pos : w[k] = d[k]
    BY <1>9, <2>1
  <2>3. pos + Len(w) = stop
    BY <1>2, <2>2
  <2>4. F!Overwritten(Contents(e, z), pos, w)
          = [k \in 1 .. IF stop > z THEN stop ELSE z |->
               IF k \in pos + 1 .. stop THEN w[k - pos] ELSE IF k <= z THEN Contents(e, z)[k] ELSE 0]
    BY <1>7, <2>3 DEF F!Overwritten
  <2>5. F!Overwritten(Contents(e, z), pos, w)
          = [k \in 1 .. y |->
               IF k \in pos + 1 .. stop THEN w[k - pos] ELSE IF k <= z THEN Contents(e, z)[k] ELSE 0]
    BY <1>9, <2>4
  <2>6. ASSUME NEW k \in 1 .. y
        PROVE  bytes'[e[BlocksFor(k - 1)]][(k - 1) % BlockSize]
                 = IF k \in pos + 1 .. stop THEN w[k - pos] ELSE IF k <= z THEN Contents(e, z)[k] ELSE 0
    <3>1. k - 1 \in pos .. stop - 1 <=> k \in pos + 1 .. stop
      BY <1>2
    <3>2. ASSUME k \in pos + 1 .. stop PROVE w[k - pos] = d[1 + (k - 1) - pos]
      <4>1. k - pos \in 1 .. stop - pos /\ 1 + (k - 1) - pos = k - pos
        BY <1>2, <3>2
      <4> QED BY <2>2, <4>1
    <3> QED BY <1>5, <3>1, <3>2
  <2>7. Contents(e, y)' = F!Overwritten(Contents(e, z), pos, w)
    BY <1>6, <2>5, <2>6
  <2> QED BY <1>2, <1>4, <1>9, <2>1, <2>7
<1> QED BY <1>2, <1>8, <1>9

\* A write puts the first bytes of its data, as many as there are blocks for,
\* over the file, and zeroes between the old end and its position; a container
\* too full for any leaves the file as it is.
Overwrites(i, pos, d) ==
    /\ FileInv'
    /\ \/ FileContents' = FileContents
       \/ \E n \in 1 .. Len(d) :
            FileContents' = [FileContents EXCEPT ![i] = F!Overwritten(@, pos, SubSeq(d, 1, n))]
    /\ i \in Inode /\ disk[i].used /\ \A j \in Inode : disk'[j].used <=> disk[j].used

LEMMA WriteOverwrites ==
  ASSUME FileInv, RecordInv', ChainInv', NEW h \in Handle, NEW pos \in Pos, NEW d \in Data,
         pos + Len(d) <= MaxPos, FileWrite(h, pos, d), NEW i, i = handle[h].inode
  PROVE  Overwrites(i, pos, d)
<1>1. RecordInv /\ ChainInv /\ BytesTyped /\ FreeBlank /\ TypeOK
  BY DEF FileInv, RecordInv
<1>2. PICK own \in Owner : Owned(own)
  BY <1>1 DEF ChainInv
<1>3. d \in Seq(Nat) /\ d # <<>> /\ Len(d) \in Nat \ {0}
  BY FileDataAssumption
<1>4. pos \in Nat /\ Len(d) \in Pos
  BY <1>3, NodeDevAssumption DEF Pos
<1>5. WriteDev(h, pos, Len(d))
  BY DEF FileWrite
<1>6. PICK c, l, s, e : WriteParts(own, h, c, pos, Len(d), l, s, e)
  BY <1>1, <1>2, <1>4, <1>5, WriteHasParts
<1>7. /\ i = c /\ i \in Inode /\ opened[i].writer # NoHandle
      /\ l \in ListFor(opened[i], 1) /\ opened[i].first = disk[i].first /\ l \in Seq(Block)
      /\ s \in NewBlocks(l, Least(BlocksFor((pos + Len(d)) - 1), BlockCount))
      /\ e = Extended(l, s) /\ e \in Seq(Block) /\ MarkUsed(s) /\ next' = Linked(l, s)
      /\ \A j \in Inode \ {i} : disk'[j] = disk[j] /\ opened'[j] = opened[j]
      /\ opened'[i].list = e /\ opened'[i].count # 0
      /\ opened'[i].size = SizeAfterWrite(opened[i].size, pos, pos + Len(d), Len(e))
      /\ disk'[i].first = IF disk[i].first = NoBlock /\ e # <<>> THEN e[1] ELSE disk[i].first
  BY <1>6 DEF WriteParts
<1>8. opened[i].count \in Nat \ {0} /\ opened'[i].count \in Nat \ {0}
  <2>1. handle[h] # NoDev
    BY <1>6 DEF WriteParts, NoDev
  <2>2. opened[i].count \in Nat \ {0}
    BY <1>1, <2>1, Holder
  <2>3. opened'[i].count \in Nat
    BY <1>7 DEF RecordInv, TypeOK, OpenInode
  <2> QED BY <1>7, <2>2, <2>3
<1>9. disk[i].used /\ disk'[i].used
  BY <1>1, <1>7, <1>8 DEF RecordInv, RecordInSync
<1>10. PICK n \in Nat \ {0} : n = Least(BlocksFor((pos + Len(d)) - 1), BlockCount)
  <2>1. Len(d) > 0
    BY <1>3
  <2> QED BY <1>4, <2>1, LastBlockType
<1>11. PICK z : z = Size(i)
  OBVIOUS
<1>12. z \in Nat /\ z = opened[i].size
  BY <1>1, <1>7, <1>8, <1>11, SizeType DEF Size
<1>13. IsFile(i, l, z)
  <2>1. PICK f : IsFile(i, f, z)
    BY <1>7, <1>11 DEF FileInv
  <2>2. ListFor(opened[i], 1) = {f}
    BY <1>1, <1>7, <2>1, ListFound, BlockCountAssumption
  <2> QED BY <1>7, <2>1, <2>2
<1>14. GrownBy(i, l, e)
  <2>1. n \in Nat /\ s \in NewBlocks(l, n)
    BY <1>7, <1>10
  <2> QED BY <1>1, <1>7, <1>13, <2>1, GrownChain
<1>15. /\ Len(l) \in Nat /\ Len(e) \in Nat /\ z <= Len(e) * BlockSize /\ Blank(e, z)
       /\ Contents(e, z) = Contents(l, z)
  BY <1>7, <1>13, <1>14, GrownBlank
<1>16. PICK stop : stop = Least(pos + Len(d), Len(e) * BlockSize)
  OBVIOUS
<1>17. bytes' = Stored(e, pos, d, stop)
  BY <1>7, <1>16 DEF FileWrite
<1>18. stop \in Nat /\ stop <= pos + Len(d)
  <2>1. pos + Len(d) \in Nat /\ Len(e) * BlockSize \in Nat
    BY <1>3, <1>4, <1>15, NodeDevAssumption
  <2> QED BY <1>16, <2>1 DEF Least
<1>19. BytesTyped' /\ HoldsWritten(e, pos, d, stop) /\ \A b \in Block : b \notin Elements(e) => bytes'[b] = bytes[b]
  <2>1. \A j, k \in 1 .. Len(e) : e[j] = e[k] => j = k
    BY <1>14 DEF GrownBy
  <2>2. BytesTyped /\ e \in Seq(Block) /\ pos \in Nat /\ d \in Seq(Nat) /\ stop \in Nat
        /\ stop <= pos + Len(d) /\ bytes' = Stored(e, pos, d, stop)
    BY <1>1, <1>3, <1>4, <1>7, <1>17, <1>18
  <2>3. /\ BytesTyped'
        /\ \A x \in 1 .. Len(e), o \in Offset :
             bytes'[e[x]][o] = IF PosOf(x, o) \in pos .. stop - 1 THEN d[1 + PosOf(x, o) - pos]
                               ELSE bytes[e[x]][o]
        /\ \A b \in Block : b \notin Elements(e) => bytes'[b] = bytes[b]
    BY <2>1, <2>2, StoredBytes
  <2> QED BY <2>3 DEF HoldsWritten
<1>20. \A b \in used : b \notin Elements(l) => b \notin Elements(e)
  <2> SUFFICES ASSUME NEW b \in used, NEW k \in 1 .. Len(e), e[k] = b, b \notin Elements(l) PROVE FALSE
    BY DEF Elements
  <2>1. CASE k \in 1 .. Len(l)
    BY <1>14, <2>1 DEF GrownBy, Elements
  <2>2. CASE k \notin 1 .. Len(l)
    <3>1. k \in Len(l) + 1 .. Len(e)
      BY <1>15, <2>2
    <3> QED BY <1>14, <3>1 DEF GrownBy
  <2> QED BY <2>1, <2>2
<1>21. \A b \in used : b \notin Elements(l) => next'[b] = next[b] /\ bytes'[b] = bytes[b]
  <2>1. used \subseteq Block
    BY <1>1 DEF TypeOK, BlockTypeOK
  <2> QED BY <1>14, <1>19, <1>20, <2>1 DEF GrownBy
<1>22. FreeBlank'
  <2>1. Elements(e) \subseteq used'
    <3>1. Elements(e) = FileChain(i)'
      <4>1. next' \in [Block -> Block \cup {NoBlock}] /\ disk'[i].first \in Block \cup {NoBlock}
        BY <1>7 DEF RecordInv, TypeOK, BlockTypeOK, DiskInode
      <4>2. Follows(next', disk'[i].first, e)
        BY <1>14 DEF GrownBy, Holds
      <4> QED BY <1>7, <4>1, <4>2, WholeChain DEF FileChain
    <3>2. BlocksOwned'
      BY OwnedBlocks, PTL
    <3>3. FileChain(i)' \subseteq used'
      BY <1>7, <3>2 DEF BlocksOwned, Inode
    <3> QED BY <3>1, <3>3
  <2>2. used \subseteq used'
    BY <1>14 DEF GrownBy
  <2>3. \A b \in Block \ used' : b \in Block \ used /\ bytes'[b] = bytes[b]
    BY <1>19, <2>1, <2>2
  <2> QED BY <1>1, <2>3 DEF FreeBlank, Offset
<1>23. PICK y : y = SizeAfterWrite(z, pos, pos + Len(d), Len(e))
  OBVIOUS
<1>24. /\ y \in Nat /\ y <= Len(e) * BlockSize /\ Blank(e, y)'
       /\ \/ Contents(e, y)' = Contents(e, z)
          \/ /\ stop - pos \in 1 .. Len(d)
             /\ Contents(e, y)' = F!Overwritten(Contents(e, z), pos, SubSeq(d, 1, stop - pos))
  BY <1>3, <1>4, <1>7, <1>12, <1>15, <1>16, <1>19, <1>23, WrittenContents
<1>25. IsFile(i, e, y)'
  <2>1. Holds(i, e)'
    BY <1>14 DEF GrownBy
  <2>2. Size(i)' = y
    BY <1>7, <1>8, <1>12, <1>23 DEF Size
  <2> QED BY <1>7, <1>24, <2>1, <2>2 DEF IsFile
<1>26. /\ FileInv' /\ FileContents[i] = Contents(l, z)
       /\ FileContents' = [FileContents EXCEPT ![i] = Contents(e, y)']
  <2>1. IsFile(i, l, Size(i)) /\ BytesTyped'
    BY <1>11, <1>13, <1>19
  <2>2. \A j \in Inode \ {i} : disk'[j] = disk[j] /\ opened'[j] = opened[j]
    BY <1>7
  <2> QED BY <1>7, <1>11, <1>21, <1>22, <1>25, <2>1, <2>2, OneFileChanged
<1>27. \/ FileContents' = FileContents
       \/ \E x \in 1 .. Len(d) :
            FileContents' = [FileContents EXCEPT ![i] = F!Overwritten(@, pos, SubSeq(d, 1, x))]
  <2>1. CASE Contents(e, y)' = Contents(e, z)
    <3>1. FileContents' = [FileContents EXCEPT ![i] = FileContents[i]]
      BY <1>15, <1>26, <2>1
    <3> QED BY <3>1 DEF FileContents
  <2>2. CASE /\ stop - pos \in 1 .. Len(d)
             /\ Contents(e, y)' = F!Overwritten(Contents(e, z), pos, SubSeq(d, 1, stop - pos))
    <3>1. FileContents' = [FileContents EXCEPT ![i] = F!Overwritten(@, pos, SubSeq(d, 1, stop - pos))]
      BY <1>15, <1>26, <2>2
    <3> QED BY <2>2, <3>1
  <2> QED BY <1>24, <2>1, <2>2
<1>28. \A j \in Inode : disk'[j].used <=> disk[j].used
  <2>1. \A j \in Inode \ {i} : disk'[j].used <=> disk[j].used
    BY <1>7
  <2> QED BY <1>9, <2>1
<1> QED BY <1>7, <1>9, <1>26, <1>27, <1>28 DEF Overwrites

-----------------------------------------------------------------------------
(* The steps of FileSpec are steps of Files, or change nothing Files knows.  *)

\* Every call is one of NodeDev, so the records and chains stay sound.
LEMMA FileNextIsNext == [FileNext]_fileVars => [Next]_vars
<1>1. ASSUME NEW h \in Handle, NEW pos \in Pos, NEW d \in Data, pos + Len(d) <= MaxPos, FileWrite(h, pos, d)
      PROVE  Next
  <2>1. Len(d) \in Pos
    <3>1. d \in Seq(Nat)
      BY FileDataAssumption
    <3> QED BY <1>1, <3>1, NodeDevAssumption DEF Pos
  <2>2. WriteDev(h, pos, Len(d))
    BY <1>1 DEF FileWrite
  <2> QED BY <1>1, <2>1, <2>2 DEF Next, NextNoTrunc
<1>2. ASSUME NEW h \in Handle, NEW len \in Pos, FileTruncate(h, len) PROVE Next
  <2>1. \/ TruncateToZero(h)
        \/ TruncateUp(h, len) \/ TruncateInLastBlock(h, len) \/ TruncateChain(h, len)
    BY <1>2 DEF FileTruncate, FileTruncateToZero, FileTruncateUp, FileTruncateDown
  <2> QED BY <2>1 DEF Next, Truncate
<1>3. ASSUME NEW i \in Inode, FileUnlink(i) PROVE Next
  BY <1>3 DEF FileUnlink, Next, NextNoTrunc
<1>4. UNCHANGED fileVars => UNCHANGED vars
  BY DEF fileVars, vars
<1>5. ASSUME NEW h \in Handle,
             \/ CreateDev(h) \/ FlushDev(h) \/ CloseDev(h)
             \/ \E i \in Inode, w \in BOOLEAN : OpenDev(h, i, w)
             \/ \E pos \in Pos : ReadDev(h, pos)
      PROVE  Next
  BY <1>5 DEF Next, NextNoTrunc
<1> QED BY <1>1, <1>2, <1>3, <1>4, <1>5 DEF FileNext

LEMMA FileInitMaps == FileInit => FileInv /\ F!Init
<1> SUFFICES ASSUME FileInit PROVE FileInv /\ F!Init
  OBVIOUS
<1>1. Init /\ bytes = [b \in Block |-> [o \in Offset |-> 0]]
  BY DEF FileInit
<1>2. RecordInv /\ ChainInv
  BY <1>1, RecordInit, ChainInit
<1>3. BytesTyped /\ FreeBlank
  BY <1>1 DEF BytesTyped, FreeBlank
<1>4. ASSUME NEW i \in Inode PROVE IsFile(i, <<>>, 0) /\ Size(i) = 0 /\ ReadAll(i) = <<>> /\ ~disk[i].used
  <2>1. disk[i] = [used |-> FALSE, first |-> NoBlock, size |-> 0] /\ opened[i] = NotOpen
    BY <1>1 DEF Init
  <2>2. Emptied(i)
    BY <2>1 DEF Emptied, Size, NotOpen
  <2>3. IsFile(i, <<>>, 0) /\ Contents(<<>>, 0) = <<>>
    BY <2>2, EmptiedFile DEF EmptiedIsEmpty
  <2>4. ReadAll(i) = <<>>
    BY <1>2, <2>3, ReadAllIsFile DEF ReadsFiles
  <2> QED BY <2>1, <2>2, <2>3, <2>4 DEF Emptied
<1>5. FileInv
  BY <1>2, <1>3, <1>4 DEF FileInv
<1>6. {i \in Inode : disk[i].used} = {} /\ [i \in Inode |-> ReadAll(i)] = [i \in Inode |-> <<>>]
  BY <1>4
<1> QED BY <1>5, <1>6 DEF F!Init

\* What Files is told stays the same.
LEMMA Stutters ==
  ASSUME FileContents' = FileContents, \A j \in Inode : disk'[j].used <=> disk[j].used
  PROVE  UNCHANGED F!vars
<1>1. {j \in Inode : disk'[j].used} = {j \in Inode : disk[j].used}
  OBVIOUS
<1> QED BY <1>1 DEF F!vars, FileContents, Inode

\* A call that changes one file as a step of Files does is that step, or leaves
\* the file as it was.
LEMMA ResizeMaps ==
  ASSUME NEW i, NEW len \in Pos, Resizes(i, len)
  PROVE  [F!Next]_(F!vars)
<1>1. /\ FileContents' = [FileContents EXCEPT ![i] = F!Resized(@, len)]
      /\ i \in Inode /\ disk[i].used /\ \A j \in Inode : disk'[j].used <=> disk[j].used
  BY DEF Resizes
<1>2. CASE FileContents' = FileContents
  BY <1>1, <1>2, Stutters
<1>3. CASE FileContents' # FileContents
  <2>1. FileContents'[i] # FileContents[i]
    BY <1>1, <1>3 DEF FileContents
  <2>2. {j \in Inode : disk'[j].used} = {j \in Inode : disk[j].used} /\ i \in {j \in Inode : disk[j].used}
    BY <1>1
  <2>3. F!Truncate(i, len)
    BY <1>1, <2>2 DEF F!Truncate, FileContents, Inode
  <2> QED BY <1>1, <2>1, <2>3 DEF F!Next, FileContents, Inode, Pos
<1> QED BY <1>2, <1>3

LEMMA OverwriteMaps ==
  ASSUME NEW i, NEW pos \in Pos, NEW d \in Data, Overwrites(i, pos, d)
  PROVE  [F!Next]_(F!vars)
<1>1. /\ \/ FileContents' = FileContents
         \/ \E n \in 1 .. Len(d) :
              FileContents' = [FileContents EXCEPT ![i] = F!Overwritten(@, pos, SubSeq(d, 1, n))]
      /\ i \in Inode /\ disk[i].used /\ \A j \in Inode : disk'[j].used <=> disk[j].used
  BY DEF Overwrites
<1>2. CASE FileContents' = FileContents
  BY <1>1, <1>2, Stutters
<1>3. CASE FileContents' # FileContents
  <2>1. PICK n \in 1 .. Len(d) :
           FileContents' = [FileContents EXCEPT ![i] = F!Overwritten(@, pos, SubSeq(d, 1, n))]
    BY <1>1, <1>3
  <2>2. FileContents'[i] # FileContents[i]
    BY <1>1, <1>3, <2>1 DEF FileContents
  <2>3. {j \in Inode : disk'[j].used} = {j \in Inode : disk[j].used} /\ i \in {j \in Inode : disk[j].used}
    BY <1>1
  <2>4. F!Write(i, pos, d)
    BY <2>1, <2>3 DEF F!Write, FileContents, Inode
  <2> QED BY <1>1, <2>2, <2>4 DEF F!Next, FileContents, Inode, Pos
<1> QED BY <1>2, <1>3

LEMMA FileStep == FileInv /\ [FileNext]_fileVars => FileInv' /\ [F!Next]_(F!vars)
<1> SUFFICES ASSUME FileInv, [FileNext]_fileVars PROVE FileInv' /\ [F!Next]_(F!vars)
  OBVIOUS
<1>1. RecordInv /\ ChainInv /\ TypeOK
  BY DEF FileInv, RecordInv
<1>2. RecordInv' /\ ChainInv'
  BY <1>1, FileNextIsNext, RecordNext, ChainNext
<1>3. ASSUME NEW h \in Handle, CreateDev(h), UNCHANGED bytes PROVE FileInv' /\ [F!Next]_(F!vars)
  <2>1. PICK i \in FreeInodes :
          /\ disk' = [disk EXCEPT ![i].used = TRUE]
          /\ opened' = [opened EXCEPT ![i] = WithOpener(i, disk[i], h, TRUE)]
    BY <1>3 DEF CreateDev
  <2>2. i \in Inode /\ ~disk[i].used
    BY <2>1 DEF FreeInodes
  <2>3. UNCHANGED <<used, next, bytes>>
    BY <1>3 DEF CreateDev, blockVars
  <2>4. FileInv' /\ FileContents' = FileContents
    BY <1>2, <2>1, <2>2, <2>3, OpenKeeps
  <2>5. {j \in Inode : disk'[j].used} = {j \in Inode : disk[j].used} \cup {i}
    <3>1. disk \in [Inode -> DiskInode]
      BY <1>1 DEF TypeOK
    <3>2. /\ \A j \in Inode \ {i} : disk'[j] = disk[j]
          /\ disk'[i] = [disk[i] EXCEPT !.used = TRUE]
      BY <2>1, <2>2, <3>1
    <3>3. disk'[i].used
      BY <2>2, <3>1, <3>2 DEF DiskInode
    <3> QED BY <2>2, <3>2, <3>3
  <2>6. F!Create(i)
    BY <2>2, <2>4, <2>5 DEF F!Create, FileContents, Inode
  <2> QED BY <2>2, <2>4, <2>6 DEF F!Next
<1>4. ASSUME NEW h \in Handle, FlushDev(h) \/ CloseDev(h), UNCHANGED bytes
      PROVE  FileInv' /\ [F!Next]_(F!vars)
  <2>1. FileInv' /\ FileContents' = FileContents
    BY <1>2, <1>4, CloseKeeps
  <2>2. \A j \in Inode : disk'[j].used <=> disk[j].used
    <3>1. PICK i : i = handle[h].inode
      OBVIOUS
    <3>2. disk' = disk \/ (handle[h].rw /\ disk' = Flushed(i, opened[i]))
      BY <1>4, <3>1 DEF FlushDev, CloseDev
    <3>3. CASE handle[h].rw /\ disk' = Flushed(i, opened[i])
      <4>1. i \in Inode /\ opened[i] \in OpenInode /\ disk[i].used
        BY <1>1, <3>1, <3>3, Holder, OpenedType DEF NoDev
      <4>2. /\ \A j \in Inode \ {i} : disk'[j] = disk[j]
            /\ disk'[i] = [used |-> TRUE, first |-> opened[i].first, size |-> opened[i].size]
        BY <1>1, <3>3, <4>1, FlushedType
      <4>3. disk'[i].used
        BY <4>2
      <4> QED BY <4>1, <4>2, <4>3
    <3> QED BY <3>2, <3>3
  <2> QED BY <2>1, <2>2, Stutters
<1>5. ASSUME NEW h \in Handle, NEW i \in Inode, NEW w \in BOOLEAN, OpenDev(h, i, w), UNCHANGED bytes
      PROVE  FileInv' /\ [F!Next]_(F!vars)
  <2>1. /\ opened' = [opened EXCEPT ![i] = WithOpener(i, disk[i], h, w)]
        /\ disk' = disk /\ UNCHANGED <<used, next, bytes>>
    BY <1>5 DEF OpenDev, blockVars
  <2>2. FileInv' /\ FileContents' = FileContents
    BY <1>2, <2>1, OpenKeeps
  <2> QED BY <2>1, <2>2, Stutters
<1>6. ASSUME NEW h \in Handle, NEW pos \in Pos, ReadDev(h, pos), UNCHANGED bytes
      PROVE  FileInv' /\ [F!Next]_(F!vars)
  <2>1. FileInv' /\ FileContents' = FileContents
    BY <1>2, <1>6, ReadKeeps
  <2>2. disk' = disk
    BY <1>6 DEF ReadDev
  <2> QED BY <2>1, <2>2, Stutters
<1>7. ASSUME NEW h \in Handle, NEW pos \in Pos, NEW d \in Data, pos + Len(d) <= MaxPos, FileWrite(h, pos, d)
      PROVE  FileInv' /\ [F!Next]_(F!vars)
  <2>1. PICK i : i = handle[h].inode
    OBVIOUS
  <2>2. Overwrites(i, pos, d)
    BY <1>2, <1>7, <2>1, WriteOverwrites
  <2> QED BY <2>2, OverwriteMaps DEF Overwrites
<1>8. ASSUME NEW h \in Handle, NEW len \in Pos, FileTruncate(h, len)
      PROVE  FileInv' /\ [F!Next]_(F!vars)
  <2>1. PICK i : i = handle[h].inode
    OBVIOUS
  <2>2. Resizes(i, len)
    <3>1. CASE len = 0 /\ FileTruncateToZero(h)
      <4>1. /\ FileInv' /\ FileContents' = [FileContents EXCEPT ![i] = <<>>]
            /\ i \in Inode /\ disk[i].used /\ \A j \in Inode : disk'[j].used <=> disk[j].used
        BY <1>2, <2>1, <3>1, ZeroEmpties DEF FileTruncateToZero
      <4>2. F!Resized(FileContents[i], len) = <<>>
        BY <3>1 DEF F!Resized
      <4> QED BY <4>1, <4>2 DEF Resizes
    <3>2. CASE FileTruncateUp(h, len) /\ Careful(h, len)
      BY <1>2, <2>1, <3>2, UpResizes DEF FileTruncateUp
    <3>3. CASE FileTruncateDown(h, len) /\ Careful(h, len)
      BY <1>2, <2>1, <3>3, DownResizes
    <3> QED BY <1>8, <3>1, <3>2, <3>3 DEF FileTruncate
  <2> QED BY <2>2, ResizeMaps DEF Resizes
<1>9. ASSUME NEW i \in Inode, FileUnlink(i) PROVE FileInv' /\ [F!Next]_(F!vars)
  <2>1. /\ FileInv' /\ FileContents' = [FileContents EXCEPT ![i] = <<>>]
        /\ disk[i].used /\ ~disk'[i].used /\ \A j \in Inode \ {i} : disk'[j] = disk[j]
    BY <1>2, <1>9, UnlinkEmpties
  <2>2. /\ {j \in Inode : disk'[j].used} = {j \in Inode : disk[j].used} \ {i}
        /\ i \in {j \in Inode : disk[j].used}
    BY <2>1
  <2>3. F!Remove(i)
    BY <2>1, <2>2 DEF F!Remove, FileContents, Inode
  <2> QED BY <2>1, <2>3 DEF F!Next
<1>10. CASE UNCHANGED fileVars
  <2>1. /\ used' = used /\ next' = next /\ disk' = disk /\ opened' = opened /\ bytes' = bytes
    BY <1>10 DEF fileVars
  <2>2. BytesTyped' /\ FreeBlank'
    BY <2>1 DEF FileInv, BytesTyped, FreeBlank, Offset
  <2>3. FileInv' /\ FileContents' = FileContents
    BY <1>2, <2>1, <2>2 DEF FileInv, IsFile, Holds, Size, Blank, Offset, PosOf, FileContents,
                            ReadAll, BlocksRead, ChainLists, BlocksFor, Inode
  <2> QED BY <2>1, <2>3, Stutters
<1> QED BY <1>3, <1>4, <1>5, <1>6, <1>7, <1>8, <1>9, <1>10 DEF FileNext

\* With a client that keeps off the truncations whefs_nodedev.c does wrong, the
\* block list an opened inode caches is all of its file, the blocks of a file
\* reach to its size, and what lies behind the size, or in a block the allocator
\* may hand out, holds zeroes.
THEOREM FileDataTheorem == FileSpec => []FileInv
<1>1. FileInit => FileInv
  BY FileInitMaps
<1>2. FileInv /\ [FileNext]_fileVars => FileInv'
  BY FileStep
<1> QED BY <1>1, <1>2, PTL DEF FileSpec

\* The pseudofiles of whefs_nodedev.c are what whefs.h promises: strings of bytes
\* of their own.  Every call on any device either does to one file what Files
\* says, or leaves what a read of any file returns as it was.
THEOREM FilesTheorem == FileSpec => FilesSpec
<1>1. FileInit => FileInv /\ F!Init
  BY FileInitMaps
<1>2. FileInv /\ [FileNext]_fileVars => FileInv' /\ [F!Next]_(F!vars)
  BY FileStep
<1> QED BY <1>1, <1>2, PTL DEF FileSpec, FilesSpec, F!Spec

\* FileData only adds the bytes to the calls of whefs_nodedev.c: what the theorems
\* about NodeDev say of every client holds of its careful ones.
THEOREM FileCallsAreCalls == FileSpec => Spec
<1>1. FileInit => Init
  BY DEF FileInit
<1>2. [FileNext]_fileVars => [Next]_vars
  BY FileNextIsNext
<1> QED BY <1>1, <1>2, PTL DEF FileSpec, Spec

\* For such a client the block list an opened inode caches (blocks.list of
\* whefs_inode_block_list_load and its users) is its whole chain, also after
\* truncations: only those that Careful excludes cut it short.
THEOREM CarefulListsComplete == FileSpec => []ListComplete
<1>1. FileInv => ListComplete
  <2> SUFFICES ASSUME FileInv, NEW i \in Inode, opened[i].list # <<>>
               PROVE  Len(opened[i].list) = Cardinality(FileChain(i))
    BY DEF ListComplete
  <2>1. PICK l : IsFile(i, l, Size(i))
    BY DEF FileInv
  <2>2. opened[i].list = l /\ l \in Seq(Block) /\ Follows(next, disk[i].first, l)
    BY <2>1 DEF IsFile, Holds
  <2>3. next \in [Block -> Block \cup {NoBlock}] /\ disk[i].first \in Block \cup {NoBlock}
    BY DEF FileInv, RecordInv, TypeOK, BlockTypeOK, DiskInode
  <2> QED BY <2>2, <2>3, WholeChain DEF FileChain
<1> QED BY <1>1, FileDataTheorem, PTL
=============================================================================
