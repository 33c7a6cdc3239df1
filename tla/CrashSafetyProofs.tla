-------------------------- MODULE CrashSafetyProofs --------------------------
(***************************************************************************)
(* Theorems about CrashSafety: what every crash between two writes of a     *)
(* call leaves on disk, for any number of blocks, inodes and crashes.       *)
(*                                                                          *)
(* The invariant says of the sound files, the ones no torn wipe may have    *)
(* harmed, what it would say of every file if no wipe were ever torn; and   *)
(* that a call on any other file writes to no block a sound one reaches.    *)
(***************************************************************************)
EXTENDS CrashSafety, BlockStoreProofs

\* The records of the writes a call makes.
BlockRecord == [kind: {"block"}, id: Block, used: BOOLEAN, next: Block \cup {NoBlock}]
InodeRecord == [kind: {"inode"}, id: Inode, rec: DiskInode]
Record == BlockRecord \cup InodeRecord

TypeInv ==
    /\ TypeOK
    /\ todo \in Seq(Record)
    /\ IF todo = <<>> THEN busy = Idle ELSE busy.inode \in Inode /\ busy.op \in {"write", "wipe"}
    /\ \A i \in Inode : (~mem[i].open => mem[i] = NotOpened) /\ (~disk[i].used => disk[i] = Unused)

Sound == Inode \ spoiled

\* The call in progress still has to write records of inode i; it wipes a part of i.
Changing(i) == todo # <<>> /\ busy.inode = i
Wiping(i) == Changing(i) /\ busy.op = "wipe"

\* An opened inode that no call is changing is what the disk says.
MemInv ==
    \A i \in Sound : mem[i].open /\ ~Changing(i) =>
        /\ disk[i].used /\ mem[i].first = disk[i].first
        /\ Follows(next, disk[i].first, mem[i].list)

\* Nothing of a chain was cached before it was whole.
CleanInv == \A i \in Sound : mem[i].unmarked = {} /\ mem[i].after = NoBlock

\* Files do not share blocks, and theirs are marked used.
ApartInv == \A i, j \in Sound : i # j => FileChain(i) \cap FileChain(j) = {}
MarkedInv == \A i \in Sound : Wiping(i) \/ FileChain(i) \subseteq used

SizeInv ==
    \A i \in Sound \ grown :
        /\ mem[i].open => mem[i].size <= Len(mem[i].list)
        /\ Wiping(i) \/ disk[i].size <= Cardinality(FileChain(i))

\* The block a pending write is about to lead to, or to free.
Led(w) == IF w.kind = "block" THEN IF w.used THEN w.next ELSE w.id ELSE w.rec.first
Leading(t) == {Led(t[k]) : k \in 1 .. Len(t)}
Spare == Leading(todo)
Leaked == (used \ Reachable) \ Spare

LeakInv == ~torn => Cardinality(Leaked) <= crashes

\* While no wipe was torn every file is sound, and no free block leads on.
UntornInv == ~torn => spoiled = {} /\ \A b \in Block \ used : next[b] = NoBlock

\* The blocks no sound file reaches.
Harmless == {b \in Block : \A j \in Sound : b \notin FileChain(j)}

\* The writes w are of inode i and of blocks of S only.
Only(i, S, w) ==
    \A k \in 1 .. Len(w) :
        IF w[k].kind = "block" THEN w[k].id \in S
        ELSE w[k].id = i /\ (~w[k].rec.used => w[k].rec = Unused)

\* What a call on a spoiled inode has left to write.
Tainted(i) == Only(i, Harmless, todo)

\* What a call that grows, creates or closes inode i has left to write: its
\* record only, or what links a new block b behind its list p.
Recording(i, r) ==
    /\ todo = <<InodeWrite(i, r)>>
    /\ r.used /\ r.first = disk[i].first
    /\ i \in grown \/ r.size <= Cardinality(FileChain(i))
    /\ mem[i].open => mem[i].first = r.first /\ Follows(next, r.first, mem[i].list)

Link(i, p, b, r) == IF p = <<>> THEN InodeWrite(i, r) ELSE BlockWrite(p[Len(p)], TRUE, b)

Extending(i, p, b, r) ==
    /\ mem[i].open /\ disk[i].used /\ mem[i].list = Append(p, b) /\ Follows(next, disk[i].first, p)
    /\ mem[i].first = IF p = <<>> THEN b ELSE disk[i].first
    /\ b \in Harmless
    /\ r.used /\ r.first = b /\ (i \in grown \/ p # <<>> \/ r.size <= 1)
    /\ \/ todo = <<Link(i, p, b, r)>> /\ b \in used /\ next[b] = NoBlock
       \/ /\ todo = <<BlockWrite(b, TRUE, NoBlock), Link(i, p, b, r)>>
          /\ b \notin used
       \/ \E q \in DiskInode :
          /\ todo = <<InodeWrite(i, q), BlockWrite(b, TRUE, NoBlock), Link(i, p, b, r)>>
          /\ b \notin used /\ q.used /\ q.first = disk[i].first /\ i \in grown

\* What a call that wipes has left: blocks to free, then the write that ends
\* the chain behind the blocks kept, or that clears the record.
Freeing(t) == {k \in 1 .. Len(t) - 1 : t[k].kind = "block"}
Freed(t) == {t[k].id : k \in Freeing(t)}
Doomed == Freed(todo)

LastWrite(i) ==
    IF mem[i].open THEN BlockWrite(mem[i].list[Len(mem[i].list)], TRUE, NoBlock)
    ELSE InodeWrite(i, Unused)

KeptList(i) ==
    /\ mem[i].list # <<>>
    /\ mem[i].first = disk[i].first /\ mem[i].list[1] = disk[i].first
    /\ \A k \in 1 .. Len(mem[i].list) - 1 : next[mem[i].list[k]] = mem[i].list[k+1]
    /\ \A j, k \in 1 .. Len(mem[i].list) : mem[i].list[j] = mem[i].list[k] => j = k
    /\ Elements(mem[i].list) \subseteq used
    /\ todo[1].kind = "inode" \/ disk[i].size = mem[i].size

Shrinking(i) ==
    /\ disk[i].used
    /\ todo[Len(todo)] = LastWrite(i)
    /\ \A k \in 1 .. Len(todo) - 1 :
         \/ todo[k] = BlockWrite(todo[k].id, FALSE, NoBlock)
         \/ k = 1 /\ mem[i].open /\ todo[1] = InodeWrite(i, RecordOf(mem[i]))
    /\ mem[i].open => KeptList(i)
    /\ FileChain(i) \cap used \subseteq Elements(mem[i].list) \cup Doomed
    /\ Doomed \cap Elements(mem[i].list) = {}
    /\ \A j \in Sound : j # i => Doomed \cap FileChain(j) = {}

\* What the call in progress, op on a sound inode i, has left to write.
Pending(i, op) ==
    IF op = "wipe" THEN Shrinking(i)
    ELSE \/ \E r \in DiskInode : Recording(i, r)
         \/ \E p \in Seq(Block), b \in Block, r \in DiskInode : Extending(i, p, b, r)

PendingInv ==
    \A i \in Inode : Changing(i) => IF i \in spoiled THEN Tainted(i) ELSE Pending(i, busy.op)

CrashInv ==
    /\ TypeInv /\ MemInv /\ CleanInv /\ ApartInv /\ MarkedInv /\ SizeInv
    /\ LeakInv /\ UntornInv /\ PendingInv

-----------------------------------------------------------------------------
(* What the state is made of.                                               *)

LEMMA InodeTypes ==
  ASSUME TypeOK, NEW i \in Inode
  PROVE  /\ disk[i] \in DiskInode /\ mem[i] \in MemInode
         /\ disk[i].first \in Block \cup {NoBlock} /\ disk[i].size \in 0 .. BlockCount
         /\ mem[i].first \in Block \cup {NoBlock} /\ mem[i].size \in 0 .. BlockCount
         /\ mem[i].list \in Seq(Block) /\ Len(mem[i].list) \in Nat
         /\ next \in [Block -> Block \cup {NoBlock}] /\ used \in SUBSET Block
         /\ blockHint \in 1 .. BlockCount + 1 /\ crashes \in Nat
BY CrashSafetyAssumption DEF TypeOK, BlockTypeOK, DiskInode, MemInode

LEMMA BlankTypes ==
  /\ Unused \in DiskInode /\ ~Unused.used /\ Unused.first = NoBlock /\ Unused.size = 0
  /\ NotOpened \in MemInode /\ ~NotOpened.open /\ NotOpened.list = <<>>
  /\ NotOpened.unmarked = {} /\ NotOpened.after = NoBlock
<1>1. 0 \in 0 .. BlockCount
  BY BlockCountAssumption
<1> QED BY <1>1 DEF Unused, NotOpened, DiskInode, MemInode

LEMMA ChainType ==
  ASSUME TypeOK, NEW i \in Inode
  PROVE  /\ FileChain(i) \in SUBSET Block /\ FileChain(i) \subseteq Reachable
         /\ IsFiniteSet(FileChain(i)) /\ Cardinality(FileChain(i)) \in Nat
         /\ disk[i].first # NoBlock => disk[i].first \in FileChain(i)
         /\ disk[i].first = NoBlock => FileChain(i) = {}
         /\ Closed(next, FileChain(i))
<1>1. disk[i].first \in Block \cup {NoBlock} /\ next \in [Block -> Block \cup {NoBlock}]
  BY InodeTypes
<1>2. /\ FileChain(i) \in SUBSET Block
      /\ disk[i].first # NoBlock => disk[i].first \in FileChain(i)
      /\ disk[i].first = NoBlock => FileChain(i) = {}
      /\ Closed(next, FileChain(i))
  BY <1>1, ReachType DEF FileChain
<1>3. FileChain(i) \subseteq Reachable
  BY DEF Reachable
<1> QED BY <1>2, <1>3, BlockFinite

LEMMA BlockCardinality == IsFiniteSet(Block) /\ Cardinality(Block) = BlockCount
BY FS_Interval, BlockCountAssumption DEF Block

LEMMA ReachableType == ASSUME TypeOK PROVE Reachable \subseteq Block /\ Leaked \subseteq Block
BY ChainType DEF Reachable, Leaked, TypeOK, BlockTypeOK

\* Fewer blocks leak, or none more.
LEMMA LeakShrinks ==
  ASSUME TypeOK, LeakInv, torn' = torn, crashes' = crashes, ~torn => Leaked' \subseteq Leaked
  PROVE  LeakInv'
<1> SUFFICES ASSUME ~torn PROVE Cardinality(Leaked') <= crashes
  BY DEF LeakInv
<1>1. /\ IsFiniteSet(Leaked) /\ Cardinality(Leaked) \in Nat /\ crashes \in Nat
      /\ Leaked' \in SUBSET Block
  BY ReachableType, BlockFinite, CrashSafetyAssumption DEF TypeOK
<1>2. Cardinality(Leaked') <= Cardinality(Leaked) /\ Cardinality(Leaked') \in Nat
  BY <1>1, FS_Subset, BlockFinite
<1> QED BY <1>1, <1>2 DEF LeakInv

\* Between two calls nothing is half done.
LEMMA Quiet ==
  ASSUME CrashInv, todo = <<>>
  PROVE  /\ \A i : ~Changing(i) /\ ~Wiping(i)
         /\ Spare = {} /\ Leaked = used \ Reachable
         /\ \A i \in Sound : mem[i].open =>
              /\ disk[i].used /\ mem[i].first = disk[i].first
              /\ Follows(next, disk[i].first, mem[i].list)
         /\ \A i \in Sound : FileChain(i) \subseteq used
         /\ \A i \in Sound \ grown : disk[i].size <= Cardinality(FileChain(i))
<1>1. \A i : ~Changing(i) /\ ~Wiping(i)
  BY DEF Changing, Wiping
<1>2. Spare = {}
  BY DEF Spare, Leading
<1> QED BY <1>1, <1>2 DEF CrashInv, MemInv, MarkedInv, SizeInv, Leaked

\* The list of an opened inode is its chain.
LEMMA ListIsChain ==
  ASSUME TypeOK, NEW i \in Inode, NEW l \in Seq(Block), Follows(next, disk[i].first, l)
  PROVE  FileChain(i) = Elements(l) /\ Cardinality(FileChain(i)) = Len(l)
BY InodeTypes, WholeChain DEF FileChain

-----------------------------------------------------------------------------
(* The beginning of a call.                                                 *)

\* No sound file but i itself, and that only when it has no block, was spoiled before.
StaySpoiled(i) ==
    /\ spoiled' \subseteq Inode /\ spoiled \subseteq spoiled' \cup {i}
    /\ i \in spoiled /\ i \notin spoiled' => disk[i] = Unused
    /\ ~torn => spoiled' = spoiled

\* A call on inode i begins that has something to write.
LEMMA BeginStep ==
  ASSUME CrashInv, TypeOK', NEW i \in Inode, NEW op \in {"write", "wipe"},
         NEW w \in Seq(Record), w # <<>>, Begin(i, op, w), StaySpoiled(i),
         \A j \in Inode \ {i} : mem'[j] = mem[j] /\ (j \in grown' <=> j \in grown),
         ~mem'[i].open => mem'[i] = NotOpened,
         i \notin spoiled' => mem'[i].unmarked = {} /\ mem'[i].after = NoBlock,
         i \in grown' \cup spoiled' \/ ~mem'[i].open \/ mem'[i].size <= Len(mem'[i].list),
         op = "wipe" \/ i \in grown' \/ i \notin grown,
         IF i \in spoiled' THEN Tainted(i)' ELSE Pending(i, op)'
  PROVE  CrashInv'
<1>1. /\ TypeOK /\ TypeInv /\ todo = <<>> /\ todo' = w /\ busy' = [inode |-> i, op |-> op]
      /\ used' = used /\ next' = next /\ disk' = disk /\ torn' = torn /\ crashes' = crashes
  BY DEF CrashInv, TypeInv, Begin
<1>2. /\ busy'.inode = i /\ busy'.op = op /\ Changing(i)' /\ (op = "wipe" => Wiping(i)')
      /\ \A j \in Inode \ {i} : ~Changing(j)' /\ ~Wiping(j)'
  BY <1>1 DEF Changing, Wiping
<1>3. (\A j \in Inode : FileChain(j)' = FileChain(j)) /\ Reachable' = Reachable
  BY <1>1 DEF FileChain, Reachable
<1>4. TypeInv'
  BY <1>1, <1>2 DEF TypeInv
<1>5. \A j \in Sound' : j \in Inode /\ (j # i => j \in Sound)
  BY DEF Sound, StaySpoiled
<1>6. i \in Sound' => i \notin spoiled' /\ (i \in Sound \/ (disk[i] = Unused /\ FileChain(i) = {}))
  <2>1. disk[i] = Unused => FileChain(i) = {}
    BY <1>1, ChainType, BlankTypes
  <2> QED BY <2>1 DEF Sound, StaySpoiled
<1>7. MemInv' /\ CleanInv'
  BY <1>1, <1>2, <1>5, <1>6, Quiet DEF CrashInv, MemInv, CleanInv
<1>8. ApartInv' /\ MarkedInv'
  <2>1. ApartInv'
    <3> SUFFICES ASSUME NEW j \in Sound', NEW k \in Sound', j # k
                 PROVE  FileChain(j) \cap FileChain(k) = {}
      BY <1>3, <1>5 DEF ApartInv
    <3>1. CASE j \in Sound /\ k \in Sound
      BY <3>1 DEF CrashInv, ApartInv
    <3>2. CASE j \notin Sound \/ k \notin Sound
      BY <1>5, <1>6, <3>2
    <3> QED BY <3>1, <3>2
  <2>2. MarkedInv'
    BY <1>1, <1>3, <1>5, <1>6, Quiet DEF MarkedInv
  <2> QED BY <2>1, <2>2
<1>9. SizeInv'
  <2> SUFFICES ASSUME NEW j \in Sound', j \notin grown'
               PROVE  /\ mem'[j].open => mem'[j].size <= Len(mem'[j].list)
                      /\ Wiping(j)' \/ disk[j].size <= Cardinality(FileChain(j))
    BY <1>1, <1>3, <1>5 DEF SizeInv
  <2>1. CASE j = i /\ i \in Sound
    BY <1>2, <1>6, <2>1, Quiet, <1>1
  <2>2. CASE j = i /\ i \notin Sound
    <3>1. disk[i].size = 0 /\ Cardinality(FileChain(i)) = 0
      BY <1>6, <2>2, BlankTypes, FS_EmptySet
    <3> QED BY <1>6, <2>2, <3>1
  <2>3. CASE j # i
    BY <1>1, <1>5, <2>3, Quiet DEF CrashInv, SizeInv
  <2> QED BY <2>1, <2>2, <2>3
<1>10. LeakInv'
  <2>1. Leaked' \subseteq Leaked
    BY <1>1, <1>3, Quiet DEF Leaked
  <2> QED BY <1>1, <2>1, LeakShrinks DEF CrashInv
<1>11. UntornInv'
  BY <1>1 DEF CrashInv, UntornInv, StaySpoiled
<1>12. PendingInv'
  BY <1>2 DEF PendingInv, Changing
<1> QED BY <1>4, <1>7, <1>8, <1>9, <1>10, <1>11, <1>12 DEF CrashInv

\* What a call that begins leaves of the right types.
LEMMA BeginType ==
  ASSUME TypeOK, NEW i \in Inode, NEW op \in {"write", "wipe"},
         NEW w \in Seq(Record), Begin(i, op, w), harms' \in 0 .. MaxHarms, spoiled' \subseteq Inode,
         mem' \in [Inode -> MemInode], blockHint' \in 1 .. BlockCount + 1, grown' \subseteq Inode
  PROVE  TypeOK'
<1>1. /\ used' = used /\ next' = next /\ disk' = disk /\ torn' = torn /\ crashes' = crashes
      /\ todo' = w /\ busy' = IF w = <<>> THEN Idle ELSE [inode |-> i, op |-> op]
  BY DEF Begin
<1>2. \A k \in DOMAIN w : w[k].kind \in {"block", "inode"}
  <2>1. \A k \in DOMAIN w : w[k] \in Record
    OBVIOUS
  <2> QED BY <2>1 DEF Record, BlockRecord, InodeRecord
<1>3. busy' \in [inode: Inode \cup {NoInode}, op: {"none", "write", "wipe"}]
  BY <1>1 DEF Idle
<1> QED BY <1>1, <1>2, <1>3 DEF TypeOK, BlockTypeOK

LEMMA WriteTypes ==
  /\ \A b \in Block, u \in BOOLEAN, n \in Block \cup {NoBlock} : BlockWrite(b, u, n) \in Record
  /\ \A i \in Inode, r \in DiskInode : InodeWrite(i, r) \in Record
BY DEF BlockWrite, InodeWrite, Record, BlockRecord, InodeRecord

LEMMA WriteFields ==
  /\ \A b, u, n : BlockWrite(b, u, n).kind = "block" /\ BlockWrite(b, u, n).id = b
  /\ \A i, r : /\ InodeWrite(i, r).kind = "inode" /\ InodeWrite(i, r).id = i
               /\ InodeWrite(i, r).rec = r
BY DEF BlockWrite, InodeWrite

LEMMA RecordType ==
  ASSUME NEW m \in MemInode
  PROVE  /\ RecordOf(m) \in DiskInode /\ RecordOf(m).used
         /\ RecordOf(m).first = m.first /\ RecordOf(m).size = m.size
BY DEF RecordOf, MemInode, DiskInode

LEMMA SameRecord ==
  ASSUME NEW r \in DiskInode, NEW q \in DiskInode,
         r.used = q.used, r.first = q.first, r.size = q.size
  PROVE  r = q
BY DEF DiskInode

\* e is s with t behind it.
IsConcat(s, t, e) ==
    /\ Len(e) = Len(s) + Len(t)
    /\ \A k \in 1 .. Len(s) : e[k] = s[k]
    /\ \A k \in 1 .. Len(t) : e[Len(s) + k] = t[k]

LEMMA ConcatFacts ==
  ASSUME NEW S, NEW s \in Seq(S), NEW t \in Seq(S)
  PROVE  s \o t \in Seq(S) /\ IsConcat(s, t, s \o t)
BY DEF IsConcat

LEMMA OnlyOne ==
  ASSUME NEW i, NEW S, NEW z,
         IF z.kind = "block" THEN z.id \in S ELSE z.id = i /\ (~z.rec.used => z.rec = Unused)
  PROVE  Only(i, S, <<z>>)
<1>1. Len(<<z>>) = 1 /\ <<z>>[1] = z
  OBVIOUS
<1>2. \A k \in 1 .. 1 : k = 1
  OBVIOUS
<1> QED BY <1>1, <1>2 DEF Only

LEMMA OnlyBoth ==
  ASSUME NEW i, NEW S, NEW u \in Seq(Record), NEW v \in Seq(Record), Only(i, S, u), Only(i, S, v)
  PROVE  Only(i, S, u \o v)
<1>1. PICK e : e = u \o v
  OBVIOUS
<1>2. PICK m \in Nat, n \in Nat : m = Len(u) /\ n = Len(v)
  OBVIOUS
<1>3. /\ Len(e) = m + n /\ \A k \in 1 .. m : e[k] = u[k]
      /\ \A k \in 1 .. n : e[m + k] = v[k]
  BY <1>1, <1>2, ConcatFacts DEF IsConcat
<1>4. ASSUME NEW k \in 1 .. m + n
      PROVE  (\E j \in 1 .. m : e[k] = u[j]) \/ (\E j \in 1 .. n : e[k] = v[j])
  <2>1. CASE k <= m
    <3>1. k \in 1 .. m
      BY <2>1
    <3> QED BY <1>3, <3>1
  <2>2. CASE ~(k <= m)
    <3>1. k - m \in 1 .. n /\ m + (k - m) = k
      BY <2>2
    <3>2. e[k] = v[k - m]
      BY <1>3, <3>1
    <3> QED BY <3>1, <3>2
  <2> QED BY <2>1, <2>2
<1>5. Only(i, S, e)
  BY <1>2, <1>3, <1>4 DEF Only
<1> QED BY <1>1, <1>5

\* A call that writes to harmless blocks only may begin on a spoiled inode.
LEMMA TaintedBegins ==
  ASSUME NEW i, NEW op, NEW S, NEW w, Begin(i, op, w), Only(i, S, w), S \subseteq Harmless'
  PROVE  Tainted(i)'
<1>1. todo' = w
  BY DEF Begin
<1> QED BY <1>1 DEF Tainted, Only

\* What a spoiled inode holds is harmless once the files that share it are spoiled.
LEMMA HeldIsHarmless ==
  ASSUME TypeOK, NEW i \in Inode, NEW op, NEW w, Begin(i, op, w), i \in spoiled,
         spoiled \cup Spoils(i) \subseteq spoiled'
  PROVE  Held(i) \cap Block \subseteq Harmless'
<1>1. \A j \in Inode : FileChain(j)' = FileChain(j)
  BY DEF Begin, FileChain
<1>2. \A j \in Inode : j \notin spoiled' => FileChain(j) \cap Held(i) = {}
  BY DEF Spoils
<1> QED BY <1>1, <1>2 DEF Harmless, Sound

\* What inode i holds: its chain, the blocks of its list, and what they lead to.
LEMMA HeldHas ==
  ASSUME TypeOK, NEW i \in Inode
  PROVE  /\ FileChain(i) \subseteq Held(i) \cap Block
         /\ \A k \in 1 .. Len(mem[i].list) :
              /\ mem[i].list[k] \in Held(i) \cap Block
              /\ Reach(next, mem[i].list[k]) \subseteq Held(i) \cap Block
         /\ Reach(next, mem[i].after) \subseteq Held(i) \cap Block
<1>1. /\ next \in [Block -> Block \cup {NoBlock}] /\ mem[i].after \in Block \cup {NoBlock}
      /\ mem[i].list \in Seq(Block)
  BY InodeTypes DEF MemInode
<1>2. \A b \in Block \cup {NoBlock} : Reach(next, b) \subseteq Block /\ (b # NoBlock => b \in Reach(next, b))
  BY <1>1, ReachType
<1>3. DOMAIN mem[i].list = 1 .. Len(mem[i].list) /\ NoBlock \notin Block
  BY <1>1 DEF Block, NoBlock
<1>4. FileChain(i) \subseteq Held(i) \cap Block /\ Reach(next, mem[i].after) \subseteq Held(i) \cap Block
  BY <1>1, <1>2, ChainType DEF Held
<1>5. ASSUME NEW k \in 1 .. Len(mem[i].list)
      PROVE  /\ mem[i].list[k] \in Held(i) \cap Block
             /\ Reach(next, mem[i].list[k]) \subseteq Held(i) \cap Block
  <2>1. PICK b \in Block : b = mem[i].list[k]
    BY <1>1
  <2>2. Reach(next, b) \subseteq Held(i)
    BY <1>3, <2>1 DEF Held
  <2> QED BY <1>2, <1>3, <2>1, <2>2
<1> QED BY <1>4, <1>5

\* A free block is harmless, and so is what a file reached that is no more sound.
LEMMA OthersAreHarmless ==
  ASSUME CrashInv, todo = <<>>, NEW i \in Inode, NEW op, NEW w, Begin(i, op, w), spoiled \subseteq spoiled'
  PROVE  /\ Block \ used \subseteq Harmless'
         /\ i \notin spoiled /\ i \in spoiled' => FileChain(i) \subseteq Harmless'
<1>1. TypeOK /\ \A j \in Inode : FileChain(j)' = FileChain(j)
  BY DEF CrashInv, TypeInv, Begin, FileChain
<1>2. Sound' \subseteq Sound /\ Sound \subseteq Inode
  BY DEF Sound
<1>3. \A j \in Sound : FileChain(j) \subseteq used
  BY Quiet
<1>4. i \notin spoiled => \A j \in Sound : j # i => FileChain(j) \cap FileChain(i) = {}
  BY DEF Sound, CrashInv, ApartInv
<1>5. FileChain(i) \subseteq Block /\ (i \in spoiled' => i \notin Sound')
  BY <1>1, ChainType DEF Sound
<1> QED BY <1>1, <1>2, <1>3, <1>4, <1>5 DEF Harmless

LEMMA CreateStep ==
  ASSUME CrashInv, NEW i \in Inode, Create(i), harms' \in 0 .. MaxHarms
  PROVE  CrashInv'
<1>1. PICK r : r = [Unused EXCEPT !.used = TRUE]
  OBVIOUS
<1>2. r \in DiskInode /\ r.used /\ r.first = NoBlock /\ r.size = 0
  <2>1. 0 \in 0 .. BlockCount
    BY BlockCountAssumption
  <2> QED BY <1>1, <2>1 DEF Unused, DiskInode
<1>3. PICK m : m = [NotOpened EXCEPT !.open = TRUE]
  OBVIOUS
<1>4. /\ m \in MemInode /\ m.open /\ m.first = NoBlock /\ m.size = 0 /\ m.list = <<>>
      /\ m.unmarked = {} /\ m.after = NoBlock
  <2>1. 0 \in 0 .. BlockCount /\ <<>> \in Seq(Block)
    BY BlockCountAssumption
  <2> QED BY <1>3, <2>1 DEF NotOpened, MemInode
<1>5. /\ TypeOK /\ todo = <<>> /\ disk[i] = Unused /\ ~disk[i].used
      /\ Begin(i, "write", <<InodeWrite(i, r)>>) /\ mem' = [mem EXCEPT ![i] = m]
      /\ blockHint' = blockHint /\ grown' = grown /\ spoiled' = spoiled \ {i}
      /\ mem \in [Inode -> MemInode]
  BY <1>1, <1>3 DEF CrashInv, TypeInv, TypeOK, Create, Begin
<1>6. /\ mem' \in [Inode -> MemInode] /\ mem'[i] = m /\ \A j \in Inode \ {i} : mem'[j] = mem[j]
  BY <1>4, <1>5
<1>7. <<InodeWrite(i, r)>> \in Seq(Record) /\ <<InodeWrite(i, r)>> # <<>>
  BY <1>2, WriteTypes
<1>8. blockHint \in 1 .. BlockCount + 1 /\ grown \subseteq Inode /\ spoiled \subseteq Inode
  BY <1>5 DEF TypeOK, BlockTypeOK
<1>9. TypeOK'
  BY <1>5, <1>6, <1>7, <1>8, BeginType
<1>10. disk' = disk /\ next' = next /\ todo' = <<InodeWrite(i, r)>> /\ disk[i].first = NoBlock
  BY <1>5, BlankTypes DEF Begin
<1>11. Recording(i, r)'
  <2>1. Follows(next', NoBlock, <<>>)
    BY DEF Follows
  <2>2. FileChain(i)' = FileChain(i) /\ Cardinality(FileChain(i)) \in Nat
    BY <1>5, <1>10, ChainType DEF FileChain
  <2> QED BY <1>2, <1>4, <1>6, <1>10, <2>1, <2>2 DEF Recording
<1>12. i \in grown' \cup spoiled' \/ ~mem'[i].open \/ mem'[i].size <= Len(mem'[i].list)
  BY <1>4, <1>6
<1>13. i \in grown' \/ i \notin grown
  BY <1>5
<1>14. /\ ~mem'[i].open => mem'[i] = NotOpened
       /\ i \notin spoiled' /\ mem'[i].unmarked = {} /\ mem'[i].after = NoBlock /\ "write" # "wipe"
  BY <1>4, <1>5, <1>6
<1>15. StaySpoiled(i)
  BY <1>5, <1>8 DEF StaySpoiled, CrashInv, UntornInv
<1>16. Pending(i, "write")'
  BY <1>2, <1>11, <1>14 DEF Pending
<1> QED BY <1>5, <1>6, <1>7, <1>9, <1>12, <1>13, <1>14, <1>15, <1>16, BeginStep

LEMMA CloseFileStep ==
  ASSUME CrashInv, NEW i \in Inode, CloseFile(i), harms' \in 0 .. MaxHarms
  PROVE  CrashInv'
<1>1. PICK r : r = RecordOf(mem[i])
  OBVIOUS
<1>2. /\ TypeOK /\ todo = <<>> /\ mem[i].open /\ Begin(i, "write", <<InodeWrite(i, r)>>)
      /\ mem' = [mem EXCEPT ![i] = NotOpened] /\ blockHint' = blockHint /\ grown' = grown
      /\ spoiled' = spoiled /\ mem \in [Inode -> MemInode]
  BY <1>1 DEF CrashInv, TypeInv, TypeOK, CloseFile, Begin
<1>3. r \in DiskInode /\ r.used /\ r.first = mem[i].first /\ r.size = mem[i].size
  BY <1>1, <1>2, RecordType
<1>4. /\ mem' \in [Inode -> MemInode] /\ mem'[i] = NotOpened /\ ~mem'[i].open
      /\ mem'[i].unmarked = {} /\ mem'[i].after = NoBlock
      /\ \A j \in Inode \ {i} : mem'[j] = mem[j]
  BY <1>2, BlankTypes
<1>5. <<InodeWrite(i, r)>> \in Seq(Record) /\ <<InodeWrite(i, r)>> # <<>>
  BY <1>3, WriteTypes
<1>6. blockHint \in 1 .. BlockCount + 1 /\ grown \subseteq Inode /\ spoiled \subseteq Inode
  BY <1>2 DEF TypeOK, BlockTypeOK
<1>7. TypeOK'
  BY <1>2, <1>4, <1>5, <1>6, BeginType
<1>8. ASSUME i \notin spoiled PROVE Recording(i, r)'
  <2>1. /\ disk' = disk /\ next' = next /\ torn' = torn /\ todo' = <<InodeWrite(i, r)>>
    BY <1>2 DEF Begin
  <2>2. i \in Sound /\ mem[i].first = disk[i].first /\ Follows(next, disk[i].first, mem[i].list)
    BY <1>2, <1>8, Quiet DEF Sound
  <2>3. FileChain(i)' = FileChain(i) /\ Cardinality(FileChain(i)) = Len(mem[i].list)
    BY <1>2, <2>1, <2>2, InodeTypes, ListIsChain DEF FileChain
  <2>4. i \in grown \/ r.size <= Len(mem[i].list)
    BY <1>2, <1>3, <2>2 DEF CrashInv, SizeInv
  <2> QED BY <1>2, <1>3, <1>4, <2>1, <2>2, <2>3, <2>4 DEF Recording
<1>9. i \in grown' \/ i \notin grown
  BY <1>2
<1>10. "write" # "wipe"
  OBVIOUS
<1>11. StaySpoiled(i)
  BY <1>2, <1>6 DEF StaySpoiled
<1>12. Tainted(i)'
  <2>1. Only(i, {}, <<InodeWrite(i, r)>>)
    <3>1. PICK z : z = InodeWrite(i, r)
      OBVIOUS
    <3>2. z.kind # "block" /\ z.id = i /\ z.rec = r
      BY <3>1, WriteFields
    <3> QED BY <1>3, <3>1, <3>2, OnlyOne
  <2> QED BY <1>2, <2>1, TaintedBegins
<1>13. i \notin spoiled' => Pending(i, "write")'
  BY <1>2, <1>3, <1>8, <1>10 DEF Pending
<1> QED BY <1>2, <1>4, <1>5, <1>7, <1>9, <1>10, <1>11, <1>12, <1>13, BeginStep

LEMMA OpenFileStep ==
  ASSUME CrashInv, NEW i \in Inode, OpenFile(i), harms' \in 0 .. MaxHarms
  PROVE  CrashInv'
<1>1. PICK l \in ChainLists(disk[i].first) :
        mem' = [mem EXCEPT ![i] =
                    [open |-> TRUE, first |-> disk[i].first, size |-> disk[i].size, list |-> l,
                     unmarked |-> {k \in DOMAIN l : l[k] \notin used}, after |-> NoBlock]]
  BY DEF OpenFile
<1>2. /\ TypeOK /\ TypeInv /\ todo = <<>> /\ disk[i].used /\ Begin(i, "write", <<>>)
      /\ blockHint' = blockHint /\ grown' = grown /\ spoiled' = spoiled /\ mem \in [Inode -> MemInode]
      /\ Sound' = Sound
  BY DEF CrashInv, TypeInv, TypeOK, OpenFile, Begin, Sound
<1>3. /\ disk[i].first \in Block \cup {NoBlock} /\ disk[i].size \in 0 .. BlockCount /\ BlockTypeOK
  BY <1>2, InodeTypes DEF TypeOK
<1>4. l \in Seq(Block) /\ Follows(next, disk[i].first, l)
  BY <1>3, LoadedFollows
<1>5. PICK u : u = {k \in DOMAIN l : l[k] \notin used}
  OBVIOUS
<1>6. u \in SUBSET (1 .. BlockCount) /\ (i \in Sound => u = {})
  <2>1. FileChain(i) = Elements(l) /\ Cardinality(FileChain(i)) = Len(l) /\ FileChain(i) \in SUBSET Block
    BY <1>2, <1>4, ListIsChain, ChainType
  <2>2. Len(l) <= BlockCount /\ Len(l) \in Nat /\ DOMAIN l = 1 .. Len(l)
    <3>1. DOMAIN l = 1 .. Len(l) /\ Len(l) \in Nat
      BY <1>4
    <3> QED BY <2>1, <3>1, BlockCardinality, FS_Subset
  <2>3. u \in SUBSET (1 .. BlockCount)
    BY <1>5, <2>2, BlockCountAssumption
  <2>4. i \in Sound => u = {}
    BY <1>2, <1>5, <2>1, <2>2, Quiet DEF Elements
  <2> QED BY <2>3, <2>4
<1>7. PICK m : m = [open |-> TRUE, first |-> disk[i].first, size |-> disk[i].size, list |-> l,
                    unmarked |-> u, after |-> NoBlock]
  OBVIOUS
<1>8. /\ m \in MemInode /\ m.open /\ m.first = disk[i].first /\ m.size = disk[i].size /\ m.list = l
      /\ m.unmarked = u /\ m.after = NoBlock
  BY <1>3, <1>4, <1>6, <1>7 DEF MemInode
<1>9. mem' = [mem EXCEPT ![i] = m]
  BY <1>1, <1>5, <1>7
<1>10. /\ mem' \in [Inode -> MemInode] /\ mem'[i] = m /\ \A j \in Inode \ {i} : mem'[j] = mem[j]
  BY <1>2, <1>8, <1>9
<1>11. /\ used' = used /\ next' = next /\ disk' = disk /\ torn' = torn /\ crashes' = crashes
       /\ todo' = <<>> /\ busy' = Idle /\ (\A j : ~Changing(j)' /\ ~Wiping(j)')
       /\ blockHint \in 1 .. BlockCount + 1 /\ grown \subseteq Inode /\ spoiled \subseteq Inode
  BY <1>2 DEF Begin, Changing, Wiping, TypeOK, BlockTypeOK
<1>12. (\A j \in Inode : FileChain(j)' = FileChain(j)) /\ Reachable' = Reachable
  BY <1>11 DEF FileChain, Reachable
<1>13. <<>> \in Seq(Record) /\ Sound \subseteq Inode
  BY DEF Sound
<1>14. TypeOK'
  BY <1>2, <1>10, <1>11, <1>13, BeginType
<1>15. TypeInv'
  BY <1>2, <1>8, <1>10, <1>11, <1>13, <1>14 DEF TypeInv
<1>16. MemInv' /\ CleanInv'
  BY <1>2, <1>4, <1>6, <1>8, <1>10, <1>11, <1>13, Quiet DEF CrashInv, MemInv, CleanInv
<1>17. ApartInv' /\ MarkedInv'
  BY <1>2, <1>11, <1>12, <1>13, Quiet DEF CrashInv, ApartInv, MarkedInv
<1>18. SizeInv'
  <2>1. Cardinality(FileChain(i)) = Len(l)
    BY <1>2, <1>4, ListIsChain
  <2> QED BY <1>2, <1>8, <1>10, <1>11, <1>12, <1>13, <2>1, Quiet DEF CrashInv, SizeInv
<1>19. LeakInv' /\ UntornInv'
  <2>1. Leaked' \subseteq Leaked
    BY <1>2, <1>11, <1>12, Quiet DEF Leaked
  <2> QED BY <1>2, <1>11, <2>1, LeakShrinks DEF CrashInv, UntornInv
<1>20. PendingInv'
  BY <1>11 DEF PendingInv
<1> QED BY <1>15, <1>16, <1>17, <1>18, <1>19, <1>20 DEF CrashInv

-----------------------------------------------------------------------------
(* Calls that take a block.                                                 *)

\* What the allocator hands out is a free block.
LEMMA NewBlock ==
  ASSUME TypeOK, NEW s \in Taken(1), NEW b \in {s[k] : k \in DOMAIN s}
  PROVE  b \in Block /\ b \notin used /\ b + 1 \in 1 .. BlockCount + 1 /\ b # NoBlock
<1>1. BlockTypeOK /\ BlockCount \in Nat
  BY BlockCountAssumption DEF TypeOK
<1>2. b \in Available
  BY <1>1, TakenProperties
<1>3. b \in Block /\ b \notin used
  BY <1>2 DEF Available
<1> QED BY <1>1, <1>3 DEF Block, NoBlock

\* What an opened inode is when block b has been added to it.
LEMMA AddedBlock ==
  ASSUME TypeOK, NEW m \in MemInode, NEW b \in Block
  PROVE  /\ WithBlock(m, b) \in MemInode /\ WithBlock(m, b).open = m.open
         /\ WithBlock(m, b).size = m.size
         /\ \/ WithBlock(m, b).list = m.list
            \/ WithBlock(m, b).list = Append(m.list, b)
         /\ m.after = NoBlock =>
              /\ WithBlock(m, b).first = IF m.first = NoBlock THEN b ELSE m.first
              /\ WithBlock(m, b).list = Append(m.list, b)
              /\ WithBlock(m, b).unmarked = m.unmarked /\ WithBlock(m, b).after = next[b]
<1>0. m.list \in Seq(Block) /\ next[b] \in Block \cup {NoBlock}
  BY DEF MemInode, TypeOK, BlockTypeOK
<1>1. PICK l \in Seq(Block) : l = Append(m.list, b)
  <2>1. Append(m.list, b) \in Seq(Block)
    BY <1>0
  <2> QED BY <2>1
<1>2. PICK f \in Block \cup {NoBlock} : f = IF m.first = NoBlock THEN b ELSE m.first
  BY DEF MemInode
<1>3. PICK a \in Block \cup {NoBlock} : a = next[b]
  BY <1>0
<1>4. PICK z : z = [m EXCEPT !.list = l, !.first = f, !.after = a]
  OBVIOUS
<1>5. /\ z \in MemInode /\ z.open = m.open /\ z.first = f /\ z.size = m.size /\ z.list = l
      /\ z.unmarked = m.unmarked /\ z.after = a
  BY <1>1, <1>2, <1>3, <1>4 DEF MemInode
<1>6. WithBlock(m, b) = IF m.after \in {NoBlock, b} THEN z ELSE m
  BY <1>1, <1>2, <1>3, <1>4 DEF WithBlock
<1>7. CASE m.after \in {NoBlock, b}
  <2>1. WithBlock(m, b) = z
    BY <1>6, <1>7
  <2> QED BY <1>1, <1>2, <1>3, <1>5, <2>1
<1>8. CASE m.after \notin {NoBlock, b}
  <2>1. WithBlock(m, b) = m
    BY <1>6, <1>8
  <2> QED BY <1>8, <2>1
<1> QED BY <1>7, <1>8

LEMMA TuplePair ==
  ASSUME NEW x, NEW y
  PROVE  <<x>> \o <<y>> = <<x, y>>
<1> DEFINE S == {x, y}
<1>1. PICK s : s = <<x>>
  OBVIOUS
<1>2. PICK t : t = <<y>>
  OBVIOUS
<1>3. s \in Seq(S) /\ Len(s) = 1 /\ s[1] = x /\ t \in Seq(S) /\ Len(t) = 1 /\ t[1] = y
  BY <1>1, <1>2
<1>4. PICK e : e = s \o t
  OBVIOUS
<1>5. e \in Seq(S) /\ IsConcat(s, t, e)
  BY <1>3, <1>4, ConcatFacts
<1>6. Len(e) = 2 /\ e[1] = x /\ e[2] = y
  <2>1. 1 \in 1 .. 1 /\ 1 + 1 = 2
    OBVIOUS
  <2> QED BY <1>3, <1>5, <2>1 DEF IsConcat
<1>7. e = <<x, y>>
  BY <1>5, <1>6
<1> QED BY <1>1, <1>2, <1>4, <1>7

LEMMA TupleBehind ==
  ASSUME NEW f, NEW x, NEW y
  PROVE  <<f>> \o <<x, y>> = <<f, x, y>>
<1> DEFINE S == {f, x, y}
<1>1. PICK s : s = <<f>>
  OBVIOUS
<1>2. PICK t : t = <<x, y>>
  OBVIOUS
<1>3. s \in Seq(S) /\ Len(s) = 1 /\ s[1] = f /\ t \in Seq(S) /\ Len(t) = 2 /\ t[1] = x /\ t[2] = y
  BY <1>1, <1>2
<1>4. PICK e : e = s \o t
  OBVIOUS
<1>5. /\ e \in Seq(S) /\ Len(e) = 3
      /\ \A k \in 1 .. 3 : e[k] = IF k <= 1 THEN s[k] ELSE t[k - 1]
  <2>1. \A u, v \in Seq(S) : /\ u \o v \in Seq(S) /\ Len(u \o v) = Len(u) + Len(v)
                            /\ \A k \in 1 .. Len(u) + Len(v) :
                                 (u \o v)[k] = IF k <= Len(u) THEN u[k] ELSE v[k - Len(u)]
    OBVIOUS
  <2>2. /\ e \in Seq(S) /\ Len(e) = Len(s) + Len(t)
        /\ \A k \in 1 .. Len(s) + Len(t) : e[k] = IF k <= Len(s) THEN s[k] ELSE t[k - Len(s)]
    BY <1>3, <1>4, <2>1
  <2> QED BY <1>3, <2>2
<1>6. e[1] = f /\ e[2] = x /\ e[3] = y
  BY <1>3, <1>5
<1>7. e = <<f, x, y>>
  BY <1>5, <1>6
<1> QED BY <1>1, <1>2, <1>4, <1>7

\* The writes that add a block, one by one.
LEMMA AppendTypes ==
  ASSUME TypeOK, NEW i \in Inode, NEW m \in MemInode, NEW b \in Block, NEW S, b \in S,
         m.list # <<>> => m.list[Len(m.list)] \in S
  PROVE  /\ AppendWrites(i, m, b) \in Seq(Record) /\ AppendWrites(i, m, b) # <<>>
         /\ Only(i, S, AppendWrites(i, m, b))
<1>1. m.list \in Seq(Block) /\ next[b] \in Block \cup {NoBlock}
  BY DEF MemInode, TypeOK, BlockTypeOK
<1>2. PICK x : x = BlockWrite(b, TRUE, next[b])
  OBVIOUS
<1>3. x \in Record /\ x.kind = "block" /\ x.id = b
  <2>1. PICK n \in Block \cup {NoBlock} : n = next[b]
    BY <1>1
  <2>2. x \in Record
    BY <1>2, <2>1, WriteTypes
  <2>3. x.kind = "block" /\ x.id = b
    BY <1>2 DEF BlockWrite
  <2> QED BY <2>2, <2>3
<1>4. PICK u : u = <<x>>
  OBVIOUS
<1>5. u \in Seq(Record) /\ Len(u) = 1 /\ Only(i, S, u)
  <2>1. Only(i, S, <<x>>)
    BY <1>3, OnlyOne
  <2> QED BY <1>3, <1>4, <2>1
<1>6. PICK v : v = LinkWrites(i, m, b)
  OBVIOUS
<1>7. v \in Seq(Record) /\ Only(i, S, v)
  <2>1. CASE m.list = <<>>
    <3>1. PICK r : r = RecordOf([m EXCEPT !.first = b])
      OBVIOUS
    <3>2. r \in DiskInode /\ r.used
      <4>1. [m EXCEPT !.first = b] \in MemInode
        BY DEF MemInode
      <4> QED BY <3>1, <4>1, RecordType
    <3>3. PICK z : z = InodeWrite(i, r)
      OBVIOUS
    <3>4. z \in Record /\ z.kind # "block" /\ z.id = i /\ z.rec = r
      BY <3>2, <3>3, WriteTypes, WriteFields
    <3>5. v = <<z>>
      BY <1>6, <2>1, <3>1, <3>3 DEF LinkWrites
    <3> QED BY <3>2, <3>4, <3>5, OnlyOne
  <2>2. CASE m.list # <<>> /\ m.after = NoBlock
    <3>1. PICK z : z = Flushed(m, Len(m.list), b)
      OBVIOUS
    <3>2. PICK y \in Block : y = m.list[Len(m.list)]
      <4>1. Len(m.list) \in 1 .. Len(m.list)
        BY <1>1, <2>2
      <4> QED BY <1>1, <4>1
    <3>3. z \in Record /\ z.kind = "block" /\ z.id = y
      <4>1. PICK flag \in BOOLEAN : flag = (Len(m.list) \notin m.unmarked)
        OBVIOUS
      <4>2. z = BlockWrite(y, flag, b)
        BY <3>1, <3>2, <4>1 DEF Flushed
      <4>3. BlockWrite(y, flag, b) \in Record
        BY <4>1, WriteTypes
      <4> QED BY <4>2, <4>3, WriteFields
    <3>4. v = <<z>>
      BY <1>6, <2>2, <3>1 DEF LinkWrites
    <3> QED BY <2>2, <3>2, <3>3, <3>4, OnlyOne
  <2>3. CASE m.list # <<>> /\ m.after # NoBlock
    <3>1. v = <<>>
      BY <1>6, <2>3 DEF LinkWrites
    <3>2. Len(<<>>) = 0 /\ <<>> \in Seq(Record)
      OBVIOUS
    <3> QED BY <3>1, <3>2 DEF Only
  <2> QED BY <2>1, <2>2, <2>3
<1>8. PICK w : w = u \o v
  OBVIOUS
<1>9. w \in Seq(Record) /\ Len(w) = 1 + Len(v) /\ Len(v) \in Nat /\ Only(i, S, w)
  <2>1. Only(i, S, w)
    BY <1>5, <1>7, <1>8, OnlyBoth
  <2>2. w \in Seq(Record) /\ IsConcat(u, v, w)
    BY <1>5, <1>7, <1>8, ConcatFacts
  <2> QED BY <1>5, <1>7, <2>1, <2>2 DEF IsConcat
<1>10. w # <<>> /\ w = AppendWrites(i, m, b)
  BY <1>2, <1>4, <1>6, <1>8, <1>9 DEF AppendWrites
<1> QED BY <1>9, <1>10

\* What inode i is handed is spoiled with it.
LEMMA HandedStays ==
  ASSUME CrashInv, NEW i \in Inode, NEW b \in Block, b \notin used,
         spoiled' = spoiled \cup Spoils(i) \cup Handed(i, b)
  PROVE  /\ StaySpoiled(i)
         /\ i \notin spoiled' => spoiled' = spoiled /\ next[b] = NoBlock
<1>1. spoiled \subseteq Inode /\ (~torn => spoiled = {} /\ next[b] = NoBlock)
  BY DEF CrashInv, TypeInv, TypeOK, UntornInv
<1>2. Spoils(i) \subseteq Inode /\ (i \notin spoiled => Spoils(i) = {})
  BY DEF Spoils
<1>3. Handed(i, b) \subseteq {i} /\ (i \notin Handed(i, b) => next[b] = NoBlock)
      /\ (next[b] = NoBlock => Handed(i, b) = {})
  BY DEF Handed
<1> QED BY <1>1, <1>2, <1>3 DEF StaySpoiled

\* The same inode, as far as a block added to it is concerned.
Alike(m, l) == m.open = l.open /\ m.first = l.first /\ m.list = l.list
               /\ m.unmarked = l.unmarked /\ m.after = l.after

\* Writing (n is the size in memory) and truncating (q is the record written
\* first) by a block take the same steps.
LEMMA ExtendingBegins ==
  ASSUME CrashInv, NEW i \in Inode, mem[i].open, NEW s \in Taken(1),
         NEW b \in {s[k] : k \in DOMAIN s}, NEW m \in MemInode, NEW n \in 0 .. BlockCount,
         Alike(m, mem[i]), todo = <<>>,
         mem' = [mem EXCEPT ![i] = [WithBlock(m, b) EXCEPT !.size = n]],
         blockHint' = b + 1, harms' \in 0 .. MaxHarms,
         spoiled' = spoiled \cup Spoils(i) \cup Handed(i, b),
         \/ /\ Begin(i, "write", AppendWrites(i, m, b))
            /\ grown' = grown /\ m.size = mem[i].size
            /\ mem[i].after = NoBlock => n = Len(m.list) + 1
         \/ /\ Begin(i, "write", <<InodeWrite(i, RecordOf(m))>> \o AppendWrites(i, m, b))
            /\ grown' = grown \cup {i}
  PROVE  CrashInv'
<1>1. PICK p : p = mem[i].list
  OBVIOUS
<1>2. /\ TypeOK /\ TypeInv /\ mem \in [Inode -> MemInode] /\ grown \subseteq Inode
      /\ used' = used /\ next' = next /\ disk' = disk /\ torn' = torn
      /\ m.open /\ m.first = mem[i].first /\ m.list = p
      /\ m.unmarked = mem[i].unmarked /\ m.after = mem[i].after
  BY <1>1 DEF CrashInv, TypeInv, TypeOK, Begin, Alike
<1>3. b \in Block /\ b \notin used /\ b + 1 \in 1 .. BlockCount + 1 /\ b # NoBlock
  BY <1>2, NewBlock
<1>4. /\ StaySpoiled(i)
      /\ i \notin spoiled' => spoiled' = spoiled /\ i \in Sound /\ next[b] = NoBlock
  BY <1>3, HandedStays DEF Sound
<1>5. p \in Seq(Block)
  BY <1>1, <1>2, InodeTypes
<1>6. PICK z : z = [WithBlock(m, b) EXCEPT !.size = n]
  OBVIOUS
<1>7. /\ z \in MemInode /\ z.open /\ z.size = n /\ (z.list = p \/ z.list = Append(p, b))
      /\ mem[i].after = NoBlock =>
           /\ z.list = Append(p, b) /\ z.first = IF mem[i].first = NoBlock THEN b ELSE mem[i].first
           /\ z.unmarked = mem[i].unmarked /\ z.after = next[b]
  <2>1. PICK v : v = WithBlock(m, b)
    OBVIOUS
  <2>2. /\ v \in MemInode /\ v.open = m.open /\ (v.list = p \/ v.list = Append(p, b))
        /\ m.after = NoBlock =>
             /\ v.first = IF m.first = NoBlock THEN b ELSE m.first
             /\ v.list = Append(p, b) /\ v.unmarked = m.unmarked /\ v.after = next[b]
    BY <1>2, <1>3, <2>1, AddedBlock
  <2>3. z = [v EXCEPT !.size = n]
    BY <1>6, <2>1
  <2>4. /\ z \in MemInode /\ z.open = v.open /\ z.size = n /\ z.list = v.list
        /\ z.first = v.first /\ z.unmarked = v.unmarked /\ z.after = v.after
    BY <2>2, <2>3 DEF MemInode
  <2> QED BY <1>2, <2>2, <2>4
<1>8. /\ mem' \in [Inode -> MemInode] /\ mem'[i] = z /\ \A j \in Inode \ {i} : mem'[j] = mem[j]
  BY <1>2, <1>6, <1>7
<1>9. PICK q : q = RecordOf(m)
  OBVIOUS
<1>10. q \in DiskInode /\ q.used /\ q.first = mem[i].first
  BY <1>2, <1>9, RecordType
<1>11. PICK f : f = InodeWrite(i, q)
  OBVIOUS
<1>12. f \in Record /\ f.kind # "block" /\ f.id = i /\ f.rec = q
  BY <1>10, <1>11, WriteTypes, WriteFields
<1>13. PICK a : a = AppendWrites(i, m, b)
  OBVIOUS
<1>14. PICK w : w = todo'
  OBVIOUS
<1>15. /\ \/ w = a /\ grown' = grown /\ m.size = mem[i].size /\ (mem[i].after = NoBlock => n = Len(p) + 1)
          \/ w = <<f>> \o a /\ grown' = grown \cup {i}
       /\ Begin(i, "write", w)
  BY <1>2, <1>9, <1>11, <1>13, <1>14 DEF Begin
<1>16. ASSUME NEW S, b \in S, p # <<>> => p[Len(p)] \in S
       PROVE  w \in Seq(Record) /\ w # <<>> /\ Only(i, S, w)
  <2>1. a \in Seq(Record) /\ a # <<>> /\ Only(i, S, a)
    BY <1>2, <1>3, <1>13, <1>16, AppendTypes
  <2>2. PICK t : t = <<f>>
    OBVIOUS
  <2>3. t \in Seq(Record) /\ Len(t) = 1 /\ Only(i, S, t)
    <3>1. Only(i, S, <<f>>)
      BY <1>10, <1>12, OnlyOne
    <3> QED BY <1>12, <2>2, <3>1
  <2>4. PICK e : e = t \o a
    OBVIOUS
  <2>5. e \in Seq(Record) /\ Len(e) = 1 + Len(a) /\ Len(a) \in Nat /\ Only(i, S, e)
    <3>1. Only(i, S, e)
      BY <2>1, <2>3, <2>4, OnlyBoth
    <3>2. e \in Seq(Record) /\ IsConcat(t, a, e)
      BY <2>1, <2>3, <2>4, ConcatFacts
    <3> QED BY <2>1, <2>3, <3>1, <3>2 DEF IsConcat
  <2>6. e # <<>>
    BY <2>5
  <2>7. w = a \/ w = e
    BY <1>15, <2>2, <2>4
  <2> QED BY <2>1, <2>5, <2>6, <2>7
<1>17. p # <<>> => /\ Len(p) \in 1 .. Len(p) /\ p[Len(p)] \in Block
  BY <1>5
<1>18. w \in Seq(Record) /\ w # <<>>
  BY <1>3, <1>16, <1>17
<1>19. TypeOK'
  <2>1. grown' \subseteq Inode /\ blockHint' \in 1 .. BlockCount + 1 /\ spoiled' \subseteq Inode
    BY <1>2, <1>3, <1>4, <1>15 DEF StaySpoiled
  <2> QED BY <1>2, <1>8, <1>15, <1>18, <2>1, BeginType
<1>20. ASSUME i \in spoiled' PROVE Tainted(i)'
  <2>1. spoiled \subseteq spoiled' /\ spoiled \cup Spoils(i) \subseteq spoiled'
    OBVIOUS
  <2>2. /\ Block \ used \subseteq Harmless'
        /\ i \notin spoiled => FileChain(i) \subseteq Harmless'
    BY <1>15, <1>20, <2>1, OthersAreHarmless
  <2>3. p # <<>> => p[Len(p)] \in Harmless'
    <3> SUFFICES ASSUME p # <<>> PROVE p[Len(p)] \in Harmless'
      OBVIOUS
    <3>1. CASE i \in spoiled
      <4>1. Held(i) \cap Block \subseteq Harmless'
        BY <1>2, <1>15, <2>1, <3>1, HeldIsHarmless
      <4>2. p[Len(p)] \in Held(i) \cap Block
        BY <1>1, <1>2, <1>17, HeldHas
      <4> QED BY <4>1, <4>2
    <3>2. CASE i \notin spoiled
      <4>1. Follows(next, disk[i].first, p)
        BY <1>1, <3>2, Quiet DEF Sound
      <4>2. p[Len(p)] \in FileChain(i)
        BY <1>2, <1>5, <1>17, <4>1, ListIsChain DEF Elements
      <4> QED BY <2>2, <3>2, <4>2
    <3> QED BY <3>1, <3>2
  <2>4. Only(i, Harmless', w)
    BY <1>3, <1>16, <2>2, <2>3
  <2> QED BY <1>15, <2>4, TaintedBegins
<1>21. ASSUME i \notin spoiled' PROVE \E r \in DiskInode : Extending(i, p, b, r)'
  <2>1. /\ i \in Sound /\ spoiled' = spoiled /\ next[b] = NoBlock
        /\ mem[i].unmarked = {} /\ mem[i].after = NoBlock
    BY <1>4, <1>21 DEF CrashInv, CleanInv
  <2>2. /\ disk[i].used /\ mem[i].first = disk[i].first /\ Follows(next, disk[i].first, p)
        /\ p = <<>> <=> mem[i].first = NoBlock
    <3>1. Follows(next, disk[i].first, p) /\ mem[i].first = disk[i].first /\ disk[i].used
      BY <1>1, <2>1, Quiet
    <3>2. p # <<>> => p[1] \in Block
      BY <1>5
    <3>3. p = <<>> <=> mem[i].first = NoBlock
      BY <3>1, <3>2 DEF Follows, Block, NoBlock
    <3> QED BY <3>1, <3>3
  <2>3. PICK r : r = RecordOf([m EXCEPT !.first = b])
    OBVIOUS
  <2>4. r \in DiskInode /\ r.used /\ r.first = b /\ r.size = m.size
    <3>1. [m EXCEPT !.first = b] \in MemInode /\ [m EXCEPT !.first = b].first = b
          /\ [m EXCEPT !.first = b].size = m.size
      BY <1>3 DEF MemInode
    <3> QED BY <2>3, <3>1, RecordType
  <2>5. PICK x, y : x = BlockWrite(b, TRUE, NoBlock) /\ y = Link(i, p, b, r)
    OBVIOUS
  <2>6. a = <<x, y>>
    <3>1. LinkWrites(i, m, b) = <<y>>
      <4>1. CASE p = <<>>
        BY <1>2, <2>3, <2>5, <4>1 DEF LinkWrites, Link
      <4>2. CASE p # <<>>
        <5>1. Len(p) \notin m.unmarked
          BY <1>2, <2>1
        <5>2. Flushed(m, Len(p), b) = BlockWrite(p[Len(p)], TRUE, b)
          BY <1>2, <5>1 DEF Flushed
        <5> QED BY <1>2, <2>1, <2>5, <4>2, <5>2 DEF LinkWrites, Link
      <4> QED BY <4>1, <4>2
    <3>2. a = <<x>> \o <<y>>
      BY <1>13, <2>1, <2>5, <3>1 DEF AppendWrites
    <3> QED BY <3>2, TuplePair
  <2>7. \/ w = <<x, y>> /\ grown' = grown /\ m.size = mem[i].size
        \/ w = <<f, x, y>> /\ i \in grown'
    <3>1. <<f>> \o <<x, y>> = <<f, x, y>>
      BY TupleBehind
    <3> QED BY <1>15, <2>6, <3>1
  <2>8. i \in grown' \/ p # <<>> \/ r.size <= 1
    <3> SUFFICES ASSUME i \notin grown', p = <<>> PROVE r.size <= 1
      OBVIOUS
    <3>1. i \notin grown /\ r.size = mem[i].size /\ Len(mem[i].list) = 0
      BY <1>1, <1>15, <2>4, <2>7
    <3>2. mem[i].size <= Len(mem[i].list) /\ mem[i].size \in Nat
      BY <1>2, <2>1, <3>1, InodeTypes DEF CrashInv, SizeInv
    <3> QED BY <3>1, <3>2
  <2>9. b \in Harmless'
    <3>1. Block \ used \subseteq Harmless'
      BY <1>15, <2>1, OthersAreHarmless
    <3> QED BY <1>3, <3>1
  <2>10. z.list = Append(p, b) /\ z.first = IF p = <<>> THEN b ELSE disk[i].first
    BY <1>7, <2>1, <2>2
  <2>11. \/ todo' = <<x, y>>
         \/ todo' = <<InodeWrite(i, q), x, y>> /\ i \in grown'
    BY <1>11, <1>14, <2>7
  <2>12. q.first = disk[i].first
    BY <1>10, <2>2
  <2>13. Extending(i, p, b, r)'
    BY <1>2, <1>3, <1>7, <1>8, <1>10, <2>2, <2>4, <2>5, <2>8, <2>9, <2>10, <2>11, <2>12 DEF Extending
  <2> QED BY <2>4, <2>13
<1>22. i \in grown' \cup spoiled' \/ ~mem'[i].open \/ mem'[i].size <= Len(mem'[i].list)
  <2> SUFFICES ASSUME i \notin grown', i \notin spoiled' PROVE mem'[i].size <= Len(mem'[i].list)
    OBVIOUS
  <2>1. mem[i].after = NoBlock
    BY <1>4 DEF CrashInv, CleanInv
  <2>2. n = Len(p) + 1 /\ z.list = Append(p, b)
    BY <1>7, <1>15, <2>1
  <2>3. Len(z.list) = Len(p) + 1 /\ Len(p) \in Nat
    BY <1>3, <1>5, <2>2
  <2>4. mem'[i].size = n /\ mem'[i].list = z.list
    BY <1>7, <1>8
  <2> QED BY <2>2, <2>3, <2>4
<1>23. \A j \in Inode \ {i} : mem'[j] = mem[j] /\ (j \in grown' <=> j \in grown)
  BY <1>8, <1>15
<1>24. /\ i \in grown' \/ i \notin grown
       /\ ~mem'[i].open => mem'[i] = NotOpened
       /\ "write" # "wipe"
       /\ i \notin spoiled' => mem'[i].unmarked = {} /\ mem'[i].after = NoBlock
  BY <1>4, <1>7, <1>8, <1>15 DEF CrashInv, CleanInv
<1>25. i \notin spoiled' => Pending(i, "write")'
  BY <1>3, <1>5, <1>21, <1>24 DEF Pending
<1> QED BY <1>4, <1>15, <1>18, <1>19, <1>20, <1>22, <1>23, <1>24, <1>25, BeginStep

LEMMA WriteBlockStep ==
  ASSUME CrashInv, NEW i \in Inode, WriteBlock(i), harms' \in 0 .. MaxHarms
  PROVE  CrashInv'
<1> DEFINE Sz(v) == IF v.list = mem[i].list THEN v.size ELSE Len(v.list)
<1>0. PICK s \in Taken(1) : \E b \in {s[k] : k \in DOMAIN s} :
        /\ Begin(i, "write", AppendWrites(i, mem[i], b))
        /\ mem' = [mem EXCEPT ![i] = [WithBlock(mem[i], b) EXCEPT !.size = Sz(WithBlock(mem[i], b))]]
        /\ blockHint' = b + 1
        /\ spoiled' = spoiled \cup Spoils(i) \cup Handed(i, b)
  BY DEF WriteBlock
<1>1. PICK b \in {s[k] : k \in DOMAIN s} :
        /\ Begin(i, "write", AppendWrites(i, mem[i], b))
        /\ mem' = [mem EXCEPT ![i] = [WithBlock(mem[i], b) EXCEPT !.size = Sz(WithBlock(mem[i], b))]]
        /\ blockHint' = b + 1
        /\ spoiled' = spoiled \cup Spoils(i) \cup Handed(i, b)
  BY <1>0
<1>2. TypeOK /\ mem[i].open /\ grown' = grown /\ todo = <<>> /\ Len(mem[i].list) < BlockCount
  BY <1>1 DEF CrashInv, TypeInv, WriteBlock, Begin
<1>3. mem[i] \in MemInode /\ mem[i].list \in Seq(Block) /\ b \in Block /\ mem[i].size \in 0 .. BlockCount
  BY <1>2, InodeTypes, NewBlock
<1>4. PICK v : v = WithBlock(mem[i], b)
  OBVIOUS
<1>5. /\ v.size = mem[i].size /\ (v.list = mem[i].list \/ v.list = Append(mem[i].list, b))
      /\ mem[i].after = NoBlock => v.list = Append(mem[i].list, b)
  BY <1>2, <1>3, <1>4, AddedBlock
<1>6. /\ Len(Append(mem[i].list, b)) = Len(mem[i].list) + 1 /\ Len(mem[i].list) \in Nat
      /\ Append(mem[i].list, b) # mem[i].list
  BY <1>3
<1>7. PICK n : n = Sz(v)
  OBVIOUS
<1>8. n \in 0 .. BlockCount /\ (mem[i].after = NoBlock => n = Len(mem[i].list) + 1)
  BY <1>2, <1>3, <1>5, <1>6, <1>7, BlockCountAssumption
<1>9. mem' = [mem EXCEPT ![i] = [WithBlock(mem[i], b) EXCEPT !.size = n]]
  BY <1>1, <1>4, <1>7
<1>10. Alike(mem[i], mem[i])
  BY DEF Alike
<1> QED BY <1>1, <1>2, <1>3, <1>8, <1>9, <1>10, ExtendingBegins

LEMMA TruncateUpStep ==
  ASSUME CrashInv, NEW i \in Inode, TruncateUp(i), harms' \in 0 .. MaxHarms
  PROVE  CrashInv'
<1>1. PICK m : m = [mem[i] EXCEPT !.size = @ + 1]
  OBVIOUS
<1>2. /\ TypeOK /\ mem[i].open /\ m.size <= BlockCount /\ grown' = grown \cup {i}
      /\ \/ /\ Begin(i, "write", <<InodeWrite(i, RecordOf(m))>>)
            /\ mem' = [mem EXCEPT ![i] = m] /\ blockHint' = blockHint /\ spoiled' = spoiled
         \/ \E s \in Taken(1) : \E b \in {s[k] : k \in DOMAIN s} :
              /\ Begin(i, "write", <<InodeWrite(i, RecordOf(m))>> \o AppendWrites(i, m, b))
              /\ mem' = [mem EXCEPT ![i] = WithBlock(m, b)]
              /\ blockHint' = b + 1
              /\ spoiled' = spoiled \cup Spoils(i) \cup Handed(i, b)
  BY <1>1 DEF CrashInv, TypeInv, TruncateUp
<1>0. todo = <<>>
  BY <1>2 DEF Begin
<1>3. /\ m \in MemInode /\ Alike(m, mem[i]) /\ m.open
      /\ mem \in [Inode -> MemInode] /\ grown \subseteq Inode /\ blockHint \in 1 .. BlockCount + 1
      /\ spoiled \subseteq Inode
  <2>1. mem[i] \in MemInode /\ mem[i].size \in Nat
    BY <1>2, InodeTypes
  <2>2. mem[i].size + 1 \in 0 .. BlockCount
    BY <1>1, <1>2, <2>1, BlockCountAssumption DEF MemInode
  <2>3. m \in MemInode /\ Alike(m, mem[i])
    BY <1>1, <2>1, <2>2 DEF MemInode, Alike
  <2> QED BY <1>2, <2>3 DEF Alike, TypeOK, BlockTypeOK
<1>4. CASE /\ Begin(i, "write", <<InodeWrite(i, RecordOf(m))>>)
           /\ mem' = [mem EXCEPT ![i] = m] /\ blockHint' = blockHint /\ spoiled' = spoiled
  <2>1. PICK r : r = RecordOf(m)
    OBVIOUS
  <2>2. r \in DiskInode /\ r.used /\ r.first = mem[i].first
    BY <1>3, <2>1, RecordType DEF Alike
  <2>3. /\ mem' \in [Inode -> MemInode] /\ mem'[i] = m /\ \A j \in Inode \ {i} : mem'[j] = mem[j]
    BY <1>3, <1>4
  <2>4. <<InodeWrite(i, r)>> \in Seq(Record) /\ <<InodeWrite(i, r)>> # <<>>
    BY <2>2, WriteTypes
  <2>5. Begin(i, "write", <<InodeWrite(i, r)>>)
    BY <1>4, <2>1
  <2>6. TypeOK'
    BY <1>2, <1>3, <1>4, <2>3, <2>4, <2>5, BeginType
  <2>7. ASSUME i \notin spoiled PROVE Recording(i, r)'
    <3>1. disk' = disk /\ next' = next /\ todo' = <<InodeWrite(i, r)>>
      BY <2>5 DEF Begin
    <3>2. mem[i].first = disk[i].first /\ Follows(next, disk[i].first, mem[i].list)
      BY <1>0, <1>2, <2>7, Quiet DEF Sound
    <3>3. mem'[i].first = mem[i].first /\ mem'[i].list = mem[i].list
      BY <1>3, <2>3 DEF Alike
    <3> QED BY <1>2, <2>2, <2>3, <3>1, <3>2, <3>3 DEF Recording
  <2>8. /\ i \in grown' /\ (~mem'[i].open => mem'[i] = NotOpened) /\ "write" # "wipe"
        /\ \A j \in Inode \ {i} : mem'[j] = mem[j] /\ (j \in grown' <=> j \in grown)
        /\ i \notin spoiled' => mem'[i].unmarked = {} /\ mem'[i].after = NoBlock
    BY <1>2, <1>3, <1>4, <2>3 DEF Alike, Sound, CrashInv, CleanInv
  <2>9. Tainted(i)'
    <3>1. Only(i, {}, <<InodeWrite(i, r)>>)
      <4>1. PICK z : z = InodeWrite(i, r)
        OBVIOUS
      <4>2. z.kind # "block" /\ z.id = i /\ z.rec = r
        BY <4>1, WriteFields
      <4> QED BY <2>2, <4>1, <4>2, OnlyOne
    <3> QED BY <2>5, <3>1, TaintedBegins
  <2>10. StaySpoiled(i)
    BY <1>3, <1>4 DEF StaySpoiled
  <2>11. i \notin spoiled' => Pending(i, "write")'
    BY <1>4, <2>2, <2>7, <2>8 DEF Pending
  <2> QED BY <2>4, <2>5, <2>6, <2>8, <2>9, <2>10, <2>11, BeginStep
<1>5. ASSUME NEW s \in Taken(1), NEW b \in {s[k] : k \in DOMAIN s},
             Begin(i, "write", <<InodeWrite(i, RecordOf(m))>> \o AppendWrites(i, m, b)),
             mem' = [mem EXCEPT ![i] = WithBlock(m, b)], blockHint' = b + 1,
             spoiled' = spoiled \cup Spoils(i) \cup Handed(i, b)
      PROVE  CrashInv'
  <2>1. b \in Block
    BY <1>2, NewBlock
  <2>2. PICK z : z = WithBlock(m, b)
    OBVIOUS
  <2>3. z \in MemInode /\ z.size = m.size /\ m.size \in 0 .. BlockCount
    BY <1>2, <1>3, <2>1, <2>2, AddedBlock DEF MemInode
  <2>4. z = [z EXCEPT !.size = m.size]
    BY <2>3 DEF MemInode
  <2>5. mem' = [mem EXCEPT ![i] = [WithBlock(m, b) EXCEPT !.size = m.size]]
    BY <1>5, <2>2, <2>4
  <2> QED BY <1>0, <1>2, <1>3, <1>5, <2>3, <2>5, ExtendingBegins
<1> QED BY <1>2, <1>4, <1>5

-----------------------------------------------------------------------------
(* Calls that free blocks.                                                  *)

LEMMA FunctionSeq ==
  ASSUME NEW S, NEW n \in Nat, NEW g \in [1 .. n -> S]
  PROVE  g \in Seq(S) /\ Len(g) = n
OBVIOUS

\* The writes w: h others, then one that frees each block of l, then z.
Frees(w, h, l, z) ==
    /\ w \in Seq(Record) /\ Len(w) = h + Len(l) + 1
    /\ w[Len(w)] = z
    /\ \A k \in h + 1 .. h + Len(l) :
         w[k] = BlockWrite(w[k].id, FALSE, NoBlock) /\ w[k].kind = "block" /\ w[k].id \in Elements(l)
    /\ \A b \in Elements(l) : \E k \in h + 1 .. h + Len(l) : w[k].id = b

\* The blocks of l, whatever the order.
FreesAll(u, l) ==
    /\ u \in Seq(Record) /\ Len(u) = Len(l)
    /\ \A k \in 1 .. Len(l) : u[k] = BlockWrite(u[k].id, FALSE, NoBlock)
                            /\ u[k].kind = "block" /\ u[k].id \in Elements(l)
    /\ \A b \in Elements(l) : \E k \in 1 .. Len(l) : u[k].id = b

LEMMA WipeOrder ==
  ASSUME NEW l \in Seq(Block)
  PROVE  FreesAll(WipeWrites(l), l)
<1>0. PICK u : u = WipeWrites(l)
  OBVIOUS
<1>1. PICK n \in Nat : n = Len(l)
  OBVIOUS
<1>2. PICK f : f = [k \in 1 .. n |-> IF k < n THEN l[k+1] ELSE l[1]]
  OBVIOUS
<1>3. ASSUME NEW k \in 1 .. n PROVE \E j \in 1 .. n : f[k] = l[j]
  <2>1. CASE k < n
    <3>1. k + 1 \in 1 .. n /\ f[k] = l[k+1]
      BY <1>2, <2>1
    <3> QED BY <3>1
  <2>2. CASE ~(k < n)
    <3>1. 1 \in 1 .. n /\ f[k] = l[1]
      BY <1>2, <2>2
    <3> QED BY <3>1
  <2> QED BY <2>1, <2>2
<1>4. ASSUME NEW j \in 1 .. n PROVE \E k \in 1 .. n : f[k] = l[j]
  <2>1. CASE j = 1
    <3>1. n \in 1 .. n /\ f[n] = l[1]
      BY <1>2
    <3> QED BY <2>1, <3>1
  <2>2. CASE j # 1
    <3>1. j - 1 \in 1 .. n /\ j - 1 < n /\ (j - 1) + 1 = j
      BY <2>2
    <3>2. f[j - 1] = l[j]
      BY <1>2, <3>1
    <3> QED BY <3>1, <3>2
  <2> QED BY <2>1, <2>2
<1>5. \A k \in 1 .. n : f[k] \in Elements(l) /\ f[k] \in Block
  <2>1. \A j \in 1 .. n : l[j] \in Block
    BY <1>1
  <2> QED BY <1>1, <1>3, <2>1 DEF Elements
<1>6. \A b \in Elements(l) : \E k \in 1 .. n : f[k] = b
  BY <1>1, <1>4 DEF Elements
<1>7. u = [k \in 1 .. n |-> BlockWrite(f[k], FALSE, NoBlock)]
  BY <1>0, <1>1, <1>2 DEF WipeWrites
<1>8. ASSUME NEW b \in Block
      PROVE  /\ BlockWrite(b, FALSE, NoBlock) \in Record /\ BlockWrite(b, FALSE, NoBlock).id = b
             /\ BlockWrite(b, FALSE, NoBlock).kind = "block"
  BY WriteTypes DEF BlockWrite
<1>9. /\ u \in [1 .. n -> Record]
      /\ \A k \in 1 .. n : u[k] = BlockWrite(f[k], FALSE, NoBlock) /\ u[k].id = f[k]
                         /\ u[k].kind = "block"
  BY <1>5, <1>7, <1>8
<1>10. u \in Seq(Record) /\ Len(u) = n
  BY <1>9, FunctionSeq
<1>11. \A b \in Elements(l) : \E k \in 1 .. n : u[k].id = b
  BY <1>6, <1>9
<1>12. \A k \in 1 .. n : u[k] = BlockWrite(u[k].id, FALSE, NoBlock)
                       /\ u[k].kind = "block" /\ u[k].id \in Elements(l)
  BY <1>5, <1>9
<1>13. FreesAll(u, l)
  BY <1>1, <1>10, <1>11, <1>12 DEF FreesAll
<1> QED BY <1>0, <1>13

LEMMA WipeWritesFacts ==
  ASSUME NEW l \in Seq(Block), NEW z \in Record
  PROVE  Frees(WipeWrites(l) \o <<z>>, 0, l, z)
<1>1. PICK u : u = WipeWrites(l)
  OBVIOUS
<1>2. FreesAll(u, l) /\ u \in Seq(Record) /\ Len(u) = Len(l) /\ Len(l) \in Nat
  <2>1. FreesAll(u, l)
    BY <1>1, WipeOrder
  <2>2. u \in Seq(Record) /\ Len(u) = Len(l) /\ Len(l) \in Nat
    BY <2>1 DEF FreesAll
  <2> QED BY <2>1, <2>2
<1>3. PICK t : t = <<z>>
  OBVIOUS
<1>4. t \in Seq(Record) /\ Len(t) = 1 /\ t[1] = z /\ 1 \in 1 .. Len(t)
  BY <1>3
<1>5. PICK w : w = u \o t
  OBVIOUS
<1>6. w \in Seq(Record) /\ IsConcat(u, t, w)
  BY <1>2, <1>4, <1>5, ConcatFacts
<1>7. /\ Len(w) = Len(l) + 1 /\ w[Len(l) + 1] = z
      /\ \A k \in 1 .. Len(l) : w[k] = u[k]
      /\ 0 + Len(l) = Len(l) /\ 0 + 1 = 1 /\ 0 + Len(l) + 1 = Len(l) + 1
  BY <1>2, <1>4, <1>6 DEF IsConcat
<1>8. Frees(w, 0, l, z)
  BY <1>2, <1>6, <1>7 DEF Frees, FreesAll
<1> QED BY <1>1, <1>3, <1>5, <1>8

LEMMA FreesBehind ==
  ASSUME NEW l \in Seq(Block), NEW z \in Record, NEW x \in Record
  PROVE  LET w == <<x>> \o WipeWrites(l) \o <<z>> IN Frees(w, 1, l, z) /\ w[1] = x
<1>1. PICK u : u = WipeWrites(l)
  OBVIOUS
<1>2. PICK s : s = <<x>>
  OBVIOUS
<1>3. PICK t : t = <<z>>
  OBVIOUS
<1>4. /\ s \in Seq(Record) /\ Len(s) = 1 /\ s[1] = x /\ 1 \in 1 .. Len(s)
      /\ t \in Seq(Record) /\ Len(t) = 1 /\ t[1] = z /\ 1 \in 1 .. Len(t)
      /\ Len(l) \in Nat
  BY <1>2, <1>3
<1>5. FreesAll(u, l) /\ u \in Seq(Record) /\ Len(u) = Len(l)
  <2>1. FreesAll(u, l)
    BY <1>1, WipeOrder
  <2>2. u \in Seq(Record) /\ Len(u) = Len(l)
    BY <2>1 DEF FreesAll
  <2> QED BY <2>1, <2>2
<1>6. PICK y : y = s \o u
  OBVIOUS
<1>7. y \in Seq(Record) /\ IsConcat(s, u, y)
  BY <1>4, <1>5, <1>6, ConcatFacts
<1>8. PICK w : w = y \o t
  OBVIOUS
<1>9. w \in Seq(Record) /\ IsConcat(y, t, w)
  BY <1>4, <1>7, <1>8, ConcatFacts
<1>10. /\ Len(y) = Len(l) + 1 /\ Len(w) = Len(l) + 2 /\ 1 \in 1 .. Len(y)
       /\ (Len(l) + 1) + 1 = Len(l) + 2
  BY <1>4, <1>5, <1>7, <1>9 DEF IsConcat
<1>11. w[1] = x /\ w[Len(l) + 2] = z
  BY <1>4, <1>7, <1>9, <1>10 DEF IsConcat
<1>12. \A k \in 1 .. Len(l) : w[1 + k] = u[k]
  <2>1. \A k \in 1 .. Len(l) : 1 + k \in 1 .. Len(y)
    BY <1>4, <1>10
  <2>2. \A k \in 1 .. Len(l) : y[1 + k] = u[k]
    BY <1>4, <1>5, <1>7 DEF IsConcat
  <2> QED BY <1>9, <2>1, <2>2 DEF IsConcat
<1>13. Frees(w, 1, l, z)
  <2>1. \A k \in 2 .. 1 + Len(l) : k - 1 \in 1 .. Len(l) /\ 1 + (k - 1) = k
    BY <1>4
  <2>2. \A k \in 2 .. 1 + Len(l) : w[k] = u[k - 1]
    BY <1>12, <2>1
  <2>3. ASSUME NEW k \in 2 .. 1 + Len(l)
        PROVE  /\ w[k] = BlockWrite(w[k].id, FALSE, NoBlock) /\ w[k].kind = "block"
               /\ w[k].id \in Elements(l)
    <3>1. PICK j \in 1 .. Len(l) : w[k] = u[j]
      BY <2>1, <2>2
    <3> QED BY <1>5, <3>1 DEF FreesAll
  <2>4. ASSUME NEW b \in Elements(l) PROVE \E k \in 2 .. 1 + Len(l) : w[k].id = b
    <3>1. PICK k \in 1 .. Len(l) : u[k].id = b
      BY <1>5 DEF FreesAll
    <3>2. 1 + k \in 2 .. 1 + Len(l) /\ w[1 + k].id = b
      BY <1>4, <1>12, <3>1
    <3> QED BY <3>2
  <2>5. 1 + 1 = 2 /\ 1 + Len(l) + 1 = Len(l) + 2
    BY <1>4
  <2> QED BY <1>9, <1>10, <1>11, <2>3, <2>4, <2>5 DEF Frees
<1> QED BY <1>1, <1>2, <1>3, <1>6, <1>8, <1>11, <1>13

\* The two halves of a chain's list.
LEMMA TwoHalves ==
  ASSUME TypeOK, NEW i \in Inode, NEW p \in Seq(Block), NEW l \in Seq(Block),
         Follows(next, disk[i].first, p \o l)
  PROVE  /\ FileChain(i) = Elements(p) \cup Elements(l)
         /\ Elements(p) \cap Elements(l) = {}
         /\ \A j, k \in 1 .. Len(p) : p[j] = p[k] => j = k
         /\ \A k \in 1 .. Len(p) - 1 : next[p[k]] = p[k+1]
         /\ p # <<>> => p[1] = disk[i].first
<1>1. PICK e : e = p \o l
  OBVIOUS
<1>2. e \in Seq(Block) /\ IsConcat(p, l, e) /\ Follows(next, disk[i].first, e)
  BY <1>1, ConcatFacts
<1>3. FileChain(i) = Elements(p) \cup Elements(l)
  BY <1>1, <1>2, ListIsChain, ConcatElements
<1>4. PICK m \in Nat, n \in Nat : m = Len(p) /\ n = Len(l)
  OBVIOUS
<1>5. /\ Len(e) = m + n /\ \A k \in 1 .. m : e[k] = p[k]
      /\ \A k \in 1 .. n : e[m + k] = l[k]
  BY <1>2, <1>4 DEF IsConcat
<1>6. /\ \A k \in 1 .. m + n - 1 : next[e[k]] = e[k+1]
      /\ \A j, k \in 1 .. m + n : e[j] = e[k] => j = k
      /\ e # <<>> => e[1] = disk[i].first
  BY <1>2, <1>5 DEF Follows
<1>7. ASSUME NEW j \in 1 .. m, NEW k \in 1 .. n PROVE p[j] # l[k]
  <2>1. PICK q : q = m + k
    OBVIOUS
  <2>2. j \in 1 .. m + n /\ q \in 1 .. m + n /\ j # q
    BY <2>1
  <2>3. e[j] = p[j] /\ e[q] = l[k]
    BY <1>5, <2>1
  <2>4. e[j] # e[q]
    BY <1>6, <2>2
  <2> QED BY <2>3, <2>4
<1>8. Elements(p) \cap Elements(l) = {}
  BY <1>4, <1>7 DEF Elements
<1>9. ASSUME NEW j \in 1 .. m, NEW k \in 1 .. m, p[j] = p[k] PROVE j = k
  <2>1. j \in 1 .. m + n /\ k \in 1 .. m + n
    OBVIOUS
  <2> QED BY <1>5, <1>6, <1>9, <2>1
<1>10. ASSUME NEW k \in 1 .. m - 1 PROVE next[p[k]] = p[k+1]
  <2>1. k \in 1 .. m + n - 1 /\ k \in 1 .. m /\ k + 1 \in 1 .. m
    OBVIOUS
  <2> QED BY <1>5, <1>6, <2>1
<1>11. p # <<>> => p[1] = disk[i].first
  <2> SUFFICES ASSUME p # <<>> PROVE p[1] = disk[i].first
    OBVIOUS
  <2>1. m # 0
    BY <1>4
  <2>2. 1 \in 1 .. m /\ Len(e) # 0
    BY <1>4, <1>5, <2>1
  <2> QED BY <1>5, <1>6, <2>2
<1> QED BY <1>3, <1>4, <1>8, <1>9, <1>10, <1>11

\* The blocks those writes free.
LEMMA FreedIs ==
  ASSUME NEW t, NEW h \in {0, 1}, NEW l \in Seq(Block), NEW z, Frees(t, h, l, z),
         h = 1 => t[1].kind = "inode"
  PROVE  Freed(t) = Elements(l)
<1>1. PICK n \in Nat : n = Len(l)
  OBVIOUS
<1>2. /\ Len(t) = h + n + 1
      /\ \A k \in h + 1 .. h + n : t[k].kind = "block" /\ t[k].id \in Elements(l)
      /\ \A b \in Elements(l) : \E k \in h + 1 .. h + n : t[k].id = b
  BY <1>1 DEF Frees
<1>3. Freeing(t) = h + 1 .. h + n
  <2>1. \A k \in 1 .. h + n : k \in h + 1 .. h + n \/ (h = 1 /\ k = 1)
    OBVIOUS
  <2>2. "inode" # "block"
    OBVIOUS
  <2>3. \A k \in h + 1 .. h + n : k \in 1 .. h + n
    OBVIOUS
  <2>4. Len(t) - 1 = h + n
    BY <1>2
  <2> QED BY <1>2, <2>1, <2>2, <2>3, <2>4 DEF Freeing
<1> QED BY <1>2, <1>3 DEF Freed

\* The two parts of a chain: the blocks p that stay, in order, and those of l.
Cut(i, p, l) ==
    /\ FileChain(i) = Elements(p) \cup Elements(l) /\ Elements(p) \cap Elements(l) = {}
    /\ \A j, k \in 1 .. Len(p) : p[j] = p[k] => j = k
    /\ \A k \in 1 .. Len(p) - 1 : next[p[k]] = p[k+1]
    /\ p # <<>> => p[1] = disk[i].first

\* A call begins that frees l, the blocks behind the blocks p of inode i.
LEMMA WipingBegins ==
  ASSUME CrashInv, NEW i \in Sound, spoiled' = spoiled, disk[i].used, todo = <<>>,
         NEW p \in Seq(Block), NEW l \in Seq(Block), Cut(i, p, l),
         NEW w, Begin(i, "wipe", w), NEW h \in {0, 1}, Frees(w, h, l, LastWrite(i)'),
         \/ /\ mem'[i].open /\ p # <<>> /\ mem'[i].list = p /\ mem'[i].first = disk[i].first
            /\ h = 1 /\ w[1] = InodeWrite(i, RecordOf(mem'[i]))
         \/ mem'[i] = NotOpened /\ p = <<>> /\ h = 0
  PROVE  Shrinking(i)'
<1>1. /\ TypeOK /\ todo' = w /\ i \in Inode /\ Sound' = Sound /\ Sound \subseteq Inode
      /\ used' = used /\ next' = next /\ disk' = disk /\ torn' = torn
  BY DEF CrashInv, TypeInv, Begin, Sound
<1>2. \A j \in Inode : FileChain(j)' = FileChain(j)
  BY <1>1 DEF FileChain
<1>3. /\ FileChain(i) = Elements(p) \cup Elements(l)
      /\ Elements(p) \cap Elements(l) = {}
      /\ \A j, k \in 1 .. Len(p) : p[j] = p[k] => j = k
      /\ \A k \in 1 .. Len(p) - 1 : next[p[k]] = p[k+1]
      /\ p # <<>> => p[1] = disk[i].first
  BY DEF Cut
<1>4. mem'[i].list = p
  BY BlankTypes
<1>5. h = 1 => w[1].kind = "inode"
  BY BlankTypes DEF InodeWrite
<1>6. Doomed' = Elements(l)
  <2>1. PICK z : z = LastWrite(i)'
    OBVIOUS
  <2>2. Freed(w) = Elements(l)
    BY <1>5, <2>1, FreedIs
  <2> QED BY <1>1, <2>2 DEF Doomed
<1>7. FileChain(i) \subseteq used /\ \A j \in Sound : j # i => FileChain(j) \cap FileChain(i) = {}
  BY <1>1, Quiet DEF CrashInv, ApartInv
<1>8. todo'[Len(todo')] = LastWrite(i)' /\ Len(w) = h + Len(l) + 1
  BY <1>1 DEF Frees
<1>9. ASSUME NEW k \in 1 .. Len(w) - 1
      PROVE  \/ w[k] = BlockWrite(w[k].id, FALSE, NoBlock)
             \/ k = 1 /\ mem'[i].open /\ w[1] = InodeWrite(i, RecordOf(mem'[i]))
  <2>1. k \in h + 1 .. h + Len(l) \/ (h = 1 /\ k = 1)
    BY <1>8
  <2>2. \A q \in h + 1 .. h + Len(l) : w[q] = BlockWrite(w[q].id, FALSE, NoBlock)
    BY DEF Frees
  <2>3. CASE k \in h + 1 .. h + Len(l)
    BY <2>2, <2>3
  <2>4. CASE h = 1 /\ k = 1
    <3>1. h # 0
      BY <2>4
    <3>2. mem'[i].open /\ w[1] = InodeWrite(i, RecordOf(mem'[i]))
      BY <3>1, Zenon
    <3> QED BY <2>4, <3>2, Zenon
  <2> QED BY <2>1, <2>3, <2>4
<1>10. mem'[i].open => KeptList(i)'
  <2> SUFFICES ASSUME mem'[i].open PROVE KeptList(i)'
    OBVIOUS
  <2>1. p # <<>> /\ mem'[i].first = disk[i].first /\ h = 1
    BY BlankTypes
  <2>2. todo'[1].kind = "inode"
    BY <1>1, <1>5, <2>1
  <2>3. Elements(p) \subseteq used
    BY <1>3, <1>7
  <2> QED BY <1>1, <1>3, <1>4, <2>1, <2>2, <2>3 DEF KeptList
<1>11. /\ FileChain(i)' \cap used' \subseteq Elements(mem'[i].list) \cup Doomed'
       /\ Doomed' \cap Elements(mem'[i].list) = {}
       /\ \A j \in Sound' : j # i => Doomed' \cap FileChain(j)' = {}
  BY <1>1, <1>2, <1>3, <1>4, <1>6, <1>7
<1>12. \A k \in 1 .. Len(todo') - 1 :
         \/ todo'[k] = BlockWrite(todo'[k].id, FALSE, NoBlock)
         \/ k = 1 /\ mem'[i].open /\ todo'[1] = InodeWrite(i, RecordOf(mem'[i]))
  BY <1>1, <1>9
<1> QED BY <1>1, <1>8, <1>10, <1>11, <1>12 DEF Shrinking

\* The hint a wipe leaves is a block, or the one behind the last.
LEMMA LowestType ==
  ASSUME TypeOK, NEW l \in Seq(Block)
  PROVE  Lowest(l) \in 1 .. BlockCount + 1
<1> DEFINE T == {blockHint} \cup {l[k] : k \in DOMAIN l}
<1>1. DOMAIN l = 1 .. Len(l) /\ \A k \in DOMAIN l : l[k] \in Block
  OBVIOUS
<1>2. blockHint \in 1 .. BlockCount + 1
  BY DEF TypeOK, BlockTypeOK
<1>3. T \subseteq 1 .. BlockCount + 1
  BY <1>1, <1>2, BlockCountAssumption DEF Block
<1>4. PICK h \in T : \A m \in T : h <= m
  <2>1. T \in SUBSET Nat /\ T # {}
    BY <1>3
  <2> HIDE DEF T
  <2> QED BY <2>1, LeastNatural
<1>5. \A k \in DOMAIN l : h <= l[k] /\ h <= blockHint
  BY <1>4
<1>6. Lowest(l) \in T
  <2> HIDE DEF T
  <2>1. \E x \in T : \A k \in DOMAIN l : x <= l[k] /\ x <= blockHint
    BY <1>5
  <2>2. (CHOOSE x \in T : \A k \in DOMAIN l : x <= l[k] /\ x <= blockHint) \in T
    BY <2>1
  <2> QED BY <2>2 DEF Lowest, T
<1> QED BY <1>3, <1>6

\* A list in two parts.
LEMMA SplitList ==
  ASSUME NEW l \in Seq(Block), NEW n \in 1 .. Len(l) - 1
  PROVE  /\ SubSeq(l, 1, n) \in Seq(Block) /\ SubSeq(l, n + 1, Len(l)) \in Seq(Block)
         /\ l = SubSeq(l, 1, n) \o SubSeq(l, n + 1, Len(l))
         /\ Len(SubSeq(l, 1, n)) = n /\ SubSeq(l, 1, n)[n] = l[n]
<1>1. PICK p : p = SubSeq(l, 1, n)
  OBVIOUS
<1>2. PICK t : t = SubSeq(l, n + 1, Len(l))
  OBVIOUS
<1>3. n \in Nat /\ n >= 1 /\ n <= Len(l) - 1 /\ Len(l) \in Nat
  OBVIOUS
<1>4. p \in Seq(Block) /\ Len(p) = n /\ \A k \in 1 .. n : p[k] = l[k]
  BY <1>1, <1>3
<1>5. t \in Seq(Block) /\ Len(t) = Len(l) - n /\ \A k \in 1 .. Len(l) - n : t[k] = l[n + k]
  BY <1>2, <1>3
<1>6. PICK e : e = p \o t
  OBVIOUS
<1>7. e \in Seq(Block) /\ IsConcat(p, t, e)
  BY <1>4, <1>5, <1>6, ConcatFacts
<1>8. Len(e) = Len(l) /\ \A k \in 1 .. Len(l) : e[k] = l[k]
  <2>1. /\ Len(e) = n + (Len(l) - n) /\ \A k \in 1 .. n : e[k] = l[k]
        /\ \A k \in 1 .. Len(l) - n : e[n + k] = l[n + k]
    BY <1>4, <1>5, <1>7 DEF IsConcat
  <2>2. ASSUME NEW k \in 1 .. Len(l), ~(k <= n) PROVE e[k] = l[k]
    <3>1. k - n \in 1 .. Len(l) - n /\ n + (k - n) = k
      BY <1>3, <2>2
    <3> QED BY <2>1, <3>1
  <2>3. ASSUME NEW k \in 1 .. Len(l), k <= n PROVE e[k] = l[k]
    BY <1>3, <2>1, <2>3
  <2> QED BY <1>3, <2>1, <2>2, <2>3
<1>9. e = l
  BY <1>7, <1>8
<1> QED BY <1>1, <1>2, <1>3, <1>4, <1>5, <1>6, <1>9

\* What a block leads to is itself and what the next one leads to.
LEMMA ReachSplits ==
  ASSUME TypeOK, NEW a \in Block, NEW b \in Block \cup {NoBlock}, next[a] = b
  PROVE  Reach(next, a) = {a} \cup Reach(next, b)
<1>1. /\ Reach(next, a) \in SUBSET Block /\ a \in Reach(next, a) /\ Closed(next, Reach(next, a))
      /\ Reach(next, b) \in SUBSET Block /\ (b # NoBlock => b \in Reach(next, b))
      /\ Closed(next, Reach(next, b)) /\ a # NoBlock
  BY ReachType DEF TypeOK, BlockTypeOK, Block, NoBlock
<1>2. Reach(next, a) \subseteq {a} \cup Reach(next, b)
  <2>1. Closed(next, {a} \cup Reach(next, b))
    BY <1>1 DEF Closed
  <2> QED BY <1>1, <2>1, ReachLeast
<1>3. Reach(next, b) \subseteq Reach(next, a)
  <2>1. b # NoBlock => b \in Reach(next, a)
    BY <1>1 DEF Closed
  <2> QED BY <1>1, <2>1, ReachLeast
<1> QED BY <1>1, <1>2, <1>3

\* What a chain's list leads to from its n-th block on is the rest of the list.
LEMMA SuffixReach ==
  ASSUME TypeOK, NEW i \in Inode, NEW l \in Seq(Block), Follows(next, disk[i].first, l),
         NEW n \in 1 .. Len(l)
  PROVE  Reach(next, l[n]) = Elements(SubSeq(l, n, Len(l)))
<1>1. PICK t : t = SubSeq(l, n, Len(l))
  OBVIOUS
<1>2. n \in Nat /\ n >= 1 /\ n <= Len(l) /\ Len(l) \in Nat
  OBVIOUS
<1>3. t \in Seq(Block) /\ Len(t) = Len(l) - n + 1 /\ \A k \in 1 .. Len(l) - n + 1 : t[k] = l[n + k - 1]
  BY <1>1, <1>2
<1>4. /\ next[l[Len(l)]] = NoBlock /\ \A k \in 1 .. Len(l) - 1 : next[l[k]] = l[k+1]
      /\ \A j, k \in 1 .. Len(l) : l[j] = l[k] => j = k
  <2>1. l # <<>>
    BY <1>2
  <2> QED BY <2>1 DEF Follows
<1>5. t # <<>> /\ t[1] = l[n] /\ t[Len(t)] = l[Len(l)]
  <2>1. 1 \in 1 .. Len(l) - n + 1 /\ Len(l) - n + 1 \in 1 .. Len(l) - n + 1
        /\ n + 1 - 1 = n /\ n + (Len(l) - n + 1) - 1 = Len(l)
    BY <1>2
  <2> QED BY <1>3, <2>1
<1>6. ASSUME NEW k \in 1 .. Len(t) - 1 PROVE next[t[k]] = t[k+1]
  <2>1. /\ k \in 1 .. Len(l) - n + 1 /\ k + 1 \in 1 .. Len(l) - n + 1
        /\ n + k - 1 \in 1 .. Len(l) - 1 /\ n + (k + 1) - 1 = (n + k - 1) + 1
    BY <1>2, <1>3
  <2>2. PICK q : q = n + k - 1
    OBVIOUS
  <2>3. t[k] = l[q]
    BY <1>3, <2>1, <2>2
  <2>4. t[k+1] = l[q + 1]
    <3>1. t[k+1] = l[n + (k + 1) - 1]
      BY <1>3, <2>1
    <3> QED BY <2>1, <2>2, <3>1
  <2>5. q \in 1 .. Len(l) - 1
    BY <2>1, <2>2
  <2> QED BY <1>4, <2>3, <2>4, <2>5
<1>7. ASSUME NEW j \in 1 .. Len(t), NEW k \in 1 .. Len(t), t[j] = t[k] PROVE j = k
  <2>1. /\ n + j - 1 \in 1 .. Len(l) /\ n + k - 1 \in 1 .. Len(l)
        /\ j \in 1 .. Len(l) - n + 1 /\ k \in 1 .. Len(l) - n + 1
    BY <1>2, <1>3
  <2>2. n + j - 1 = n + k - 1
    BY <1>3, <1>4, <1>7, <2>1
  <2> QED BY <1>2, <2>2
<1>8. Follows(next, l[n], t)
  BY <1>4, <1>5, <1>6, <1>7 DEF Follows
<1>9. l[n] \in Block \cup {NoBlock} /\ next \in [Block -> Block \cup {NoBlock}]
  BY InodeTypes
<1> QED BY <1>1, <1>3, <1>8, <1>9, WholeChain

\* What a wipe meets are the blocks that can be reached.
LEMMA WalkElements ==
  ASSUME TypeOK, NEW b \in Block \cup {NoBlock}, NEW l \in ChainWalks(b)
  PROVE  l \in Seq(Block) /\ Elements(l) = Reach(next, b)
<1> DEFINE R == Reach(next, b)
           D == 1 .. Cardinality(R)
<1>1. R \in SUBSET Block /\ IsFiniteSet(R) /\ Cardinality(R) \in Nat
  BY ReachType, BlockFinite DEF TypeOK, BlockTypeOK
<1>2. l \in [D -> R] /\ \A j, k \in DOMAIN l : l[j] = l[k] => j = k
  BY DEF ChainWalks
<1>3. DOMAIN l = D
  BY <1>2
<1>4. l \in Injection(D, R)
  BY <1>2, <1>3 DEF Injection, IsInjective
<1>5. Cardinality(D) = Cardinality(R)
  BY <1>1, FS_Interval
<1>6. l \in Surjection(D, R)
  <2> HIDE DEF R, D
  <2> QED BY <1>1, <1>4, <1>5, FS_Injection
<1>7. l \in Seq(Block) /\ Len(l) = Cardinality(R)
  <2>1. \A k \in D : l[k] \in Block
    BY <1>1, <1>2
  <2>2. l \in [D -> Block]
    BY <1>2, <2>1
  <2> QED BY <1>1, <2>2, FunctionSeq
<1>8. \A c \in R : \E k \in D : l[k] = c
  BY <1>6 DEF Surjection
<1>9. Elements(l) = R
  BY <1>2, <1>7, <1>8 DEF Elements
<1> QED BY <1>7, <1>9

\* The writes of a wipe, block by block.
LEMMA OnlyFrees ==
  ASSUME NEW i, NEW S, NEW w, NEW h \in {0, 1}, NEW l \in Seq(Block), NEW z, Frees(w, h, l, z),
         Elements(l) \subseteq S,
         IF z.kind = "block" THEN z.id \in S ELSE z.id = i /\ (~z.rec.used => z.rec = Unused),
         h = 1 => w[1].kind # "block" /\ w[1].id = i /\ w[1].rec.used
  PROVE  Only(i, S, w)
<1>1. PICK n \in Nat : n = Len(l)
  OBVIOUS
<1>2. /\ Len(w) = h + n + 1 /\ w[h + n + 1] = z
      /\ \A k \in h + 1 .. h + n : w[k].kind = "block" /\ w[k].id \in Elements(l)
  BY <1>1 DEF Frees
<1>3. \A k \in 1 .. h + n + 1 : k \in h + 1 .. h + n \/ k = h + n + 1 \/ (h = 1 /\ k = 1)
  OBVIOUS
<1> QED BY <1>2, <1>3 DEF Only

LEMMA SpoilsStays ==
  ASSUME CrashInv, NEW i \in Inode, spoiled' = spoiled \cup Spoils(i)
  PROVE  /\ StaySpoiled(i) /\ (i \in spoiled' <=> i \in spoiled)
         /\ i \notin spoiled => spoiled' = spoiled
<1>1. spoiled \subseteq Inode /\ (~torn => spoiled = {})
  BY DEF CrashInv, TypeInv, TypeOK, UntornInv
<1>2. Spoils(i) \subseteq Inode /\ (i \notin spoiled => Spoils(i) = {})
  BY DEF Spoils
<1> QED BY <1>1, <1>2 DEF StaySpoiled

LEMMA ElementsOfOne == \A b : Elements(<<b>>) = {b}
<1> SUFFICES ASSUME NEW b PROVE Elements(<<b>>) = {b}
  OBVIOUS
<1>1. Len(<<b>>) = 1 /\ <<b>>[1] = b /\ 1 .. 1 = {1}
  OBVIOUS
<1> QED BY <1>1 DEF Elements

LEMMA TruncateDownStep ==
  ASSUME CrashInv, NEW i \in Inode, NEW n \in 1 .. BlockCount, TruncateDown(i, n),
         harms' \in 0 .. MaxHarms
  PROVE  CrashInv'
<1>1. PICK l \in Seq(Block) : l = mem[i].list
  BY InodeTypes DEF CrashInv, TypeInv
<1>2. PICK p : p = SubSeq(l, 1, n)
  OBVIOUS
<1>3. PICK second : second = IF n + 2 <= Len(l) THEN l[n+2] ELSE mem[i].after
  OBVIOUS
<1>4. PICK r : r = [RecordOf(mem[i]) EXCEPT !.size = n]
  OBVIOUS
<1>5. PICK x : x = InodeWrite(i, r)
  OBVIOUS
<1>6. PICK z : z = Flushed(mem[i], n, NoBlock)
  OBVIOUS
<1>7. PICK c \in ChainWalks(second) :
        /\ Begin(i, "wipe", <<x>> \o WipeWrites(<<l[n+1]>> \o c) \o <<z>>)
        /\ blockHint' = Lowest(<<l[n+1]>> \o c)
  BY <1>1, <1>3, <1>4, <1>5, <1>6 DEF TruncateDown
<1>8. PICK t : t = <<l[n+1]>> \o c
  OBVIOUS
<1>9. PICK w : w = <<x>> \o WipeWrites(t) \o <<z>>
  OBVIOUS
<1>10. /\ TypeOK /\ mem[i].open /\ n \in 1 .. Len(l) - 1
       /\ Begin(i, "wipe", w) /\ blockHint' = Lowest(t) /\ grown' = grown
       /\ spoiled' = spoiled \cup Spoils(i)
       /\ mem' = [mem EXCEPT ![i] = [mem[i] EXCEPT !.size = n, !.list = p,
                                                  !.unmarked = mem[i].unmarked \cap 1 .. n, !.after = NoBlock]]
       /\ mem \in [Inode -> MemInode] /\ grown \subseteq Inode
  BY <1>1, <1>2, <1>7, <1>8, <1>9 DEF CrashInv, TypeInv, TypeOK, TruncateDown
<1>11. todo = <<>>
  BY <1>10 DEF Begin
<1>12. /\ StaySpoiled(i) /\ (i \in spoiled' <=> i \in spoiled)
       /\ i \notin spoiled => spoiled' = spoiled /\ i \in Sound
  BY <1>10, SpoilsStays DEF Sound
<1>13. /\ p \in Seq(Block) /\ Len(p) = n /\ p[n] = l[n] /\ p # <<>> /\ l[n] \in Block
       /\ l[n+1] \in Block /\ n + 1 \in 1 .. Len(l) /\ n \in 1 .. Len(l) /\ Len(l) \in Nat
  <2>1. p \in Seq(Block) /\ Len(p) = n /\ p[n] = l[n]
    BY <1>2, <1>10, SplitList
  <2>2. n \in 1 .. Len(l) /\ n # 0 /\ n + 1 \in 1 .. Len(l)
    BY <1>10
  <2> QED BY <2>1, <2>2
<1>14. second \in Block \cup {NoBlock}
  <2>1. n + 2 <= Len(l) => n + 2 \in 1 .. Len(l)
    BY <1>13
  <2>2. mem[i].after \in Block \cup {NoBlock}
    BY <1>10 DEF MemInode
  <2> QED BY <1>3, <2>1, <2>2
<1>15. c \in Seq(Block) /\ Elements(c) = Reach(next, second)
  BY <1>10, <1>14, WalkElements
<1>16. t \in Seq(Block) /\ Elements(t) = {l[n+1]} \cup Reach(next, second)
  <2>1. PICK s : s = <<l[n+1]>>
    OBVIOUS
  <2>2. s \in Seq(Block) /\ Elements(s) = {l[n+1]}
    BY <1>13, <2>1, ElementsOfOne
  <2>3. t = s \o c
    BY <1>8, <2>1
  <2>4. t \in Seq(Block)
    BY <1>15, <2>2, <2>3, ConcatFacts
  <2>5. Elements(s \o c) = Elements(s) \cup Elements(c)
    BY <1>15, <2>2, ConcatElements
  <2> QED BY <1>15, <2>2, <2>3, <2>4, <2>5
<1>17. PICK m : m = mem'[i]
  OBVIOUS
<1>18. /\ mem' \in [Inode -> MemInode] /\ m \in MemInode /\ m.open /\ m.size = n /\ m.list = p
       /\ m.first = mem[i].first /\ m.after = NoBlock /\ (mem[i].unmarked = {} => m.unmarked = {})
       /\ \A j \in Inode \ {i} : mem'[j] = mem[j]
  <2>1. mem[i] \in MemInode /\ n \in 0 .. BlockCount
    BY <1>10
  <2>2. PICK u \in SUBSET (1 .. BlockCount) : u = mem[i].unmarked \cap 1 .. n
    BY <2>1 DEF MemInode
  <2>3. PICK v : v = [mem[i] EXCEPT !.size = n, !.list = p, !.unmarked = u, !.after = NoBlock]
    OBVIOUS
  <2>4. /\ v \in MemInode /\ v.open /\ v.size = n /\ v.list = p
        /\ v.first = mem[i].first /\ v.after = NoBlock /\ v.unmarked = u
    BY <1>10, <1>13, <2>1, <2>3 DEF MemInode
  <2>5. mem' = [mem EXCEPT ![i] = v]
    BY <1>10, <2>2, <2>3
  <2> QED BY <1>10, <1>17, <2>2, <2>4, <2>5
<1>19. r = RecordOf(m) /\ r \in DiskInode /\ r.used
  <2>1. PICK q : q = RecordOf(mem[i])
    OBVIOUS
  <2>2. q \in DiskInode /\ q.used /\ q.first = mem[i].first /\ r = [q EXCEPT !.size = n]
    BY <1>4, <1>10, <2>1, RecordType
  <2>3. n \in 0 .. BlockCount
    OBVIOUS
  <2>4. r \in DiskInode /\ r.used /\ r.first = mem[i].first /\ r.size = n
    BY <2>2, <2>3 DEF DiskInode
  <2>5. PICK e : e = RecordOf(m)
    OBVIOUS
  <2>6. e \in DiskInode /\ e.used /\ e.first = mem[i].first /\ e.size = n
    BY <1>18, <2>5, RecordType
  <2>7. r = e
    BY <2>4, <2>6, SameRecord
  <2> QED BY <2>4, <2>5, <2>7
<1>20. x \in Record /\ x.kind = "inode" /\ x.id = i /\ x.rec = r
  BY <1>5, <1>19, WriteTypes, WriteFields
<1>21. /\ z \in Record /\ z.kind = "block" /\ z.id = l[n]
       /\ mem[i].unmarked = {} => z = BlockWrite(l[n], TRUE, NoBlock)
  <2>1. PICK y \in Block : y = l[n]
    BY <1>13
  <2>2. PICK u \in BOOLEAN : u = (n \notin mem[i].unmarked)
    OBVIOUS
  <2>3. z = BlockWrite(y, u, NoBlock)
    BY <1>1, <1>6, <2>1, <2>2 DEF Flushed
  <2>4. BlockWrite(y, u, NoBlock) \in Record
    BY WriteTypes
  <2>5. mem[i].unmarked = {} => u = TRUE
    BY <2>2
  <2>6. z.kind = "block" /\ z.id = y
    BY <2>3 DEF BlockWrite
  <2>7. z \in Record
    BY <2>3, <2>4
  <2>8. mem[i].unmarked = {} => z = BlockWrite(y, TRUE, NoBlock)
    BY <2>3, <2>5
  <2> QED BY <2>1, <2>6, <2>7, <2>8
<1>22. Frees(w, 1, t, z) /\ w[1] = x
  BY <1>9, <1>16, <1>20, <1>21, FreesBehind
<1>23. w \in Seq(Record) /\ w # <<>>
  <2>1. w \in Seq(Record) /\ Len(w) = 1 + Len(t) + 1 /\ Len(t) \in Nat
    BY <1>16, <1>22 DEF Frees
  <2> QED BY <2>1
<1>24. ASSUME i \in spoiled' PROVE Tainted(i)'
  <2>1. /\ l[n] \in Held(i) \cap Block /\ l[n+1] \in Held(i) \cap Block
        /\ Reach(next, mem[i].after) \subseteq Held(i) \cap Block
        /\ \A k \in 1 .. Len(l) : Reach(next, l[k]) \subseteq Held(i) \cap Block
    BY <1>1, <1>10, <1>13, HeldHas
  <2>2. Reach(next, second) \subseteq Held(i) \cap Block
    <3>1. n + 2 <= Len(l) => n + 2 \in 1 .. Len(l)
      BY <1>13
    <3> QED BY <1>3, <2>1, <3>1
  <2>3. Held(i) \cap Block \subseteq Harmless'
    BY <1>10, <1>12, <1>24, HeldIsHarmless
  <2>4. PICK S : S = Harmless'
    OBVIOUS
  <2>5. Elements(t) \subseteq S /\ z.id \in S
    BY <1>16, <1>21, <2>1, <2>2, <2>3, <2>4
  <2>6. "inode" # "block" /\ 1 \in {0, 1}
    OBVIOUS
  <2>7. Only(i, S, w)
    BY <1>16, <1>19, <1>20, <1>21, <1>22, <2>5, <2>6, OnlyFrees
  <2> QED BY <1>10, <2>4, <2>7, TaintedBegins
<1>25. ASSUME i \notin spoiled' PROVE Shrinking(i)'
  <2>1. i \in Sound /\ spoiled' = spoiled /\ mem[i].unmarked = {} /\ mem[i].after = NoBlock
    BY <1>12, <1>25 DEF CrashInv, CleanInv
  <2>2. disk[i].used /\ mem[i].first = disk[i].first /\ Follows(next, disk[i].first, l)
    BY <1>1, <1>10, <1>11, <2>1, Quiet
  <2>3. PICK d : d = SubSeq(l, n + 1, Len(l))
    OBVIOUS
  <2>4. d \in Seq(Block) /\ l = p \o d
    BY <1>2, <1>10, <2>3, SplitList
  <2>5. Cut(i, p, d)
    <3>1. Follows(next, disk[i].first, p \o d)
      BY <2>2, <2>4
    <3>2. /\ FileChain(i) = Elements(p) \cup Elements(d)
          /\ Elements(p) \cap Elements(d) = {}
          /\ \A j, k \in 1 .. Len(p) : p[j] = p[k] => j = k
          /\ \A k \in 1 .. Len(p) - 1 : next[p[k]] = p[k+1]
          /\ p # <<>> => p[1] = disk[i].first
      BY <1>10, <1>13, <2>4, <3>1, TwoHalves
    <3> QED BY <3>2 DEF Cut
  <2>6. Elements(d) = Elements(t)
    <3>1. Elements(d) = Reach(next, l[n+1])
      BY <1>10, <1>13, <2>2, <2>3, SuffixReach
    <3>2. CASE n + 2 <= Len(l)
      <4>1. n + 2 \in 1 .. Len(l) /\ second = l[n+2] /\ n + 1 \in 1 .. Len(l) - 1 /\ (n + 1) + 1 = n + 2
        BY <1>3, <1>13, <3>2
      <4>2. next[l[n+1]] = l[n+2]
        BY <2>2, <4>1 DEF Follows
      <4>3. PICK a \in Block, b \in Block : a = l[n+1] /\ b = l[n+2]
        BY <4>1
      <4>4. Reach(next, a) = {a} \cup Reach(next, b)
        BY <1>10, <4>2, <4>3, ReachSplits
      <4> QED BY <1>16, <3>1, <4>1, <4>3, <4>4
    <3>3. CASE ~(n + 2 <= Len(l))
      <4>1. n + 1 = Len(l) /\ second = NoBlock
        BY <1>3, <1>13, <2>1, <3>3
      <4>2. next[l[n+1]] = NoBlock
        <5>1. l # <<>>
          BY <1>13
        <5> QED BY <2>2, <4>1, <5>1 DEF Follows
      <4>3. PICK a \in Block : a = l[n+1]
        BY <1>13
      <4>4. Reach(next, a) = {a} \cup Reach(next, NoBlock)
        BY <1>10, <4>2, <4>3, ReachSplits
      <4> QED BY <1>16, <3>1, <4>1, <4>3, <4>4
    <3> QED BY <3>2, <3>3
  <2>7. Cut(i, p, t)
    BY <2>5, <2>6 DEF Cut
  <2>8. LastWrite(i)' = z
    <3>1. LastWrite(i)' = BlockWrite(m.list[Len(m.list)], TRUE, NoBlock)
      BY <1>17, <1>18 DEF LastWrite
    <3> QED BY <1>13, <1>18, <1>21, <2>1, <3>1
  <2>9. Frees(w, 1, t, LastWrite(i)')
    BY <1>22, <2>8
  <2>10. mem'[i].open /\ p # <<>> /\ mem'[i].list = p /\ mem'[i].first = disk[i].first
         /\ w[1] = InodeWrite(i, RecordOf(mem'[i]))
    BY <1>5, <1>13, <1>17, <1>18, <1>19, <1>22, <2>2
  <2>11. 1 \in {0, 1}
    OBVIOUS
  <2> QED BY <1>10, <1>11, <1>13, <1>16, <2>1, <2>2, <2>7, <2>9, <2>10, <2>11, WipingBegins
<1>26. TypeOK'
  <2>1. blockHint' \in 1 .. BlockCount + 1 /\ grown' \subseteq Inode /\ spoiled' \subseteq Inode
    BY <1>10, <1>12, <1>16, LowestType DEF StaySpoiled
  <2> QED BY <1>10, <1>18, <1>23, <2>1, BeginType
<1>27. /\ \A j \in Inode \ {i} : mem'[j] = mem[j] /\ (j \in grown' <=> j \in grown)
       /\ (~mem'[i].open => mem'[i] = NotOpened) /\ mem'[i].size <= Len(mem'[i].list)
       /\ "wipe" # "write"
  BY <1>10, <1>13, <1>17, <1>18
<1>28. i \notin spoiled' => mem'[i].unmarked = {} /\ mem'[i].after = NoBlock
  BY <1>12, <1>17, <1>18 DEF CrashInv, CleanInv
<1>29. i \notin spoiled' => Pending(i, "wipe")'
  BY <1>25 DEF Pending
<1> QED BY <1>10, <1>12, <1>23, <1>24, <1>26, <1>27, <1>28, <1>29, BeginStep

LEMMA UnlinkStep ==
  ASSUME CrashInv, NEW i \in Inode, Unlink(i), harms' \in 0 .. MaxHarms
  PROVE  CrashInv'
<1>1. PICK l \in ChainWalks(disk[i].first) :
        /\ Begin(i, "wipe", WipeWrites(l) \o <<InodeWrite(i, Unused)>>)
        /\ blockHint' = Lowest(l)
  BY DEF Unlink
<1>2. /\ TypeOK /\ todo = <<>> /\ disk[i].used /\ ~mem[i].open /\ mem' = mem
      /\ spoiled' = spoiled \cup Spoils(i)
      /\ grown' = grown \ {i} /\ mem \in [Inode -> MemInode] /\ grown \subseteq Inode
  BY <1>1 DEF CrashInv, TypeInv, TypeOK, Unlink, Begin
<1>3. l \in Seq(Block) /\ Elements(l) = FileChain(i)
  BY <1>2, WalkElements, InodeTypes DEF FileChain
<1>4. PICK z : z = InodeWrite(i, Unused)
  OBVIOUS
<1>5. z \in Record /\ z.kind # "block" /\ z.id = i /\ z.rec = Unused
  BY <1>4, WriteTypes, WriteFields, BlankTypes
<1>6. PICK w : w = WipeWrites(l) \o <<z>>
  OBVIOUS
<1>7. Frees(w, 0, l, z) /\ Begin(i, "wipe", w)
  BY <1>1, <1>3, <1>4, <1>5, <1>6, WipeWritesFacts
<1>8. w \in Seq(Record) /\ w # <<>>
  <2>1. w \in Seq(Record) /\ Len(w) = 0 + Len(l) + 1 /\ Len(l) \in Nat
    BY <1>3, <1>7 DEF Frees
  <2> QED BY <2>1
<1>9. mem'[i] = NotOpened /\ ~mem'[i].open
  BY <1>2, BlankTypes DEF CrashInv, TypeInv
<1>10. LastWrite(i)' = z
  BY <1>4, <1>9 DEF LastWrite
<1>11. /\ StaySpoiled(i) /\ (i \in spoiled' <=> i \in spoiled)
       /\ i \notin spoiled => spoiled' = spoiled /\ i \in Sound
  BY <1>2, SpoilsStays DEF Sound
<1>12. 0 \in {0, 1} /\ 0 # 1
  OBVIOUS
<1>13. ASSUME i \notin spoiled' PROVE Shrinking(i)'
  <2>1. PICK p : p = <<>>
    OBVIOUS
  <2>2. p \in Seq(Block) /\ Len(p) = 0 /\ Elements(p) = {}
    BY <2>1 DEF Elements
  <2>3. Cut(i, p, l)
    BY <1>3, <2>1, <2>2 DEF Cut
  <2>4. Frees(w, 0, l, LastWrite(i)')
    BY <1>7, <1>10
  <2> QED BY <1>2, <1>3, <1>7, <1>9, <1>11, <1>12, <1>13, <2>1, <2>2, <2>3, <2>4, WipingBegins
<1>14. ASSUME i \in spoiled' PROVE Tainted(i)'
  <2>1. PICK S : S = Harmless'
    OBVIOUS
  <2>2. Elements(l) \subseteq S
    <3>1. Held(i) \cap Block \subseteq Harmless'
      BY <1>2, <1>7, <1>11, <1>14, HeldIsHarmless
    <3> QED BY <1>2, <1>3, <2>1, <3>1, HeldHas
  <2>3. Only(i, S, w)
    BY <1>3, <1>5, <1>7, <1>12, <2>2, OnlyFrees
  <2> QED BY <1>7, <2>1, <2>3, TaintedBegins
<1>15. TypeOK'
  <2>1. blockHint' \in 1 .. BlockCount + 1 /\ grown' \subseteq Inode /\ spoiled' \subseteq Inode
    BY <1>1, <1>2, <1>3, <1>11, LowestType DEF StaySpoiled
  <2> QED BY <1>2, <1>7, <1>8, <2>1, BeginType
<1>16. /\ \A j \in Inode \ {i} : mem'[j] = mem[j] /\ (j \in grown' <=> j \in grown)
       /\ "wipe" # "write"
       /\ i \notin spoiled' => mem'[i].unmarked = {} /\ mem'[i].after = NoBlock
  BY <1>2, <1>9, BlankTypes
<1>17. i \notin spoiled' => Pending(i, "wipe")'
  BY <1>13 DEF Pending
<1> QED BY <1>7, <1>8, <1>9, <1>11, <1>14, <1>15, <1>16, <1>17, BeginStep


-----------------------------------------------------------------------------
(* The writes.                                                              *)

LEMMA TailFacts ==
  ASSUME NEW t \in Seq(Record), t # <<>>
  PROVE  /\ Head(t) = t[1] /\ t[1] \in Record /\ Tail(t) \in Seq(Record)
         /\ Len(t) \in Nat \ {0} /\ Len(Tail(t)) = Len(t) - 1 /\ (Len(t) = 1 => Tail(t) = <<>>)
         /\ \A k \in 1 .. Len(t) - 1 : Tail(t)[k] = t[k+1]
         /\ Leading(t) = {Led(t[1])} \cup Leading(Tail(t))
         /\ Freed(Tail(t)) \subseteq Freed(t)
         /\ Freed(t) \subseteq Freed(Tail(t)) \cup {t[1].id}
         /\ t[1].kind # "block" => Freed(t) = Freed(Tail(t))
         /\ Len(t) > 1 /\ t[1].kind = "block" => t[1].id \in Freed(t)
<1>1. PICK n \in Nat \ {0} : n = Len(t)
  OBVIOUS
<1>2. PICK e : e = Tail(t)
  OBVIOUS
<1>3. /\ Head(t) = t[1] /\ t[1] \in Record /\ e \in Seq(Record)
      /\ Len(e) = n - 1 /\ \A k \in 1 .. n - 1 : e[k] = t[k+1]
  BY <1>1, <1>2
<1>4. ASSUME NEW k \in 1 .. n, k # 1 PROVE k - 1 \in 1 .. n - 1 /\ e[k - 1] = t[k]
  <2>1. k - 1 \in 1 .. n - 1 /\ (k - 1) + 1 = k
    BY <1>4
  <2> QED BY <1>3, <2>1
<1>5. Leading(t) = {Led(t[1])} \cup Leading(e)
  <2>1. ASSUME NEW b \in Leading(t) PROVE b = Led(t[1]) \/ b \in Leading(e)
    <3>1. PICK k \in 1 .. n : b = Led(t[k])
      BY <1>1 DEF Leading
    <3>2. ASSUME k # 1 PROVE b \in Leading(e)
      <4>1. k - 1 \in 1 .. Len(e) /\ b = Led(e[k - 1])
        BY <1>3, <1>4, <3>1, <3>2
      <4> QED BY <4>1 DEF Leading
    <3> QED BY <3>1, <3>2
  <2>2. Led(t[1]) \in Leading(t)
    <3>1. 1 \in 1 .. Len(t)
      BY <1>1
    <3> QED BY <3>1 DEF Leading
  <2>3. ASSUME NEW b \in Leading(e) PROVE b \in Leading(t)
    <3>1. PICK k \in 1 .. n - 1 : b = Led(e[k])
      BY <1>3 DEF Leading
    <3>2. k + 1 \in 1 .. Len(t) /\ b = Led(t[k+1])
      BY <1>1, <1>3, <3>1
    <3> QED BY <3>2 DEF Leading
  <2> QED BY <2>1, <2>2, <2>3
<1>6. Freed(e) \subseteq Freed(t)
  <2> SUFFICES ASSUME NEW b \in Freed(e) PROVE b \in Freed(t)
    OBVIOUS
  <2>1. PICK k \in Freeing(e) : b = e[k].id
    BY DEF Freed
  <2>2. k \in 1 .. (n - 1) - 1 /\ e[k].kind = "block"
    BY <1>3, <2>1 DEF Freeing
  <2>3. k \in 1 .. n - 1 /\ k + 1 \in 1 .. n - 1
    BY <2>2
  <2>4. k + 1 \in Freeing(t) /\ b = t[k+1].id
    BY <1>1, <1>3, <2>1, <2>2, <2>3 DEF Freeing
  <2> QED BY <2>4 DEF Freed
<1>7. ASSUME NEW b \in Freed(t)
      PROVE  b \in Freed(e) \/ (b = t[1].id /\ t[1].kind = "block")
  <2>1. PICK k \in Freeing(t) : b = t[k].id
    BY DEF Freed
  <2>2. k \in 1 .. n - 1 /\ t[k].kind = "block"
    BY <1>1, <2>1 DEF Freeing
  <2>3. ASSUME k # 1 PROVE b \in Freed(e)
    <3>1. k \in 1 .. n /\ k - 1 \in 1 .. (n - 1) - 1
      BY <2>2, <2>3
    <3>2. k - 1 \in Freeing(e) /\ b = e[k - 1].id
      BY <1>3, <1>4, <2>1, <2>2, <2>3, <3>1 DEF Freeing
    <3> QED BY <3>2 DEF Freed
  <2> QED BY <2>1, <2>2, <2>3
<1>8. ASSUME n > 1, t[1].kind = "block" PROVE t[1].id \in Freed(t)
  <2>1. 1 \in Freeing(t)
    BY <1>1, <1>8 DEF Freeing
  <2> QED BY <2>1 DEF Freed
<1>9. Freed(t) \subseteq Freed(e) \cup {t[1].id} /\ (t[1].kind # "block" => Freed(t) = Freed(e))
  BY <1>6, <1>7
<1>10. n = 1 => e = <<>>
  BY <1>3
<1> QED BY <1>1, <1>2, <1>3, <1>5, <1>6, <1>8, <1>9, <1>10

\* The last write frees nothing more.
LEMMA LastFreesNothing ==
  ASSUME NEW t, Len(t) = 1
  PROVE  Freed(t) = {}
<1>1. Freeing(t) = {}
  BY DEF Freeing
<1> QED BY <1>1 DEF Freed

\* What every write leaves alone.
LEMMA WriteKeeps ==
  ASSUME TypeInv, WriteRecord
  PROVE  /\ todo # <<>> /\ todo' = Tail(todo) /\ todo' \in Seq(Record) /\ todo[1] \in Record
         /\ blockHint' = blockHint /\ mem' = mem /\ torn' = torn /\ spoiled' = spoiled
         /\ grown' = grown /\ crashes' = crashes /\ harms' = harms /\ Sound' = Sound
         /\ busy' = IF todo' = <<>> THEN Idle ELSE busy
         /\ busy' \in [inode: Inode \cup {NoInode}, op: {"none", "write", "wipe"}]
         /\ \A k \in DOMAIN todo' : todo'[k].kind \in {"block", "inode"}
<1>1. todo # <<>> /\ todo' = Tail(todo) /\ todo \in Seq(Record)
  BY DEF WriteRecord, TypeInv
<1>2. todo' \in Seq(Record) /\ todo[1] \in Record
  BY <1>1, TailFacts
<1>3. \A k \in DOMAIN todo' : todo'[k] \in Record
  BY <1>2
<1>4. \A k \in DOMAIN todo' : todo'[k].kind \in {"block", "inode"}
  BY <1>3 DEF Record, BlockRecord, InodeRecord
<1>5. busy' = IF todo' = <<>> THEN Idle ELSE busy
  BY DEF WriteRecord
<1>6. busy' \in [inode: Inode \cup {NoInode}, op: {"none", "write", "wipe"}]
  BY <1>5 DEF TypeInv, TypeOK, Idle
<1> QED BY <1>1, <1>2, <1>4, <1>5, <1>6 DEF WriteRecord, Sound

LEMMA WroteBlock ==
  ASSUME TypeInv, WriteRecord, NEW x \in Block, NEW u \in BOOLEAN, NEW n \in Block \cup {NoBlock},
         todo[1] = BlockWrite(x, u, n)
  PROVE  /\ TypeOK' /\ disk' = disk /\ next' = [next EXCEPT ![x] = n]
         /\ used' = (IF u THEN used \cup {x} ELSE used \ {x})
<1>1. Head(todo) = BlockWrite(x, u, n)
  BY WriteKeeps, TailFacts DEF TypeInv
<1>2. PICK w : w = BlockWrite(x, u, n)
  OBVIOUS
<1>3. w.kind = "block" /\ w.id = x /\ w.used = u /\ w.next = n
  BY <1>2 DEF BlockWrite
<1>4. /\ disk' = disk /\ next' = [next EXCEPT ![x] = n]
      /\ used' = (IF u THEN used \cup {x} ELSE used \ {x})
  BY <1>1, <1>2, <1>3 DEF WriteRecord
<1>5. used' \subseteq Block /\ next' \in [Block -> Block \cup {NoBlock}]
  BY <1>4 DEF TypeInv, TypeOK, BlockTypeOK
<1>6. TypeOK'
  BY <1>4, <1>5, WriteKeeps DEF TypeInv, TypeOK, BlockTypeOK
<1> QED BY <1>4, <1>6

LEMMA WroteInode ==
  ASSUME TypeInv, WriteRecord, NEW i \in Inode, NEW r \in DiskInode, todo[1] = InodeWrite(i, r)
  PROVE  /\ TypeOK' /\ used' = used /\ next' = next /\ disk' = [disk EXCEPT ![i] = r]
<1>1. Head(todo) = InodeWrite(i, r)
  BY WriteKeeps, TailFacts DEF TypeInv
<1>2. PICK w : w = InodeWrite(i, r)
  OBVIOUS
<1>3. w.kind # "block" /\ w.id = i /\ w.rec = r
  BY <1>2 DEF InodeWrite
<1>4. used' = used /\ next' = next /\ disk' = [disk EXCEPT ![i] = r]
  BY <1>1, <1>2, <1>3 DEF WriteRecord
<1>5. disk' \in [Inode -> DiskInode]
  BY <1>4 DEF TypeInv, TypeOK
<1>6. TypeOK'
  BY <1>4, <1>5, WriteKeeps DEF TypeInv, TypeOK, BlockTypeOK
<1> QED BY <1>4, <1>6

\* A chain none of whose links is written stays what it was.
LEMMA ChainKept ==
  ASSUME TypeOK, TypeOK', NEW j \in Inode, disk'[j].first = disk[j].first,
         \A c \in FileChain(j) : next'[c] = next[c]
  PROVE  /\ FileChain(j)' = FileChain(j)
         /\ \A l \in Seq(Block) :
              Follows(next, disk[j].first, l) => Follows(next', disk'[j].first, l)
<1>1. /\ next \in [Block -> Block \cup {NoBlock}] /\ next' \in [Block -> Block \cup {NoBlock}]
      /\ disk[j].first \in Block \cup {NoBlock}
  BY InodeTypes DEF TypeOK, BlockTypeOK
<1>2. FileChain(j)' = FileChain(j)
  BY <1>1, SameReach DEF FileChain
<1>3. ASSUME NEW l \in Seq(Block), Follows(next, disk[j].first, l)
      PROVE  Follows(next', disk'[j].first, l)
  <2>1. FileChain(j) = Elements(l)
    BY <1>3, ListIsChain
  <2>2. \A k \in 1 .. Len(l) : next'[l[k]] = next[l[k]]
    BY <2>1 DEF Elements
  <2>3. \A k \in 1 .. Len(l) - 1 : k \in 1 .. Len(l)
    OBVIOUS
  <2>4. l # <<>> => Len(l) \in 1 .. Len(l)
    OBVIOUS
  <2> QED BY <1>3, <2>2, <2>3, <2>4 DEF Follows
<1> QED BY <1>2, <1>3

\* A write of the call on a sound inode i keeps the invariant when what it does
\* to i does.
LEMMA WriteStep ==
  ASSUME CrashInv, WriteRecord, TypeOK', NEW i \in Inode, i \in Sound, i = busy.inode,
         ~disk'[i].used => disk'[i] = Unused,
         \A j \in Inode \ {i} : disk'[j] = disk[j],
         \A j \in Sound \ {i} : /\ FileChain(j) \cap used \subseteq used'
                                /\ \A c \in FileChain(j) : next'[c] = next[c]
                                /\ FileChain(i)' \cap FileChain(j) = {},
         \A c \in Block \ used' : next'[c] = NoBlock \/ (c \notin used /\ next'[c] = next[c]),
         Wiping(i)' \/ FileChain(i)' \subseteq used',
         i \in grown \/ Wiping(i)' \/ disk'[i].size <= Cardinality(FileChain(i)'),
         used' \ used \subseteq FileChain(i)' \cup Spare',
         (FileChain(i) \cup Spare) \cap used' \subseteq FileChain(i)' \cup Spare',
         mem[i].open /\ todo' = <<>> =>
           /\ disk'[i].used /\ mem[i].first = disk'[i].first
           /\ Follows(next', disk'[i].first, mem[i].list),
         todo' # <<>> =>
           IF busy.op = "wipe" THEN Shrinking(i)'
           ELSE \/ \E r \in DiskInode : Recording(i, r)'
                \/ \E p \in Seq(Block), b \in Block, r \in DiskInode : Extending(i, p, b, r)'
  PROVE  CrashInv'
<1>1. /\ TypeOK /\ TypeInv /\ todo # <<>> /\ todo' \in Seq(Record)
      /\ mem' = mem /\ torn' = torn /\ grown' = grown /\ crashes' = crashes
      /\ spoiled' = spoiled /\ Sound' = Sound /\ busy' = IF todo' = <<>> THEN Idle ELSE busy
  BY WriteKeeps DEF CrashInv, TypeInv
<1>2. /\ \A j \in Inode \ {i} : ~Changing(j) /\ ~Wiping(j) /\ ~Changing(j)' /\ ~Wiping(j)'
      /\ Changing(i) /\ (Changing(i)' <=> todo' # <<>>)
  BY <1>1 DEF Changing, Wiping
<1>3. \A j \in Sound \ {i} :
        /\ j \in Inode /\ FileChain(j)' = FileChain(j)
        /\ \A l \in Seq(Block) :
             Follows(next, disk[j].first, l) => Follows(next', disk'[j].first, l)
  <2> SUFFICES ASSUME NEW j \in Sound \ {i}
               PROVE  /\ j \in Inode /\ FileChain(j)' = FileChain(j)
                      /\ \A l \in Seq(Block) :
                           Follows(next, disk[j].first, l) => Follows(next', disk'[j].first, l)
    OBVIOUS
  <2>1. j \in Inode /\ j # i
    BY DEF Sound
  <2> QED BY <1>1, <2>1, ChainKept
<1>4. TypeInv'
  <2>1. \A j \in Inode : ~disk'[j].used => disk'[j] = Unused
    BY <1>1 DEF TypeInv
  <2>2. IF todo' = <<>> THEN busy' = Idle ELSE busy'.inode \in Inode /\ busy'.op \in {"write", "wipe"}
    BY <1>1 DEF TypeInv
  <2>3. \A j \in Inode : ~mem'[j].open => mem'[j] = NotOpened
    BY <1>1 DEF TypeInv
  <2> QED BY <1>1, <2>1, <2>2, <2>3 DEF TypeInv
<1>5. MemInv' /\ CleanInv'
  <2>1. CleanInv'
    BY <1>1 DEF CrashInv, CleanInv
  <2> SUFFICES ASSUME NEW j \in Sound, mem[j].open, ~Changing(j)'
               PROVE  /\ disk'[j].used /\ mem[j].first = disk'[j].first
                      /\ Follows(next', disk'[j].first, mem[j].list)
    BY <1>1, <2>1 DEF MemInv
  <2>2. CASE j = i
    BY <1>2, <2>2
  <2>3. CASE j # i
    <3>1. /\ j \in Inode /\ disk[j].used /\ mem[j].first = disk[j].first
          /\ Follows(next, disk[j].first, mem[j].list)
      BY <1>2, <1>3, <2>3 DEF CrashInv, MemInv
    <3>2. mem[j].list \in Seq(Block) /\ disk'[j] = disk[j]
      BY <1>1, <2>3, <3>1, InodeTypes
    <3> QED BY <1>3, <2>3, <3>1, <3>2
  <2> QED BY <2>2, <2>3
<1>6. ApartInv'
  <2> SUFFICES ASSUME NEW j \in Sound, NEW k \in Sound, j # k
               PROVE  FileChain(j)' \cap FileChain(k)' = {}
    BY <1>1 DEF ApartInv
  <2>1. CASE j # i /\ k # i
    BY <1>3, <2>1 DEF CrashInv, ApartInv
  <2>2. CASE j = i
    BY <1>3, <2>2
  <2>3. CASE k = i
    BY <1>3, <2>3
  <2> QED BY <2>1, <2>2, <2>3
<1>7. MarkedInv'
  <2> SUFFICES ASSUME NEW j \in Sound, ~Wiping(j)'
               PROVE  FileChain(j)' \subseteq used'
    BY <1>1 DEF MarkedInv
  <2>1. CASE j = i
    BY <2>1
  <2>2. CASE j # i
    <3>1. FileChain(j) \subseteq used
      BY <1>2, <1>3, <2>2 DEF CrashInv, MarkedInv
    <3> QED BY <1>3, <2>2, <3>1
  <2> QED BY <2>1, <2>2
<1>8. SizeInv'
  <2> SUFFICES ASSUME NEW j \in Sound, j \notin grown
               PROVE  /\ mem[j].open => mem[j].size <= Len(mem[j].list)
                      /\ Wiping(j)' \/ disk'[j].size <= Cardinality(FileChain(j)')
    BY <1>1 DEF SizeInv
  <2>1. mem[j].open => mem[j].size <= Len(mem[j].list)
    BY DEF CrashInv, SizeInv
  <2>2. CASE j = i
    BY <2>1, <2>2
  <2>3. CASE j # i
    <3>1. disk[j].size <= Cardinality(FileChain(j)) /\ disk'[j] = disk[j]
      BY <1>2, <1>3, <2>3 DEF CrashInv, SizeInv
    <3> QED BY <1>3, <2>1, <2>3, <3>1
  <2> QED BY <2>2, <2>3
<1>9. LeakInv'
  <2>1. ASSUME ~torn PROVE Leaked' \subseteq Leaked
    <3> SUFFICES ASSUME NEW b \in Leaked' PROVE b \in Leaked
      OBVIOUS
    <3>1. b \in used' /\ b \notin Spare' /\ \A j \in Inode : b \notin FileChain(j)'
      BY DEF Leaked, Reachable
    <3>2. b \in used /\ b \notin Spare /\ b \notin FileChain(i)
      BY <3>1
    <3>3. Sound = Inode
      BY <2>1 DEF CrashInv, UntornInv, Sound
    <3>4. \A j \in Inode : b \notin FileChain(j)
      BY <1>3, <3>1, <3>2, <3>3
    <3> QED BY <3>2, <3>4 DEF Leaked, Reachable
  <2> QED BY <1>1, <2>1, LeakShrinks DEF CrashInv
<1>10. UntornInv'
  BY <1>1 DEF CrashInv, UntornInv
<1>11. PendingInv'
  <2> SUFFICES ASSUME NEW j \in Inode, Changing(j)'
               PROVE  IF j \in spoiled' THEN Tainted(j)' ELSE Pending(j, busy.op)'
    BY DEF PendingInv
  <2>1. j = i /\ todo' # <<>> /\ busy' = busy /\ i \notin spoiled'
    BY <1>1, <1>2 DEF Sound
  <2> QED BY <2>1 DEF Pending
<1> QED BY <1>4, <1>5, <1>6, <1>7, <1>8, <1>9, <1>10, <1>11 DEF CrashInv

\* A write of the call on a spoiled inode touches no sound file.
LEMMA TaintedWriteStep ==
  ASSUME CrashInv, WriteRecord, NEW i \in Inode, i \in spoiled, i = busy.inode, Tainted(i)
  PROVE  CrashInv'
<1>1. /\ TypeOK /\ TypeInv /\ todo # <<>> /\ todo \in Seq(Record) /\ todo' \in Seq(Record)
      /\ mem' = mem /\ torn' = torn /\ grown' = grown /\ crashes' = crashes
      /\ spoiled' = spoiled /\ Sound' = Sound /\ busy' = IF todo' = <<>> THEN Idle ELSE busy
      /\ todo' = Tail(todo) /\ todo[1] \in Record
  BY WriteKeeps DEF CrashInv, TypeInv
<1>2. torn /\ Sound \subseteq Inode /\ i \notin Sound
  <2>1. torn \in BOOLEAN
    BY <1>1 DEF TypeOK
  <2> QED BY <2>1 DEF CrashInv, UntornInv, Sound
<1>3. PICK w \in Record : w = todo[1]
  BY <1>1
<1>4. /\ IF w.kind = "block" THEN w.id \in Harmless ELSE w.id = i /\ (~w.rec.used => w.rec = Unused)
      /\ Only(i, Harmless, todo')
  <2>1. PICK n \in Nat \ {0} : n = Len(todo)
    BY <1>1, TailFacts
  <2>2. /\ Len(todo') = n - 1 /\ \A k \in 1 .. n - 1 : todo'[k] = todo[k+1]
    BY <1>1, <2>1, TailFacts
  <2>3. 1 \in 1 .. n /\ \A k \in 1 .. n - 1 : k + 1 \in 1 .. n
    OBVIOUS
  <2> QED BY <1>3, <2>1, <2>2, <2>3 DEF Tainted, Only
<1>5. /\ TypeOK' /\ (\A j \in Inode : ~disk'[j].used => disk'[j] = Unused)
      /\ \A j \in Sound : /\ disk'[j] = disk[j] /\ FileChain(j) \cap used \subseteq used'
                          /\ \A c \in FileChain(j) : next'[c] = next[c]
  <2>1. CASE w \in BlockRecord
    <3>1. PICK x \in Block, u \in BOOLEAN, n \in Block \cup {NoBlock} : w = BlockWrite(x, u, n)
      BY <2>1 DEF BlockRecord, BlockWrite
    <3>2. x \in Harmless
      BY <1>4, <3>1, WriteFields
    <3>3. /\ TypeOK' /\ disk' = disk /\ next' = [next EXCEPT ![x] = n]
          /\ used' = (IF u THEN used \cup {x} ELSE used \ {x})
      BY <1>1, <1>3, <3>1, WroteBlock
    <3>4. \A j \in Sound : x \notin FileChain(j) /\ FileChain(j) \subseteq Block
      BY <1>1, <1>2, <3>2, ChainType DEF Harmless
    <3>5. \A c \in Block : c # x => next'[c] = next[c]
      BY <1>1, <3>3 DEF TypeOK, BlockTypeOK
    <3> QED BY <1>1, <3>3, <3>4, <3>5 DEF TypeInv
  <2>2. CASE w \in InodeRecord
    <3>1. PICK d \in Inode, r \in DiskInode : w = InodeWrite(d, r)
      BY <2>2 DEF InodeRecord, InodeWrite
    <3>2. d = i /\ (~r.used => r = Unused)
      BY <1>4, <3>1 DEF InodeWrite
    <3>3. TypeOK' /\ used' = used /\ next' = next /\ disk' = [disk EXCEPT ![i] = r]
      BY <1>1, <1>3, <3>1, <3>2, WroteInode
    <3>4. disk'[i] = r /\ \A j \in Inode \ {i} : disk'[j] = disk[j]
      BY <1>1, <3>3 DEF TypeOK
    <3> QED BY <1>1, <1>2, <3>2, <3>3, <3>4 DEF TypeInv
  <2> QED BY <2>1, <2>2 DEF Record
<1>6. \A j \in Sound :
        /\ FileChain(j)' = FileChain(j)
        /\ \A l \in Seq(Block) :
             Follows(next, disk[j].first, l) => Follows(next', disk'[j].first, l)
  BY <1>1, <1>2, <1>5, ChainKept
<1>7. \A j \in Sound : ~Changing(j) /\ ~Wiping(j) /\ ~Changing(j)' /\ ~Wiping(j)'
  BY <1>1, <1>2 DEF Changing, Wiping
<1>8. TypeInv'
  BY <1>1, <1>5 DEF TypeInv
<1>9. MemInv' /\ CleanInv'
  <2>1. CleanInv'
    BY <1>1 DEF CrashInv, CleanInv
  <2>2. \A j \in Sound : mem[j].list \in Seq(Block)
    BY <1>1, <1>2, InodeTypes
  <2>3. MemInv'
    BY <1>1, <1>5, <1>6, <1>7, <2>2 DEF CrashInv, MemInv
  <2> QED BY <2>1, <2>3
<1>10. ApartInv' /\ MarkedInv' /\ SizeInv'
  BY <1>1, <1>5, <1>6, <1>7 DEF CrashInv, ApartInv, MarkedInv, SizeInv
<1>11. LeakInv' /\ UntornInv'
  BY <1>1, <1>2 DEF LeakInv, UntornInv
<1>12. Harmless' = Harmless
  BY <1>1, <1>6 DEF Harmless
<1>13. PendingInv'
  <2> SUFFICES ASSUME NEW j \in Inode, Changing(j)'
               PROVE  IF j \in spoiled' THEN Tainted(j)' ELSE Pending(j, busy.op)'
    BY DEF PendingInv
  <2>1. j = i /\ i \in spoiled'
    BY <1>1 DEF Changing
  <2>2. Tainted(i)'
    BY <1>4, <1>12 DEF Tainted
  <2> QED BY <2>1, <2>2
<1> QED BY <1>8, <1>9, <1>10, <1>11, <1>13 DEF CrashInv

\* The calls that do not wipe.
LEMMA RecordingStep ==
  ASSUME CrashInv, WriteRecord, NEW i \in Inode, i \in Sound, i = busy.inode, busy.op = "write",
         NEW r \in DiskInode, Recording(i, r)
  PROVE  CrashInv'
<1>1. /\ TypeOK /\ TypeInv /\ todo = <<InodeWrite(i, r)>> /\ todo' = <<>> /\ todo[1] = InodeWrite(i, r)
      /\ ~Wiping(i) /\ Sound' = Sound /\ spoiled' = spoiled /\ grown' = grown /\ "write" # "wipe"
  <2>1. todo = <<InodeWrite(i, r)>>
    BY DEF Recording
  <2>2. todo[1] = InodeWrite(i, r) /\ Tail(todo) = <<>>
    BY <2>1
  <2> QED BY <2>1, <2>2, WriteKeeps DEF CrashInv, TypeInv, Wiping
<1>2. TypeOK' /\ used' = used /\ next' = next /\ disk' = [disk EXCEPT ![i] = r]
  BY <1>1, WroteInode
<1>3. /\ r.used /\ r.first = disk[i].first /\ disk'[i] = r
      /\ \A j \in Inode \ {i} : disk'[j] = disk[j]
  BY <1>1, <1>2 DEF Recording, TypeOK
<1>4. FileChain(i)' = FileChain(i)
  BY <1>1, <1>2, <1>3, ChainKept
<1>5. FileChain(i) \subseteq used
  BY <1>1 DEF CrashInv, MarkedInv
<1>6. \A j \in Sound \ {i} : FileChain(i) \cap FileChain(j) = {}
  BY DEF CrashInv, ApartInv
<1>7. Spare \subseteq FileChain(i) \cup {NoBlock}
  <2>1. Spare = {Led(InodeWrite(i, r))}
    BY <1>1 DEF Spare, Leading
  <2>2. Led(InodeWrite(i, r)) = r.first
    BY DEF Led, InodeWrite
  <2> QED BY <1>1, <1>3, <2>1, <2>2, ChainType
<1>8. NoBlock \notin used'
  BY <1>2 DEF TypeOK, BlockTypeOK, Block, NoBlock
<1>9. i \in grown \/ disk'[i].size <= Cardinality(FileChain(i)')
  BY <1>3, <1>4 DEF Recording
<1>10. mem[i].open => /\ disk'[i].used /\ mem[i].first = disk'[i].first
                      /\ Follows(next', disk'[i].first, mem[i].list)
  BY <1>2, <1>3 DEF Recording
<1>11. \A j \in Sound \ {i} : /\ FileChain(j) \cap used \subseteq used'
                              /\ \A c \in FileChain(j) : next'[c] = next[c]
                              /\ FileChain(i)' \cap FileChain(j) = {}
  BY <1>2, <1>3, <1>4, <1>6
<1>12. /\ used' \ used \subseteq FileChain(i)' \cup Spare'
       /\ (FileChain(i) \cup Spare) \cap used' \subseteq FileChain(i)' \cup Spare'
  BY <1>2, <1>4, <1>7, <1>8
<1>13. (~disk'[i].used => disk'[i] = Unused) /\ (FileChain(i)' \subseteq used')
  BY <1>2, <1>3, <1>4, <1>5
<1>14. \A c \in Block \ used' : next'[c] = NoBlock \/ (c \notin used /\ next'[c] = next[c])
  BY <1>2
<1> QED BY <1>1, <1>2, <1>3, <1>9, <1>10, <1>11, <1>12, <1>13, <1>14, WriteStep

\* Block b is linked behind the last block of p.
IsLinked(nx, p, b, ny, e) == ny = [nx EXCEPT ![p[Len(p)]] = b] /\ e = Append(p, b)

LEMMA LongerChain ==
  ASSUME NEW nx \in [Block -> Block \cup {NoBlock}], NEW f, NEW p \in Seq(Block), p # <<>>,
         Follows(nx, f, p), NEW b \in Block, b \notin Elements(p), nx[b] = NoBlock,
         NEW ny, NEW e, IsLinked(nx, p, b, ny, e)
  PROVE  /\ Follows(ny, f, e) /\ e \in Seq(Block)
         /\ Elements(e) = Elements(p) \cup {b} /\ Len(e) = Len(p) + 1
<1>1. PICK n \in Nat \ {0} : n = Len(p)
  OBVIOUS
<1>3. /\ e \in Seq(Block) /\ Len(e) = n + 1 /\ e[n + 1] = b /\ \A k \in 1 .. n : e[k] = p[k]
      /\ \A k \in 1 .. n : p[k] \in Block
  BY <1>1 DEF IsLinked
<1>4. Elements(e) = Elements(p) \cup {b}
  <2>1. \A k \in 1 .. n + 1 : k = n + 1 \/ k \in 1 .. n
    OBVIOUS
  <2>2. n + 1 \in 1 .. n + 1 /\ \A k \in 1 .. n : k \in 1 .. n + 1
    OBVIOUS
  <2> QED BY <1>1, <1>3, <2>1, <2>2 DEF Elements
<1>5. /\ p[1] = f /\ nx[p[n]] = NoBlock /\ \A k \in 1 .. n - 1 : nx[p[k]] = p[k+1]
      /\ \A j, k \in 1 .. n : p[j] = p[k] => j = k
  BY <1>1 DEF Follows
<1>6. n \in 1 .. n /\ 1 \in 1 .. n /\ \A k \in 1 .. n : p[k] # b
  BY <1>1 DEF Elements
<1>8. ny[p[n]] = b /\ \A c \in Block : c # p[n] => ny[c] = nx[c]
  BY <1>1, <1>3, <1>6 DEF IsLinked
<1>9. ASSUME NEW k \in 1 .. n PROVE ny[e[k]] = e[k+1]
  <2>1. CASE k = n
    BY <1>3, <1>6, <1>8, <2>1
  <2>2. CASE k # n
    <3>1. k \in 1 .. n - 1 /\ k + 1 \in 1 .. n
      BY <2>2
    <3>2. p[k] # p[n] /\ nx[p[k]] = p[k+1]
      BY <1>5, <1>6, <2>2, <3>1
    <3> QED BY <1>3, <1>8, <3>1, <3>2
  <2> QED BY <2>1, <2>2
<1>10. ny[b] = NoBlock
  BY <1>6, <1>8
<1>11. ASSUME NEW j \in 1 .. n + 1, NEW k \in 1 .. n + 1, e[j] = e[k] PROVE j = k
  <2>1. CASE j = n + 1 /\ k = n + 1
    BY <2>1
  <2>2. CASE j \in 1 .. n /\ k \in 1 .. n
    BY <1>3, <1>5, <1>11, <2>2
  <2>3. CASE j \in 1 .. n /\ k = n + 1
    BY <1>3, <1>6, <1>11, <2>3
  <2>4. CASE j = n + 1 /\ k \in 1 .. n
    BY <1>3, <1>6, <1>11, <2>4
  <2>5. (j = n + 1 \/ j \in 1 .. n) /\ (k = n + 1 \/ k \in 1 .. n)
    OBVIOUS
  <2> QED BY <2>1, <2>2, <2>3, <2>4, <2>5
<1>12. Follows(ny, f, e)
  <2>1. e # <<>> /\ e[1] = f /\ ny[e[Len(e)]] = NoBlock
    BY <1>3, <1>5, <1>6, <1>10
  <2>2. \A k \in 1 .. Len(e) - 1 : ny[e[k]] = e[k+1]
    <3>1. Len(e) - 1 = n
      BY <1>3
    <3> QED BY <1>9, <3>1
  <2>3. \A j, k \in 1 .. Len(e) : e[j] = e[k] => j = k
    BY <1>3, <1>11
  <2> QED BY <2>1, <2>2, <2>3 DEF Follows
<1> QED BY <1>1, <1>3, <1>4, <1>12

LEMMA LinkType ==
  ASSUME NEW i \in Inode, NEW p \in Seq(Block), NEW b \in Block, NEW r \in DiskInode, r.first = b
  PROVE  Link(i, p, b, r) \in Record /\ Led(Link(i, p, b, r)) = b
<1>1. CASE p = <<>>
  <2>1. Link(i, p, b, r) = InodeWrite(i, r)
    BY <1>1 DEF Link
  <2>2. InodeWrite(i, r) \in Record /\ Led(InodeWrite(i, r)) = b
    BY WriteTypes DEF Led, InodeWrite
  <2> QED BY <2>1, <2>2
<1>2. CASE p # <<>>
  <2>1. Link(i, p, b, r) = BlockWrite(p[Len(p)], TRUE, b) /\ p[Len(p)] \in Block
    BY <1>2 DEF Link
  <2>2. BlockWrite(p[Len(p)], TRUE, b) \in Record /\ Led(BlockWrite(p[Len(p)], TRUE, b)) = b
    BY <2>1, WriteTypes DEF Led, BlockWrite
  <2> QED BY <2>1, <2>2
<1> QED BY <1>1, <1>2

\* What leads to the new block is written: the record of an inode that had no
\* block, or the block that was the last one.
LEMMA LinkStep ==
  ASSUME CrashInv, WriteRecord, NEW i \in Inode, i \in Sound, i = busy.inode, busy.op = "write",
         NEW p \in Seq(Block), NEW b \in Block, NEW r \in DiskInode, Extending(i, p, b, r),
         todo = <<Link(i, p, b, r)>>, b \in used, next[b] = NoBlock
  PROVE  CrashInv'
<1>1. /\ TypeOK /\ TypeInv /\ todo' = <<>> /\ todo[1] = Link(i, p, b, r)
      /\ ~Wiping(i) /\ Sound' = Sound /\ spoiled' = spoiled /\ grown' = grown /\ "write" # "wipe"
  <2>1. todo[1] = Link(i, p, b, r) /\ Tail(todo) = <<>>
    OBVIOUS
  <2> QED BY <2>1, WriteKeeps DEF CrashInv, TypeInv, Wiping
<1>2. /\ mem[i].open /\ disk[i].used /\ mem[i].list = Append(p, b)
      /\ Follows(next, disk[i].first, p)
      /\ mem[i].first = IF p = <<>> THEN b ELSE disk[i].first
      /\ b \in Harmless /\ r.used /\ r.first = b
      /\ i \in grown \/ p # <<>> \/ r.size <= 1
  BY DEF Extending
<1>3. /\ FileChain(i) = Elements(p) /\ Cardinality(FileChain(i)) = Len(p)
      /\ \A j \in Sound : b \notin FileChain(j)
      /\ next \in [Block -> Block \cup {NoBlock}] /\ disk[i].first \in Block \cup {NoBlock}
  BY <1>1, <1>2, ListIsChain, InodeTypes DEF Harmless
<1>4. Spare = {b}
  <2>1. Spare = {Led(Link(i, p, b, r))}
    BY DEF Spare, Leading
  <2> QED BY <1>2, <2>1, LinkType
<1>5. FileChain(i) \subseteq used
  BY <1>1 DEF CrashInv, MarkedInv
<1>6. \A j \in Sound \ {i} : FileChain(i) \cap FileChain(j) = {}
  BY DEF CrashInv, ApartInv
<1>7. i \in grown \/ disk[i].size <= Len(p)
  BY <1>1, <1>3 DEF CrashInv, SizeInv
<1>8. CASE p = <<>>
  <2>1. todo[1] = InodeWrite(i, r)
    BY <1>1, <1>8 DEF Link
  <2>2. TypeOK' /\ used' = used /\ next' = next /\ disk' = [disk EXCEPT ![i] = r]
    BY <1>1, <2>1, WroteInode
  <2>3. disk'[i] = r /\ \A j \in Inode \ {i} : disk'[j] = disk[j]
    BY <1>1, <2>2 DEF TypeOK
  <2>4. PICK l : l = <<b>>
    OBVIOUS
  <2>5. /\ l \in Seq(Block) /\ Len(l) = 1 /\ l[1] = b /\ l # <<>> /\ mem[i].list = l
        /\ Elements(l) = {b}
    BY <1>2, <1>8, <2>4 DEF Elements
  <2>6. Follows(next, b, l)
    BY <2>5 DEF Follows
  <2>7. FileChain(i)' = {b} /\ Cardinality(FileChain(i)') = 1
    <3>1. Reach(next, b) = Elements(l) /\ Cardinality(Reach(next, b)) = Len(l)
      <4>1. b \in Block \cup {NoBlock} /\ l \in Seq(Block)
        BY <2>5
      <4>2. next \in [Block -> Block \cup {NoBlock}]
        BY <1>3
      <4> QED BY <2>6, <4>1, <4>2, WholeChain, Zenon
    <3>2. FileChain(i)' = Reach(next, b)
      BY <1>2, <2>2, <2>3 DEF FileChain
    <3> QED BY <2>5, <3>1, <3>2
  <2>8. FileChain(i) = {}
    BY <1>3, <1>8 DEF Elements
  <2>9. \A j \in Sound \ {i} : /\ FileChain(j) \cap used \subseteq used'
                              /\ \A c \in FileChain(j) : next'[c] = next[c]
                               /\ FileChain(i)' \cap FileChain(j) = {}
    BY <1>3, <2>2, <2>3, <2>7
  <2>10. /\ disk'[i].used /\ mem[i].first = disk'[i].first
         /\ Follows(next', disk'[i].first, mem[i].list)
    BY <1>2, <1>8, <2>2, <2>3, <2>5, <2>6
  <2>11. i \in grown \/ disk'[i].size <= Cardinality(FileChain(i)')
    BY <1>2, <1>8, <2>3, <2>7
  <2>12. /\ FileChain(i)' \subseteq used' /\ used' \ used \subseteq FileChain(i)' \cup Spare'
         /\ (FileChain(i) \cup Spare) \cap used' \subseteq FileChain(i)' \cup Spare'
    BY <1>4, <2>2, <2>7, <2>8
  <2>13. \A c \in Block \ used' : next'[c] = NoBlock \/ (c \notin used /\ next'[c] = next[c])
    BY <2>2
  <2> QED BY <1>1, <2>2, <2>3, <2>9, <2>10, <2>11, <2>12, <2>13, WriteStep
<1>9. CASE p # <<>>
  <2>1. PICK x \in Block : x = p[Len(p)] /\ x \in FileChain(i)
    <3>1. Len(p) \in 1 .. Len(p) /\ p[Len(p)] \in Block
      BY <1>9
    <3>2. p[Len(p)] \in Elements(p)
      BY <3>1 DEF Elements
    <3> QED BY <1>3, <3>1, <3>2
  <2>2. todo[1] = BlockWrite(x, TRUE, b)
    BY <1>1, <1>9, <2>1 DEF Link
  <2>3. TypeOK' /\ disk' = disk /\ next' = [next EXCEPT ![x] = b] /\ used' = used \cup {x}
    BY <1>1, <2>2, WroteBlock
  <2>4. PICK l : l = Append(p, b)
    OBVIOUS
  <2>5. /\ Follows(next', disk[i].first, l) /\ l \in Seq(Block)
        /\ Elements(l) = FileChain(i) \cup {b} /\ Len(l) = Len(p) + 1
    <3>1. b \notin Elements(p) /\ next' = [next EXCEPT ![p[Len(p)]] = b]
      BY <1>3, <2>1, <2>3
    <3>2. PICK nx, f : nx = next /\ f = disk[i].first
      OBVIOUS
    <3>3. nx \in [Block -> Block \cup {NoBlock}] /\ Follows(nx, f, p) /\ nx[b] = NoBlock
      BY <1>2, <1>3, <3>1, <3>2
    <3>4. next' = [nx EXCEPT ![p[Len(p)]] = b]
      BY <3>1, <3>2
    <3>5. /\ Follows(next', f, l) /\ l \in Seq(Block)
          /\ Elements(l) = Elements(p) \cup {b} /\ Len(l) = Len(p) + 1
      <4>1. p # <<>> /\ b \notin Elements(p)
        BY <1>9, <3>1
      <4>2. IsLinked(nx, p, b, next', l)
        BY <2>4, <3>4 DEF IsLinked
      <4> QED BY <3>3, <4>1, <4>2, LongerChain
    <3> QED BY <1>3, <3>2, <3>5
  <2>6. FileChain(i)' = FileChain(i) \cup {b} /\ Cardinality(FileChain(i)') = Len(p) + 1
    <3>1. next' \in [Block -> Block \cup {NoBlock}]
      BY <2>3 DEF TypeOK, BlockTypeOK
    <3>2. /\ Reach(next', disk[i].first) = Elements(l)
          /\ Cardinality(Reach(next', disk[i].first)) = Len(l)
      BY <1>3, <2>5, <3>1, WholeChain
    <3>3. FileChain(i)' = Reach(next', disk[i].first)
      BY <2>3 DEF FileChain
    <3> QED BY <2>5, <3>2, <3>3
  <2>7. \A j \in Sound \ {i} : /\ FileChain(j) \cap used \subseteq used'
                               /\ \A c \in FileChain(j) : next'[c] = next[c]
                               /\ FileChain(i)' \cap FileChain(j) = {}
    <3> SUFFICES ASSUME NEW j \in Sound \ {i}
                 PROVE  /\ \A c \in FileChain(j) : next'[c] = next[c]
                        /\ FileChain(i)' \cap FileChain(j) = {}
      BY <2>3
    <3>1. x \notin FileChain(j) /\ FileChain(j) \subseteq Block /\ b \notin FileChain(j)
      BY <1>1, <1>3, <1>6, <2>1, ChainType DEF Sound
    <3> QED BY <1>3, <1>6, <2>3, <2>6, <3>1
  <2>8. /\ disk'[i].used /\ mem[i].first = disk'[i].first
        /\ Follows(next', disk'[i].first, mem[i].list)
    BY <1>2, <1>9, <2>3, <2>4, <2>5
  <2>9. i \in grown \/ disk'[i].size <= Cardinality(FileChain(i)')
    <3>1. disk[i].size \in Nat /\ Len(p) \in Nat
      BY <1>1, InodeTypes
    <3> QED BY <1>7, <2>3, <2>6, <3>1
  <2>10. FileChain(i)' \subseteq used'
    BY <1>5, <2>3, <2>6
  <2>11. /\ used' \ used \subseteq FileChain(i)' \cup Spare'
         /\ (FileChain(i) \cup Spare) \cap used' \subseteq FileChain(i)' \cup Spare'
    BY <1>4, <2>1, <2>3, <2>6
  <2>12. ~disk'[i].used => disk'[i] = Unused
    BY <1>2, <2>3
  <2>13. \A c \in Block \ used' : next'[c] = NoBlock \/ (c \notin used /\ next'[c] = next[c])
    BY <1>3, <2>1, <2>3
  <2> QED BY <1>1, <2>3, <2>7, <2>8, <2>9, <2>10, <2>11, <2>12, <2>13, WriteStep
<1> QED BY <1>8, <1>9

LEMMA PairTail ==
  ASSUME NEW x, NEW y, NEW t, t = <<x, y>>
  PROVE  Tail(t) = <<y>> /\ t[1] = x /\ <<y>> # <<>>
<1> DEFINE S == {x, y}
<1>1. t \in Seq(S) /\ Len(t) = 2 /\ t[1] = x /\ t[2] = y
  OBVIOUS
<1>2. PICK d : d = Tail(t)
  OBVIOUS
<1>3. d \in Seq(S) /\ Len(d) = 1 /\ d[1] = y
  BY <1>1, <1>2
<1>4. d = <<y>>
  BY <1>3
<1>5. <<y>> # <<>>
  OBVIOUS
<1> QED BY <1>1, <1>2, <1>4, <1>5

LEMMA TripleTail ==
  ASSUME NEW x, NEW y, NEW z, NEW t, t = <<x, y, z>>
  PROVE  Tail(t) = <<y, z>> /\ t[1] = x /\ <<y, z>> # <<>>
<1> DEFINE S == {x, y, z}
<1>1. t \in Seq(S) /\ Len(t) = 3 /\ t[1] = x /\ t[2] = y /\ t[3] = z
  OBVIOUS
<1>2. PICK d : d = Tail(t)
  OBVIOUS
<1>3. d \in Seq(S) /\ Len(d) = 2 /\ d[1] = y /\ d[2] = z
  BY <1>1, <1>2
<1>4. d = <<y, z>>
  BY <1>3
<1>5. <<y, z>> # <<>>
  OBVIOUS
<1> QED BY <1>1, <1>2, <1>4, <1>5

\* The new block is marked used; what leads to it is written next.
LEMMA MarkStep ==
  ASSUME CrashInv, WriteRecord, NEW i \in Inode, i \in Sound, i = busy.inode, busy.op = "write",
         NEW p \in Seq(Block), NEW b \in Block, NEW r \in DiskInode, Extending(i, p, b, r),
         todo = <<BlockWrite(b, TRUE, NoBlock), Link(i, p, b, r)>>, b \notin used
  PROVE  CrashInv'
<1>1. PICK y : y = Link(i, p, b, r)
  OBVIOUS
<1>2. PICK x : x = BlockWrite(b, TRUE, NoBlock)
  OBVIOUS
<1>3. todo = <<x, y>> /\ todo[1] = x /\ Tail(todo) = <<y>> /\ <<y>> # <<>>
  <2>1. todo = <<x, y>>
    BY <1>1, <1>2
  <2> QED BY <2>1, PairTail, Zenon
<1>4. /\ TypeOK /\ TypeInv /\ todo' = <<y>> /\ todo' # <<>> /\ mem' = mem
      /\ ~Wiping(i) /\ Sound' = Sound /\ spoiled' = spoiled /\ grown' = grown /\ "write" # "wipe"
  BY <1>3, WriteKeeps DEF CrashInv, TypeInv, Wiping
<1>5. /\ mem[i].open /\ disk[i].used /\ mem[i].list = Append(p, b)
      /\ Follows(next, disk[i].first, p)
      /\ mem[i].first = IF p = <<>> THEN b ELSE disk[i].first
      /\ b \in Harmless /\ r.used /\ r.first = b
      /\ i \in grown \/ p # <<>> \/ r.size <= 1
  BY DEF Extending
<1>6. TypeOK' /\ disk' = disk /\ next' = [next EXCEPT ![b] = NoBlock] /\ used' = used \cup {b}
  BY <1>2, <1>3, <1>4, WroteBlock
<1>7. ASSUME NEW j \in Sound
      PROVE  /\ FileChain(j)' = FileChain(j) /\ \A c \in FileChain(j) : next'[c] = next[c]
             /\ Follows(next, disk[j].first, p) => Follows(next', disk'[j].first, p)
  <2>1. j \in Inode /\ b \notin FileChain(j) /\ FileChain(j) \subseteq Block
    BY <1>4, <1>5, ChainType DEF Harmless, Sound
  <2>2. \A c \in FileChain(j) : next'[c] = next[c]
    BY <1>4, <1>6, <2>1 DEF TypeOK, BlockTypeOK
  <2> QED BY <1>4, <1>6, <2>1, <2>2, ChainKept
<1>8. Harmless' = Harmless
  BY <1>4, <1>7 DEF Harmless
<1>9. next'[b] = NoBlock
  BY <1>4, <1>6 DEF TypeOK, BlockTypeOK
<1>10. Extending(i, p, b, r)'
  <2>1. todo' = <<Link(i, p, b, r)>> /\ b \in used'
    BY <1>1, <1>4, <1>6
  <2>2. Follows(next', disk'[i].first, p)
    BY <1>5, <1>7
  <2> QED BY <1>4, <1>5, <1>6, <1>8, <1>9, <2>1, <2>2 DEF Extending
<1>11. Spare' = {b}
  <2>1. Spare' = {Led(y)}
    BY <1>4 DEF Spare, Leading
  <2> QED BY <1>1, <1>5, <2>1, LinkType
<1>12. Spare \subseteq {b, NoBlock}
  <2>1. Leading(todo) = {Led(x)} \cup Leading(<<y>>)
    <3>1. todo # <<>> /\ todo \in Seq(Record)
      BY <1>4, WriteKeeps DEF TypeInv
    <3> QED BY <1>3, <3>1, TailFacts
  <2>2. Leading(<<y>>) = {Led(y)}
    BY DEF Leading
  <2>3. Led(x) = NoBlock /\ Led(y) = b
    BY <1>1, <1>2, <1>5, LinkType DEF Led, BlockWrite
  <2> QED BY <2>1, <2>2, <2>3 DEF Spare
<1>13. NoBlock \notin used'
  BY <1>6 DEF TypeOK, BlockTypeOK, Block, NoBlock
<1>14. /\ used' \ used \subseteq FileChain(i)' \cup Spare'
       /\ (FileChain(i) \cup Spare) \cap used' \subseteq FileChain(i)' \cup Spare'
  BY <1>6, <1>7, <1>11, <1>12, <1>13
<1>15. FileChain(i)' \subseteq used'
  BY <1>4, <1>6, <1>7 DEF CrashInv, MarkedInv
<1>16. i \in grown \/ disk'[i].size <= Cardinality(FileChain(i)')
  BY <1>4, <1>6, <1>7 DEF CrashInv, SizeInv
<1>17. \A j \in Sound \ {i} : /\ FileChain(j) \cap used \subseteq used'
                              /\ \A c \in FileChain(j) : next'[c] = next[c]
                              /\ FileChain(i)' \cap FileChain(j) = {}
  BY <1>6, <1>7 DEF CrashInv, ApartInv
<1>18. \E q \in Seq(Block), c \in Block, s \in DiskInode : Extending(i, q, c, s)'
  BY <1>10
<1>19. ~disk'[i].used => disk'[i] = Unused
  BY <1>5, <1>6
<1>20. \A c \in Block \ used' : next'[c] = NoBlock \/ (c \notin used /\ next'[c] = next[c])
  BY <1>4, <1>6 DEF TypeOK, BlockTypeOK
<1> QED BY <1>4, <1>6, <1>14, <1>15, <1>16, <1>17, <1>18, <1>19, <1>20, WriteStep

\* A truncation writes the larger size before the block there is to be for it.
LEMMA SizeFirstStep ==
  ASSUME CrashInv, WriteRecord, NEW i \in Inode, i \in Sound, i = busy.inode, busy.op = "write",
         NEW p \in Seq(Block), NEW b \in Block, NEW r \in DiskInode, Extending(i, p, b, r),
         NEW q \in DiskInode, q.used, q.first = disk[i].first, i \in grown, b \notin used,
         todo = <<InodeWrite(i, q), BlockWrite(b, TRUE, NoBlock), Link(i, p, b, r)>>
  PROVE  CrashInv'
<1>1. PICK y, z : y = BlockWrite(b, TRUE, NoBlock) /\ z = Link(i, p, b, r)
  OBVIOUS
<1>2. PICK x : x = InodeWrite(i, q)
  OBVIOUS
<1>3. todo = <<x, y, z>> /\ todo[1] = x /\ Tail(todo) = <<y, z>> /\ <<y, z>> # <<>>
  <2>1. todo = <<x, y, z>>
    BY <1>1, <1>2
  <2>2. PICK t : t = todo
    OBVIOUS
  <2>3. t = <<x, y, z>>
    BY <2>1, <2>2
  <2>4. Tail(t) = <<y, z>> /\ t[1] = x /\ <<y, z>> # <<>>
    BY <2>3, TripleTail
  <2> QED BY <2>1, <2>2, <2>4, Zenon
<1>4. /\ TypeOK /\ TypeInv /\ todo' = <<y, z>> /\ todo' # <<>> /\ mem' = mem
      /\ ~Wiping(i) /\ Sound' = Sound /\ spoiled' = spoiled /\ grown' = grown /\ "write" # "wipe"
  BY <1>3, WriteKeeps DEF CrashInv, TypeInv, Wiping
<1>5. /\ mem[i].open /\ disk[i].used /\ mem[i].list = Append(p, b)
      /\ Follows(next, disk[i].first, p)
      /\ mem[i].first = IF p = <<>> THEN b ELSE disk[i].first
      /\ b \in Harmless /\ r.used /\ r.first = b
      /\ i \in grown \/ p # <<>> \/ r.size <= 1
  BY DEF Extending
<1>6. TypeOK' /\ used' = used /\ next' = next /\ disk' = [disk EXCEPT ![i] = q]
  BY <1>2, <1>3, <1>4, WroteInode
<1>7. disk'[i] = q /\ \A j \in Inode \ {i} : disk'[j] = disk[j]
  BY <1>4, <1>6 DEF TypeOK
<1>8. \A j \in Inode : FileChain(j)' = FileChain(j)
  <2>1. \A j \in Inode : disk'[j].first = disk[j].first
    BY <1>7
  <2> QED BY <1>6, <2>1 DEF FileChain
<1>9. Harmless' = Harmless
  BY <1>4, <1>8 DEF Harmless, Sound
<1>10. Extending(i, p, b, r)'
  <2>1. todo' = <<BlockWrite(b, TRUE, NoBlock), Link(i, p, b, r)>> /\ b \notin used'
    BY <1>1, <1>4, <1>6
  <2> QED BY <1>4, <1>5, <1>6, <1>7, <1>9, <2>1 DEF Extending
<1>11. Spare \subseteq Spare' \cup FileChain(i) \cup {NoBlock}
  <2>1. Leading(todo) = {Led(x)} \cup Leading(<<y, z>>)
    <3>1. todo # <<>> /\ todo \in Seq(Record)
      BY <1>4, WriteKeeps DEF TypeInv
    <3> QED BY <1>3, <3>1, TailFacts
  <2>2. Led(x) = disk[i].first
    BY <1>2 DEF Led, InodeWrite
  <2>3. disk[i].first \in FileChain(i) \cup {NoBlock}
    BY <1>4, ChainType
  <2> QED BY <1>4, <2>1, <2>2, <2>3 DEF Spare
<1>12. NoBlock \notin used'
  BY <1>6 DEF TypeOK, BlockTypeOK, Block, NoBlock
<1>13. /\ used' \ used \subseteq FileChain(i)' \cup Spare'
       /\ (FileChain(i) \cup Spare) \cap used' \subseteq FileChain(i)' \cup Spare'
  BY <1>6, <1>8, <1>11, <1>12
<1>14. FileChain(i)' \subseteq used'
  BY <1>4, <1>6, <1>8 DEF CrashInv, MarkedInv
<1>15. \A j \in Sound \ {i} : /\ FileChain(j) \cap used \subseteq used'
                              /\ \A c \in FileChain(j) : next'[c] = next[c]
                              /\ FileChain(i)' \cap FileChain(j) = {}
  BY <1>6, <1>8 DEF CrashInv, ApartInv, Sound
<1>16. \E s \in Seq(Block), c \in Block, t \in DiskInode : Extending(i, s, c, t)'
  BY <1>10
<1>17. ~disk'[i].used => disk'[i] = Unused
  BY <1>7
<1>18. \A c \in Block \ used' : next'[c] = NoBlock \/ (c \notin used /\ next'[c] = next[c])
  BY <1>6
<1> QED BY <1>4, <1>6, <1>7, <1>13, <1>14, <1>15, <1>16, <1>17, <1>18, WriteStep

\* The calls that wipe.
LEMMA FreedIsLed ==
  ASSUME NEW t, \A k \in 1 .. Len(t) - 1 : \/ t[k] = BlockWrite(t[k].id, FALSE, NoBlock)
                                           \/ t[k].kind = "inode",
         Len(t) \in Nat
  PROVE  Freed(t) \subseteq Leading(t)
<1> SUFFICES ASSUME NEW b \in Freed(t) PROVE b \in Leading(t)
  OBVIOUS
<1>1. PICK k \in Freeing(t) : b = t[k].id
  BY DEF Freed
<1>2. k \in 1 .. Len(t) - 1 /\ t[k].kind = "block" /\ "block" # "inode"
  BY <1>1 DEF Freeing
<1>3. k \in 1 .. Len(t) /\ t[k] = BlockWrite(t[k].id, FALSE, NoBlock)
  <2>1. k \in 1 .. Len(t)
    BY <1>2
  <2>2. t[k] = BlockWrite(t[k].id, FALSE, NoBlock)
    BY <1>2
  <2> QED BY <2>1, <2>2
<1>4. \A c : Led(BlockWrite(c, FALSE, NoBlock)) = c
  BY DEF Led, BlockWrite
<1>5. Led(t[k]) = b
  BY <1>1, <1>3, <1>4, Zenon
<1> QED BY <1>3, <1>5 DEF Leading

LEMMA InodeKind == \A i, r : InodeWrite(i, r).kind = "inode" /\ Led(InodeWrite(i, r)) = r.first
BY DEF InodeWrite, Led

\* What is left of a call that wipes after one of its writes.
LEMMA ShrinkingTail ==
  ASSUME TypeInv, WriteRecord, NEW i \in Inode, Shrinking(i), Len(todo) > 1
  PROVE  /\ todo' # <<>> /\ todo'[Len(todo')] = LastWrite(i)'
         /\ \A k \in 1 .. Len(todo') - 1 : todo'[k] = BlockWrite(todo'[k].id, FALSE, NoBlock)
         /\ Spare = {Led(todo[1])} \cup Spare'
         /\ Doomed' \subseteq Doomed /\ Doomed \subseteq Doomed' \cup {todo[1].id}
         /\ todo[1].kind # "block" => Doomed = Doomed'
         /\ todo[1].kind = "block" => todo[1].id \in Doomed
         /\ Doomed' \subseteq Spare'
<1>1. PICK t \in Seq(Record) : t = todo
  BY DEF TypeInv
<1>2. PICK e : e = Tail(t)
  OBVIOUS
<1>3. t # <<>> /\ e = todo' /\ mem' = mem
  BY <1>1, <1>2, WriteKeeps
<1>4. PICK n \in Nat \ {0} : n = Len(t)
  BY <1>3
<1>5. /\ t[1] \in Record /\ e \in Seq(Record) /\ Len(e) = n - 1 /\ n > 1
      /\ \A k \in 1 .. n - 1 : e[k] = t[k+1]
      /\ Leading(t) = {Led(t[1])} \cup Leading(e)
      /\ Freed(e) \subseteq Freed(t) /\ Freed(t) \subseteq Freed(e) \cup {t[1].id}
      /\ t[1].kind # "block" => Freed(t) = Freed(e)
      /\ t[1].kind = "block" => t[1].id \in Freed(t)
  BY <1>1, <1>2, <1>3, <1>4, TailFacts
<1>6. /\ t[n] = LastWrite(i)
      /\ \A k \in 1 .. n - 1 : k # 1 => t[k] = BlockWrite(t[k].id, FALSE, NoBlock)
  BY <1>1, <1>4 DEF Shrinking
<1>7. e[Len(e)] = LastWrite(i)'
  <2>1. n - 1 \in 1 .. n - 1 /\ (n - 1) + 1 = n
    BY <1>5
  <2>2. e[n - 1] = t[n]
    BY <1>5, <2>1
  <2>3. LastWrite(i)' = LastWrite(i)
    BY <1>3 DEF LastWrite
  <2> QED BY <1>5, <1>6, <2>2, <2>3
<1>8. ASSUME NEW k \in 1 .. Len(e) - 1 PROVE e[k] = BlockWrite(e[k].id, FALSE, NoBlock)
  <2>1. k \in 1 .. n - 1 /\ k + 1 \in 1 .. n - 1 /\ k + 1 # 1
    BY <1>5
  <2> QED BY <1>5, <1>6, <2>1
<1>9. e # <<>> /\ Len(e) \in Nat
  BY <1>5
<1>10. Freed(e) \subseteq Leading(e)
  BY <1>8, <1>9, FreedIsLed
<1> QED BY <1>1, <1>3, <1>5, <1>7, <1>8, <1>9, <1>10 DEF Spare, Doomed

\* The smaller size is written; the blocks behind it are wiped next.
LEMMA SizeRecordStep ==
  ASSUME CrashInv, WriteRecord, NEW i \in Inode, i \in Sound, i = busy.inode, busy.op = "wipe", Shrinking(i),
         Len(todo) > 1, mem[i].open, todo[1] = InodeWrite(i, RecordOf(mem[i]))
  PROVE  CrashInv'
<1>1. /\ TypeOK /\ TypeInv /\ mem' = mem /\ Sound' = Sound /\ spoiled' = spoiled /\ grown' = grown
      /\ todo[1].kind # "block" /\ disk[i].used /\ KeptList(i)
  BY WriteKeeps, InodeKind DEF CrashInv, TypeInv, Shrinking
<1>2. /\ todo' # <<>> /\ todo'[Len(todo')] = LastWrite(i)'
      /\ \A k \in 1 .. Len(todo') - 1 : todo'[k] = BlockWrite(todo'[k].id, FALSE, NoBlock)
      /\ Spare = {Led(todo[1])} \cup Spare' /\ Doomed' = Doomed
  BY <1>1, ShrinkingTail
<1>3. PICK r : r = RecordOf(mem[i])
  OBVIOUS
<1>4. /\ r \in DiskInode /\ r.used /\ r.first = disk[i].first /\ r.size = mem[i].size
      /\ todo[1] = InodeWrite(i, r)
  <2>1. mem[i] \in MemInode
    BY <1>1, InodeTypes
  <2> QED BY <1>1, <1>3, <2>1, RecordType DEF KeptList
<1>5. TypeOK' /\ used' = used /\ next' = next /\ disk' = [disk EXCEPT ![i] = r]
  BY <1>1, <1>4, WroteInode
<1>6. disk'[i] = r /\ \A j \in Inode \ {i} : disk'[j] = disk[j]
  BY <1>1, <1>4, <1>5 DEF TypeOK
<1>7. \A j \in Inode : FileChain(j)' = FileChain(j)
  <2>1. \A j \in Inode : disk'[j].first = disk[j].first
    BY <1>4, <1>6
  <2> QED BY <1>5, <2>1 DEF FileChain
<1>8. KeptList(i)'
  BY <1>1, <1>4, <1>5, <1>6 DEF KeptList
<1>9. Shrinking(i)'
  <2>1. /\ FileChain(i)' \cap used' \subseteq Elements(mem'[i].list) \cup Doomed'
        /\ Doomed' \cap Elements(mem'[i].list) = {}
        /\ \A j \in Sound : j # i => Doomed' \cap FileChain(j)' = {}
    BY <1>1, <1>2, <1>5, <1>7 DEF Shrinking, Sound
  <2> QED BY <1>1, <1>2, <1>4, <1>6, <1>8, <2>1 DEF Shrinking
<1>10. Wiping(i)'
  BY <1>1, <1>2, WriteKeeps DEF Wiping, Changing
<1>11. Spare \subseteq Spare' \cup FileChain(i) \cup {NoBlock} /\ NoBlock \notin used'
  <2>1. Led(todo[1]) = disk[i].first
    BY <1>4, InodeKind
  <2>2. disk[i].first \in FileChain(i) \cup {NoBlock}
    BY <1>1, ChainType
  <2>3. NoBlock \notin used'
    BY <1>5 DEF TypeOK, BlockTypeOK, Block, NoBlock
  <2> QED BY <1>2, <2>1, <2>2, <2>3
<1>12. /\ used' \ used \subseteq FileChain(i)' \cup Spare'
       /\ (FileChain(i) \cup Spare) \cap used' \subseteq FileChain(i)' \cup Spare'
  BY <1>5, <1>7, <1>11
<1>13. \A j \in Sound \ {i} : /\ FileChain(j) \cap used \subseteq used'
                              /\ \A c \in FileChain(j) : next'[c] = next[c]
                              /\ FileChain(i)' \cap FileChain(j) = {}
  BY <1>5, <1>7 DEF CrashInv, ApartInv, Sound
<1>14. ~disk'[i].used => disk'[i] = Unused
  BY <1>4, <1>6
<1>15. \A c \in Block \ used' : next'[c] = NoBlock \/ (c \notin used /\ next'[c] = next[c])
  BY <1>5
<1> QED BY <1>2, <1>5, <1>6, <1>9, <1>10, <1>12, <1>13, <1>14, <1>15, WriteStep

\* A block is freed.
FreesFirst == todo[1] = BlockWrite(todo[1].id, FALSE, NoBlock)

LEMMA FreeBlockStep ==
  ASSUME CrashInv, WriteRecord, NEW i \in Inode, i \in Sound, i = busy.inode, busy.op = "wipe", Shrinking(i),
         Len(todo) > 1, FreesFirst
  PROVE  CrashInv'
<1>0. PICK x : x = todo[1].id
  OBVIOUS
<1>1. /\ TypeOK /\ TypeInv /\ mem' = mem /\ Sound' = Sound /\ spoiled' = spoiled /\ grown' = grown
      /\ todo[1].kind = "block" /\ todo[1].id = x /\ disk[i].used
      /\ (mem[i].open => KeptList(i)) /\ Led(todo[1]) = x
      /\ todo[1] = BlockWrite(x, FALSE, NoBlock)
  <2>1. todo[1].kind = "block" /\ todo[1].id = x /\ Led(todo[1]) = x
    <3>1. PICK w : w = BlockWrite(x, FALSE, NoBlock)
      OBVIOUS
    <3>2. w.kind = "block" /\ w.id = x /\ Led(w) = x
      BY <3>1 DEF BlockWrite, Led
    <3>3. todo[1] = w
      BY <1>0, <3>1 DEF FreesFirst
    <3> QED BY <3>2, <3>3
  <2>2. disk[i].used /\ (mem[i].open => KeptList(i))
    BY DEF Shrinking
  <2> QED BY <1>0, <2>1, <2>2, WriteKeeps DEF CrashInv, TypeInv, FreesFirst
<1>2. /\ todo' # <<>> /\ todo'[Len(todo')] = LastWrite(i)'
      /\ \A k \in 1 .. Len(todo') - 1 : todo'[k] = BlockWrite(todo'[k].id, FALSE, NoBlock)
      /\ Spare = {x} \cup Spare' /\ Doomed' \subseteq Doomed /\ Doomed \subseteq Doomed' \cup {x}
      /\ x \in Doomed /\ Doomed' \subseteq Spare'
  BY <1>1, ShrinkingTail
<1>3. x \in Block
  <2>1. todo[1] \in Record
    BY <1>1, WriteKeeps
  <2>2. todo[1] \in BlockRecord
    BY <1>1, <2>1 DEF Record, InodeRecord
  <2> QED BY <1>1, <2>2 DEF BlockRecord
<1>4. TypeOK' /\ disk' = disk /\ next' = [next EXCEPT ![x] = NoBlock] /\ used' = used \ {x}
  <2>1. NoBlock \in Block \cup {NoBlock}
    OBVIOUS
  <2> QED BY <1>1, <1>3, <2>1, WroteBlock
<1>5. /\ next \in [Block -> Block \cup {NoBlock}] /\ next' \in [Block -> Block \cup {NoBlock}]
      /\ disk[i].first \in Block \cup {NoBlock} /\ mem[i].list \in Seq(Block)
      /\ next'[x] = NoBlock /\ \A c \in Block : c # x => next'[c] = next[c]
  BY <1>1, <1>3, <1>4, InodeTypes DEF TypeOK, BlockTypeOK
<1>6. /\ FileChain(i) \cap used \subseteq Elements(mem[i].list) \cup Doomed
      /\ Doomed \cap Elements(mem[i].list) = {}
      /\ \A j \in Sound \ {i} : Doomed \cap FileChain(j) = {}
  BY DEF Shrinking
<1>7. x \notin Elements(mem[i].list) /\ \A j \in Sound \ {i} : x \notin FileChain(j)
  BY <1>2, <1>6
<1>8. FileChain(i)' \subseteq FileChain(i)
  <2>1. /\ FileChain(i) \in SUBSET Block /\ (disk[i].first # NoBlock => disk[i].first \in FileChain(i))
        /\ Closed(next, FileChain(i))
    BY <1>1, ChainType
  <2>2. Closed(next', FileChain(i))
    BY <1>5, <2>1 DEF Closed
  <2>3. Reach(next', disk[i].first) \subseteq FileChain(i)
    BY <2>1, <2>2, ReachLeast
  <2> QED BY <1>4, <2>3 DEF FileChain
<1>9. ASSUME mem[i].open PROVE KeptList(i)' /\ Elements(mem[i].list) \subseteq FileChain(i)'
  <2>1. PICK l \in Seq(Block) : l = mem[i].list
    BY <1>5
  <2>2. /\ l # <<>> /\ mem[i].first = disk[i].first /\ l[1] = disk[i].first
        /\ \A k \in 1 .. Len(l) - 1 : next[l[k]] = l[k+1]
        /\ \A j, k \in 1 .. Len(l) : l[j] = l[k] => j = k
        /\ Elements(l) \subseteq used /\ disk[i].size = mem[i].size
  <3>1. "block" # "inode"
    OBVIOUS
  <3> QED BY <1>1, <1>9, <2>1, <3>1 DEF KeptList
  <2>3. \A k \in 1 .. Len(l) : l[k] # x /\ l[k] \in Block
    BY <1>7, <2>1 DEF Elements
  <2>4. \A k \in 1 .. Len(l) - 1 : next'[l[k]] = l[k+1]
    <3>1. \A k \in 1 .. Len(l) - 1 : k \in 1 .. Len(l)
      OBVIOUS
    <3> QED BY <1>5, <2>2, <2>3, <3>1
  <2>5. Elements(l) \subseteq used'
    BY <1>4, <1>7, <2>1, <2>2
  <2>6. KeptList(i)'
    BY <1>1, <1>4, <2>1, <2>2, <2>4, <2>5 DEF KeptList
  <2>7. Elements(l) \subseteq Reach(next', disk[i].first)
    BY <1>5, <2>2, <2>4, LinkedReach
  <2> QED BY <1>4, <2>1, <2>6, <2>7 DEF FileChain
<1>10. ~mem[i].open => Elements(mem[i].list) = {}
  BY <1>1, BlankTypes DEF TypeInv, Elements
<1>11. \A j \in Sound \ {i} :
         /\ FileChain(j)' = FileChain(j) /\ \A c \in FileChain(j) : next'[c] = next[c]
  <2> SUFFICES ASSUME NEW j \in Sound \ {i}
               PROVE  /\ FileChain(j)' = FileChain(j)
                      /\ \A c \in FileChain(j) : next'[c] = next[c]
    OBVIOUS
  <2>1. j \in Inode /\ FileChain(j) \subseteq Block
    BY <1>1, ChainType DEF Sound
  <2>2. \A c \in FileChain(j) : next'[c] = next[c]
    BY <1>5, <1>7, <2>1
  <2> QED BY <1>1, <1>4, <2>1, <2>2, ChainKept
<1>12. FileChain(i) \cap used' \subseteq Elements(mem[i].list) \cup Doomed'
  BY <1>2, <1>4, <1>6
<1>13. Shrinking(i)'
  <2>1. /\ FileChain(i)' \cap used' \subseteq Elements(mem'[i].list) \cup Doomed'
        /\ Doomed' \cap Elements(mem'[i].list) = {}
        /\ \A j \in Sound : j # i => Doomed' \cap FileChain(j)' = {}
    BY <1>1, <1>2, <1>6, <1>8, <1>11, <1>12
  <2> QED BY <1>1, <1>2, <1>4, <1>9, <2>1 DEF Shrinking
<1>14. Wiping(i)'
  BY <1>1, <1>2, WriteKeeps DEF Wiping, Changing
<1>15. /\ used' \ used \subseteq FileChain(i)' \cup Spare'
       /\ (FileChain(i) \cup Spare) \cap used' \subseteq FileChain(i)' \cup Spare'
  BY <1>2, <1>4, <1>9, <1>10, <1>12
<1>16. \A j \in Sound \ {i} : /\ FileChain(j) \cap used \subseteq used'
                              /\ \A c \in FileChain(j) : next'[c] = next[c]
                              /\ FileChain(i)' \cap FileChain(j) = {}
  BY <1>4, <1>7, <1>8, <1>11 DEF CrashInv, ApartInv
<1>17. ~disk'[i].used => disk'[i] = Unused
  BY <1>1, <1>4
<1>18. \A c \in Block \ used' : next'[c] = NoBlock \/ (c \notin used /\ next'[c] = next[c])
  BY <1>4, <1>5
<1> QED BY <1>2, <1>4, <1>13, <1>14, <1>15, <1>16, <1>17, <1>18, WriteStep

\* The last block that is kept becomes the end of the chain.
LEMMA EndChainStep ==
  ASSUME CrashInv, WriteRecord, NEW i \in Inode, i \in Sound, i = busy.inode, busy.op = "wipe", Shrinking(i),
         Len(todo) = 1, mem[i].open
  PROVE  CrashInv'
<1>1. PICK l \in Seq(Block) : l = mem[i].list
  BY InodeTypes DEF CrashInv, TypeInv
<1>2. /\ TypeOK /\ TypeInv /\ mem' = mem /\ Sound' = Sound /\ spoiled' = spoiled /\ grown' = grown
      /\ disk[i].used /\ KeptList(i) /\ todo \in Seq(Record) /\ todo # <<>>
      /\ todo[1] = LastWrite(i)
  BY WriteKeeps DEF CrashInv, TypeInv, Shrinking
<1>3. Doomed = {} /\ todo' = <<>>
  <2>1. Tail(todo) = <<>>
    BY <1>2, TailFacts
  <2> QED BY <1>2, <2>1, WriteKeeps, LastFreesNothing DEF Doomed
<1>4. PICK y \in Block : y = l[Len(l)] /\ y \in Elements(l) /\ Len(l) \in 1 .. Len(l)
  <2>1. l # <<>>
    BY <1>1, <1>2 DEF KeptList
  <2>2. Len(l) \in 1 .. Len(l) /\ l[Len(l)] \in Block
    BY <2>1
  <2>3. l[Len(l)] \in Elements(l)
    BY <2>2 DEF Elements
  <2> QED BY <2>2, <2>3
<1>5. todo[1] = BlockWrite(y, TRUE, NoBlock)
  BY <1>1, <1>2, <1>4 DEF LastWrite
<1>6. todo[1].kind = "block" /\ Led(todo[1]) = NoBlock
  <2>1. PICK w : w = BlockWrite(y, TRUE, NoBlock)
    OBVIOUS
  <2>2. w.kind = "block" /\ Led(w) = NoBlock
    BY <2>1 DEF BlockWrite, Led
  <2> QED BY <1>5, <2>1, <2>2
<1>7. /\ l # <<>> /\ mem[i].first = disk[i].first /\ l[1] = disk[i].first
      /\ \A k \in 1 .. Len(l) - 1 : next[l[k]] = l[k+1]
      /\ \A j, k \in 1 .. Len(l) : l[j] = l[k] => j = k
      /\ Elements(l) \subseteq used /\ disk[i].size = mem[i].size
  <2>1. "block" # "inode"
    OBVIOUS
  <2> QED BY <1>1, <1>2, <1>6, <2>1 DEF KeptList
<1>8. TypeOK' /\ disk' = disk /\ next' = [next EXCEPT ![y] = NoBlock] /\ used' = used
  <2>1. NoBlock \in Block \cup {NoBlock} /\ y \in used
    BY <1>4, <1>7
  <2>2. TypeOK' /\ disk' = disk /\ next' = [next EXCEPT ![y] = NoBlock] /\ used' = used \cup {y}
    BY <1>2, <1>5, <2>1, WroteBlock
  <2> QED BY <2>1, <2>2
<1>9. /\ next \in [Block -> Block \cup {NoBlock}] /\ next' \in [Block -> Block \cup {NoBlock}]
      /\ disk[i].first \in Block \cup {NoBlock}
      /\ next'[y] = NoBlock /\ \A c \in Block : c # y => next'[c] = next[c]
  BY <1>2, <1>4, <1>8, InodeTypes DEF TypeOK, BlockTypeOK
<1>10. Follows(next', disk[i].first, l)
  <2>1. ASSUME NEW k \in 1 .. Len(l) - 1 PROVE next'[l[k]] = l[k+1]
    <3>1. k \in 1 .. Len(l) /\ k # Len(l)
      BY <1>4
    <3>2. l[k] # y /\ l[k] \in Block
      BY <1>4, <1>7, <3>1
    <3> QED BY <1>7, <1>9, <3>2
  <2> QED BY <1>4, <1>7, <1>9, <2>1 DEF Follows
<1>11. FileChain(i)' = Elements(l) /\ Cardinality(FileChain(i)') = Len(l)
  <2>1. Reach(next', disk[i].first) = Elements(l) /\ Cardinality(Reach(next', disk[i].first)) = Len(l)
    BY <1>9, <1>10, WholeChain
  <2> QED BY <1>8, <2>1 DEF FileChain
<1>12. Elements(l) \subseteq FileChain(i)
  BY <1>7, <1>9, LinkedReach DEF FileChain
<1>13. FileChain(i) \cap used \subseteq Elements(l)
  BY <1>1, <1>3 DEF Shrinking
<1>14. \A j \in Sound \ {i} : FileChain(i) \cap FileChain(j) = {}
  BY DEF CrashInv, ApartInv
<1>15. \A j \in Sound \ {i} : /\ FileChain(j) \cap used \subseteq used'
                              /\ \A c \in FileChain(j) : next'[c] = next[c]
                              /\ FileChain(i)' \cap FileChain(j) = {}
  <2> SUFFICES ASSUME NEW j \in Sound \ {i}
               PROVE  /\ \A c \in FileChain(j) : next'[c] = next[c]
                      /\ FileChain(i)' \cap FileChain(j) = {}
    BY <1>8
  <2>1. FileChain(j) \subseteq Block /\ y \notin FileChain(j)
    BY <1>2, <1>4, <1>12, <1>14, ChainType DEF Sound
  <2> QED BY <1>9, <1>11, <1>12, <1>14, <2>1
<1>16. i \in grown \/ disk'[i].size <= Cardinality(FileChain(i)')
  BY <1>1, <1>2, <1>7, <1>8, <1>11 DEF CrashInv, SizeInv
<1>17. Spare = {NoBlock} /\ NoBlock \notin used'
  <2>1. Spare = {Led(todo[1])}
    <3>1. 1 .. Len(todo) = {1}
      OBVIOUS
    <3> QED BY <3>1 DEF Spare, Leading
  <2>2. NoBlock \notin used'
    BY <1>8 DEF TypeOK, BlockTypeOK, Block, NoBlock
  <2> QED BY <1>6, <2>1, <2>2
<1>18. /\ used' \ used \subseteq FileChain(i)' \cup Spare'
       /\ (FileChain(i) \cup Spare) \cap used' \subseteq FileChain(i)' \cup Spare'
       /\ FileChain(i)' \subseteq used'
  BY <1>7, <1>8, <1>11, <1>13, <1>17
<1>19. /\ disk'[i].used /\ mem[i].first = disk'[i].first
       /\ Follows(next', disk'[i].first, mem[i].list)
  BY <1>1, <1>2, <1>7, <1>8, <1>10
<1>20. \A c \in Block \ used' : next'[c] = NoBlock \/ (c \notin used /\ next'[c] = next[c])
  BY <1>4, <1>7, <1>8, <1>9
<1> QED BY <1>3, <1>8, <1>15, <1>16, <1>18, <1>19, <1>20, WriteStep

\* The record of the unlinked file is cleared.
LEMMA ClearRecordStep ==
  ASSUME CrashInv, WriteRecord, NEW i \in Inode, i \in Sound, i = busy.inode, busy.op = "wipe", Shrinking(i),
         Len(todo) = 1, ~mem[i].open
  PROVE  CrashInv'
<1>1. /\ TypeOK /\ TypeInv /\ mem' = mem /\ Sound' = Sound /\ spoiled' = spoiled /\ grown' = grown
      /\ todo \in Seq(Record) /\ todo # <<>> /\ todo[1] = InodeWrite(i, Unused)
  BY WriteKeeps DEF CrashInv, TypeInv, Shrinking, LastWrite
<1>2. Doomed = {} /\ todo' = <<>>
  <2>1. Tail(todo) = <<>>
    BY <1>1, TailFacts
  <2> QED BY <1>1, <2>1, WriteKeeps, LastFreesNothing DEF Doomed
<1>3. TypeOK' /\ used' = used /\ next' = next /\ disk' = [disk EXCEPT ![i] = Unused]
  BY <1>1, BlankTypes, WroteInode
<1>4. disk'[i] = Unused /\ \A j \in Inode \ {i} : disk'[j] = disk[j]
  BY <1>1, <1>3 DEF TypeOK
<1>5. FileChain(i)' = {} /\ Cardinality(FileChain(i)') = 0
  <2>1. next \in [Block -> Block \cup {NoBlock}] /\ NoBlock \in Block \cup {NoBlock}
    BY <1>1, InodeTypes
  <2>2. Reach(next, NoBlock) = {}
    BY <2>1, ReachType
  <2>3. FileChain(i)' = {}
    BY <1>3, <1>4, <2>2, BlankTypes DEF FileChain
  <2> QED BY <2>3, FS_EmptySet
<1>6. FileChain(i) \cap used = {}
  <2>1. Elements(mem[i].list) = {}
    BY <1>1, BlankTypes DEF TypeInv, Elements
  <2> QED BY <1>2, <2>1 DEF Shrinking
<1>7. Spare \subseteq {NoBlock} /\ NoBlock \notin used'
  <2>1. Spare = {Led(todo[1])}
    <3>1. 1 .. Len(todo) = {1}
      OBVIOUS
    <3> QED BY <3>1 DEF Spare, Leading
  <2>2. NoBlock \notin used'
    BY <1>3 DEF TypeOK, BlockTypeOK, Block, NoBlock
  <2>3. Led(InodeWrite(i, Unused)) = NoBlock
    BY BlankTypes DEF Led, InodeWrite
  <2> QED BY <1>1, <2>1, <2>2, <2>3
<1>8. /\ used' \ used \subseteq FileChain(i)' \cup Spare'
      /\ (FileChain(i) \cup Spare) \cap used' \subseteq FileChain(i)' \cup Spare'
      /\ FileChain(i)' \subseteq used'
  BY <1>3, <1>5, <1>6, <1>7
<1>9. \A j \in Sound \ {i} : /\ FileChain(j) \cap used \subseteq used'
                             /\ \A c \in FileChain(j) : next'[c] = next[c]
                             /\ FileChain(i)' \cap FileChain(j) = {}
  BY <1>3, <1>5
<1>10. disk'[i].size <= Cardinality(FileChain(i)')
  BY <1>4, <1>5, BlankTypes
<1>11. \A c \in Block \ used' : next'[c] = NoBlock \/ (c \notin used /\ next'[c] = next[c])
  BY <1>3
<1> QED BY <1>2, <1>3, <1>4, <1>8, <1>9, <1>10, <1>11, WriteStep

LEMMA WriteRecordStep ==
  ASSUME CrashInv, WriteRecord
  PROVE  CrashInv'
<1>1. PICK i : i = busy.inode
  OBVIOUS
<1>2. /\ TypeOK /\ TypeInv /\ todo # <<>> /\ todo \in Seq(Record)
      /\ i \in Inode /\ busy.op \in {"write", "wipe"} /\ Changing(i)
  BY <1>1, WriteKeeps DEF CrashInv, TypeInv, Changing
<1>5. CASE i \in spoiled
  <2>1. Tainted(i)
    BY <1>2, <1>5 DEF CrashInv, PendingInv
  <2> QED BY <1>1, <1>2, <1>5, <2>1, TaintedWriteStep
<1>6. i \notin spoiled => i \in Sound /\ Pending(i, busy.op)
  BY <1>2 DEF CrashInv, PendingInv, Sound
<1>3. CASE i \notin spoiled /\ busy.op = "write"
  <2>0. "write" # "wipe"
    OBVIOUS
  <2>1. \/ \E r \in DiskInode : Recording(i, r)
        \/ \E p \in Seq(Block), b \in Block, r \in DiskInode : Extending(i, p, b, r)
    BY <1>3, <1>6, <2>0 DEF Pending
  <2>2. CASE \E r \in DiskInode : Recording(i, r)
    BY <1>1, <1>2, <1>3, <2>2, <1>6, RecordingStep
  <2>3. CASE \E p \in Seq(Block), b \in Block, r \in DiskInode : Extending(i, p, b, r)
    <3>1. PICK p \in Seq(Block), b \in Block, r \in DiskInode : Extending(i, p, b, r)
      BY <2>3
    <3>2. \/ todo = <<Link(i, p, b, r)>> /\ b \in used /\ next[b] = NoBlock
          \/ /\ todo = <<BlockWrite(b, TRUE, NoBlock), Link(i, p, b, r)>>
             /\ b \notin used
          \/ \E q \in DiskInode :
             /\ todo = <<InodeWrite(i, q), BlockWrite(b, TRUE, NoBlock), Link(i, p, b, r)>>
             /\ b \notin used /\ q.used /\ q.first = disk[i].first /\ i \in grown
      BY <3>1 DEF Extending
    <3>3. CASE todo = <<Link(i, p, b, r)>> /\ b \in used /\ next[b] = NoBlock
      BY <1>1, <1>2, <1>3, <3>1, <3>3, <1>6, LinkStep
    <3>4. CASE todo = <<BlockWrite(b, TRUE, NoBlock), Link(i, p, b, r)>> /\ b \notin used
      BY <1>1, <1>2, <1>3, <3>1, <3>4, <1>6, MarkStep
    <3>5. CASE \E q \in DiskInode :
                 /\ todo = <<InodeWrite(i, q), BlockWrite(b, TRUE, NoBlock), Link(i, p, b, r)>>
                 /\ b \notin used /\ q.used /\ q.first = disk[i].first /\ i \in grown
      BY <1>1, <1>2, <1>3, <3>1, <3>5, <1>6, SizeFirstStep
    <3> QED BY <3>2, <3>3, <3>4, <3>5
  <2> QED BY <2>1, <2>2, <2>3
<1>4. CASE i \notin spoiled /\ busy.op = "wipe"
  <2>1. Shrinking(i) /\ Len(todo) \in Nat \ {0}
    BY <1>2, <1>4, <1>6 DEF Pending
  <2>2. CASE Len(todo) = 1
    BY <1>1, <1>2, <1>4, <2>1, <2>2, <1>6, EndChainStep, ClearRecordStep
  <2>3. CASE Len(todo) > 1
    <3>1. \/ FreesFirst
          \/ mem[i].open /\ todo[1] = InodeWrite(i, RecordOf(mem[i]))
      <4>1. 1 \in 1 .. Len(todo) - 1
        BY <2>1, <2>3
      <4> QED BY <2>1, <4>1 DEF Shrinking, FreesFirst
    <3>2. CASE FreesFirst
      BY <1>1, <1>2, <1>4, <2>1, <2>3, <3>2, <1>6, FreeBlockStep
    <3>3. CASE mem[i].open /\ todo[1] = InodeWrite(i, RecordOf(mem[i]))
      BY <1>1, <1>2, <1>4, <2>1, <2>3, <3>3, <1>6, SizeRecordStep
    <3> QED BY <3>1, <3>2, <3>3
  <2>4. Len(todo) = 1 \/ Len(todo) > 1
    <3>1. PICK n \in Nat \ {0} : n = Len(todo)
      BY <2>1
    <3>2. n = 1 \/ n > 1
      OBVIOUS
    <3> QED BY <3>1, <3>2
  <2> QED BY <2>2, <2>3, <2>4
<1> QED BY <1>2, <1>3, <1>4, <1>5

-----------------------------------------------------------------------------
(* A crash, and the theorems.                                               *)

\* A call that does not wipe leads, or is about to lead, to one new block at most.
LEMMA OneSpare ==
  ASSUME CrashInv, ~torn, todo # <<>>, busy.op = "write"
  PROVE  \E b : (used \ Reachable) \cap Spare \subseteq {b}
<1>1. PICK i : i = busy.inode
  OBVIOUS
<1>2. /\ TypeOK /\ i \in Inode /\ Changing(i) /\ NoBlock \notin used /\ "write" # "wipe"
      /\ i \notin spoiled
  BY <1>1 DEF CrashInv, TypeInv, TypeOK, BlockTypeOK, Block, NoBlock, Changing, UntornInv
<1>5. Pending(i, "write")
  BY <1>2 DEF CrashInv, PendingInv
<1>3. CASE \E r \in DiskInode : Recording(i, r)
  <2>1. PICK r \in DiskInode : todo = <<InodeWrite(i, r)>>
    BY <1>3 DEF Recording
  <2>2. Spare = {Led(InodeWrite(i, r))}
    BY <2>1 DEF Spare, Leading
  <2> QED BY <2>2
<1>4. CASE \E p \in Seq(Block), b \in Block, r \in DiskInode : Extending(i, p, b, r)
  <2>1. PICK p \in Seq(Block), b \in Block, r \in DiskInode : Extending(i, p, b, r)
    BY <1>4
  <2>2. PICK z : z = Link(i, p, b, r)
    OBVIOUS
  <2>3. PICK y : y = BlockWrite(b, TRUE, NoBlock)
    OBVIOUS
  <2>4. Led(z) = b /\ Led(y) = NoBlock
    <3>1. r.first = b
      BY <2>1 DEF Extending
    <3>2. Led(z) = b
      BY <1>2, <2>2, <3>1, LinkType
    <3>3. Led(y) = NoBlock
      BY <2>3 DEF Led, BlockWrite
    <3> QED BY <3>2, <3>3
  <2>5. \/ todo = <<z>> \/ todo = <<y, z>>
        \/ \E x : todo = <<x, y, z>> /\ Led(x) = disk[i].first
    <3>1. \/ todo = <<Link(i, p, b, r)>>
          \/ todo = <<BlockWrite(b, TRUE, NoBlock), Link(i, p, b, r)>>
          \/ \E q \in DiskInode :
             /\ todo = <<InodeWrite(i, q), BlockWrite(b, TRUE, NoBlock), Link(i, p, b, r)>>
             /\ q.first = disk[i].first
      BY <2>1 DEF Extending
    <3>2. CASE todo = <<Link(i, p, b, r)>>
      BY <2>2, <3>2
    <3>3. CASE todo = <<BlockWrite(b, TRUE, NoBlock), Link(i, p, b, r)>>
      BY <2>2, <2>3, <3>3
    <3>4. ASSUME NEW q \in DiskInode, q.first = disk[i].first,
                 todo = <<InodeWrite(i, q), BlockWrite(b, TRUE, NoBlock), Link(i, p, b, r)>>
          PROVE  \E x : todo = <<x, y, z>> /\ Led(x) = disk[i].first
      <4>1. PICK x : x = InodeWrite(i, q)
        OBVIOUS
      <4>2. Led(x) = disk[i].first
        BY <3>4, <4>1 DEF Led, InodeWrite
      <4>3. todo = <<x, y, z>>
        BY <2>2, <2>3, <3>4, <4>1
      <4> QED BY <4>2, <4>3
    <3> QED BY <3>1, <3>2, <3>3, <3>4
  <2>6. disk[i].first \in Reachable \cup {NoBlock}
    BY <1>2, ChainType
  <2>7. CASE todo = <<z>>
    <3>1. Spare = {Led(z)}
      BY <2>7 DEF Spare, Leading
    <3> QED BY <3>1
  <2>8. CASE todo = <<y, z>>
    <3>1. Spare \subseteq {Led(y), Led(z)}
      <4>1. Len(todo) = 2 /\ todo[1] = y /\ todo[2] = z
        BY <2>8
      <4>2. \A k \in 1 .. 2 : k = 1 \/ k = 2
        OBVIOUS
      <4> QED BY <4>1, <4>2 DEF Spare, Leading
    <3> QED BY <1>2, <2>4, <3>1
  <2>9. ASSUME NEW x, todo = <<x, y, z>>, Led(x) = disk[i].first
        PROVE  (used \ Reachable) \cap Spare \subseteq {b}
    <3>1. Spare \subseteq {Led(x), Led(y), Led(z)}
      <4>1. Len(todo) = 3 /\ todo[1] = x /\ todo[2] = y /\ todo[3] = z
        BY <2>9
      <4>2. \A k \in 1 .. 3 : k = 1 \/ k = 2 \/ k = 3
        OBVIOUS
      <4> QED BY <4>1, <4>2 DEF Spare, Leading
    <3> QED BY <1>2, <2>4, <2>6, <2>9, <3>1
  <2> QED BY <2>5, <2>7, <2>8, <2>9
<1> QED BY <1>2, <1>3, <1>4, <1>5 DEF Pending

LEMMA CrashStep ==
  ASSUME CrashInv, Crash
  PROVE  CrashInv'
<1>1. /\ TypeOK /\ TypeInv /\ used' = used /\ next' = next /\ disk' = disk /\ grown' = grown
      /\ todo' = <<>> /\ busy' = Idle /\ blockHint' = 1 /\ mem' = [i \in Inode |-> NotOpened]
      /\ crashes < MaxCrashes /\ crashes' = crashes + 1
      /\ harms' = harms
      /\ IF busy.op = "wipe" THEN torn' = TRUE /\ spoiled' = spoiled \cup {busy.inode}
         ELSE torn' = torn /\ spoiled' = spoiled
  BY DEF CrashInv, TypeInv, Crash
<1>2. /\ crashes \in Nat /\ crashes' \in 0 .. MaxCrashes /\ 1 \in 1 .. BlockCount + 1
      /\ mem' \in [Inode -> MemInode] /\ (\A i \in Inode : ~mem'[i].open /\ mem'[i] = NotOpened)
      /\ busy' \in [inode: Inode \cup {NoInode}, op: {"none", "write", "wipe"}]
      /\ torn' \in BOOLEAN /\ spoiled' \subseteq Inode
  <2>1. crashes \in Nat /\ crashes' \in 0 .. MaxCrashes /\ 1 \in 1 .. BlockCount + 1
    BY <1>1, CrashSafetyAssumption, BlockCountAssumption DEF TypeOK
  <2>2. mem' \in [Inode -> MemInode] /\ \A i \in Inode : ~mem'[i].open /\ mem'[i] = NotOpened
    BY <1>1, BlankTypes
  <2>3. busy' \in [inode: Inode \cup {NoInode}, op: {"none", "write", "wipe"}]
    BY <1>1 DEF Idle
  <2>4. torn' \in BOOLEAN /\ spoiled' \subseteq Inode
    <3>1. busy.op = "wipe" => busy.inode \in Inode
      BY <1>1 DEF TypeInv, Idle
    <3> QED BY <1>1, <3>1 DEF TypeOK
  <2> QED BY <2>1, <2>2, <2>3, <2>4
<1>3. TypeOK'
  <2>1. \A k \in DOMAIN <<>> : FALSE
    OBVIOUS
  <2>2. \A k \in DOMAIN todo' : todo'[k].kind \in {"block", "inode"}
    BY <1>1, <2>1
  <2> QED BY <1>1, <1>2, <2>2 DEF TypeOK, BlockTypeOK
<1>4. TypeInv'
  <2>1. <<>> \in Seq(Record)
    OBVIOUS
  <2> QED BY <1>1, <1>2, <1>3, <2>1 DEF TypeInv
<1>5. \A i \in Inode : FileChain(i)' = FileChain(i)
  BY <1>1 DEF FileChain
<1>6. /\ \A i \in Inode : ~Changing(i)' /\ ~Wiping(i)'
      /\ \A i \in Sound' : i \in Inode /\ i \in Sound /\ ~Wiping(i)
  BY <1>1 DEF Changing, Wiping, Sound
<1>7. MemInv' /\ CleanInv' /\ PendingInv'
  BY <1>2, <1>6, BlankTypes DEF MemInv, CleanInv, PendingInv
<1>8. ApartInv' /\ MarkedInv'
  BY <1>1, <1>5, <1>6 DEF CrashInv, ApartInv, MarkedInv
<1>9. SizeInv'
  BY <1>1, <1>2, <1>5, <1>6 DEF CrashInv, SizeInv
<1>11. UntornInv'
  BY <1>1 DEF CrashInv, UntornInv
<1>10. LeakInv'
  <2> SUFFICES ASSUME ~torn' PROVE Cardinality(Leaked') <= crashes'
    BY DEF LeakInv
  <2>1. ~torn /\ (todo = <<>> \/ busy.op = "write")
    BY <1>1 DEF TypeInv
  <2>2. Leaked' = used \ Reachable
    <3>1. Reachable' = Reachable
      BY <1>5 DEF Reachable
    <3>2. Spare' = {}
      BY <1>1 DEF Spare, Leading
    <3> QED BY <1>1, <3>1, <3>2 DEF Leaked
  <2>3. /\ Cardinality(Leaked) <= crashes /\ IsFiniteSet(Leaked) /\ Cardinality(Leaked) \in Nat
        /\ Leaked' \subseteq Block
    <3>1. Cardinality(Leaked) <= crashes
      BY <2>1 DEF CrashInv, LeakInv
    <3>2. Leaked \subseteq Block /\ used \subseteq Block
      BY <1>1, ReachableType DEF TypeOK, BlockTypeOK
    <3> QED BY <2>2, <3>1, <3>2, BlockFinite
  <2>4. \E b : Leaked' \subseteq Leaked \cup {b}
    <3>1. CASE todo = <<>>
      <4>1. Leaked' = Leaked
        BY <2>2, <3>1, Quiet
      <4> QED BY <4>1
    <3>2. CASE todo # <<>>
      <4>1. PICK b : (used \ Reachable) \cap Spare \subseteq {b}
        BY <2>1, <3>2, OneSpare
      <4> QED BY <2>2, <4>1 DEF Leaked
    <3> QED BY <3>1, <3>2
  <2>5. PICK b : Leaked' \subseteq Leaked \cup {b}
    BY <2>4
  <2>6. PICK S : S = Leaked \cup {b}
    OBVIOUS
  <2>7. IsFiniteSet(S) /\ Cardinality(S) \in Nat /\ Cardinality(S) <= Cardinality(Leaked) + 1
    <3>1. IsFiniteSet(S) /\ (Cardinality(S) = Cardinality(Leaked) \/ Cardinality(S) = Cardinality(Leaked) + 1)
      BY <2>3, <2>6, FS_AddElement
    <3> QED BY <2>3, <3>1
  <2>8. Cardinality(Leaked') <= Cardinality(S) /\ Cardinality(Leaked') \in Nat
    <3>1. Leaked' \subseteq S
      BY <2>5, <2>6
    <3> QED BY <2>3, <2>7, <3>1, FS_Subset, BlockFinite
  <2> QED BY <1>1, <1>2, <2>3, <2>7, <2>8
<1> QED BY <1>4, <1>7, <1>8, <1>9, <1>10, <1>11 DEF CrashInv

LEMMA CrashInit == Init => CrashInv
<1> SUFFICES ASSUME Init PROVE CrashInv
  OBVIOUS
<1>1. /\ used = {} /\ next = [b \in Block |-> NoBlock] /\ blockHint = 1 /\ todo = <<>> /\ busy = Idle
      /\ disk = [i \in Inode |-> Unused] /\ mem = [i \in Inode |-> NotOpened]
      /\ torn = FALSE /\ spoiled = {} /\ grown = {} /\ crashes = 0 /\ harms = 0
  BY DEF Init, BlockInit
<1>2. TypeOK
  <2>1. BlockTypeOK
    BY <1>1, BlockCountAssumption DEF BlockTypeOK
  <2>2. disk \in [Inode -> DiskInode] /\ mem \in [Inode -> MemInode]
    BY <1>1, BlankTypes
  <2>3. busy \in [inode: Inode \cup {NoInode}, op: {"none", "write", "wipe"}]
    BY <1>1 DEF Idle
  <2>4. \A k \in DOMAIN todo : todo[k].kind \in {"block", "inode"}
    BY <1>1
  <2>5. crashes \in 0 .. MaxCrashes /\ harms \in 0 .. MaxHarms
    BY <1>1, CrashSafetyAssumption
  <2> QED BY <1>1, <2>1, <2>2, <2>3, <2>4, <2>5 DEF TypeOK
<1>3. TypeInv
  <2>1. <<>> \in Seq(Record)
    OBVIOUS
  <2> QED BY <1>1, <1>2, <2>1, BlankTypes DEF TypeInv
<1>4. \A i \in Inode : /\ FileChain(i) = {} /\ ~mem[i].open /\ disk[i].size = 0
                       /\ ~Changing(i) /\ mem[i].unmarked = {} /\ mem[i].after = NoBlock
  <2>1. \A i \in Inode : /\ disk[i].first = NoBlock /\ ~mem[i].open /\ disk[i].size = 0
                         /\ mem[i].unmarked = {} /\ mem[i].after = NoBlock
    BY <1>1, BlankTypes
  <2>2. \A i \in Inode : FileChain(i) = {}
    BY <1>2, <2>1, ChainType
  <2> QED BY <1>1, <2>1, <2>2 DEF Changing
<1>5. Cardinality({}) = 0
  BY FS_EmptySet
<1>6. MemInv /\ CleanInv /\ ApartInv /\ MarkedInv /\ PendingInv
  BY <1>4 DEF MemInv, CleanInv, ApartInv, MarkedInv, PendingInv, Sound
<1>9. UntornInv
  BY <1>1 DEF UntornInv
<1>7. SizeInv
  <2>1. \A i \in Inode : disk[i].size <= Cardinality(FileChain(i)) /\ ~mem[i].open
    <3>1. \A i \in Inode : Cardinality(FileChain(i)) = 0 /\ disk[i].size = 0 /\ ~mem[i].open
      BY <1>4, <1>5
    <3> QED BY <3>1
  <2> QED BY <2>1 DEF SizeInv, Sound
<1>8. LeakInv
  <2>1. Leaked = {}
    BY <1>1 DEF Leaked
  <2> QED BY <1>1, <1>5, <2>1 DEF LeakInv
<1> QED BY <1>3, <1>6, <1>7, <1>8, <1>9 DEF CrashInv

LEMMA CrashNext == CrashInv /\ [Next]_vars => CrashInv'
<1> SUFFICES ASSUME CrashInv, [Next]_vars PROVE CrashInv'
  OBVIOUS
<1>1. CASE UNCHANGED vars
  <2>1. /\ used' = used /\ next' = next /\ blockHint' = blockHint /\ disk' = disk /\ mem' = mem
        /\ todo' = todo /\ busy' = busy /\ torn' = torn /\ spoiled' = spoiled /\ grown' = grown
        /\ crashes' = crashes /\ harms' = harms /\ Sound' = Sound
    BY <1>1 DEF vars, Sound
  <2>2. TypeOK' /\ TypeInv'
    BY <2>1 DEF CrashInv, TypeInv, TypeOK, BlockTypeOK
  <2>3. /\ \A i \in Inode : FileChain(i)' = FileChain(i)
        /\ \A i \in Inode : (Changing(i)' <=> Changing(i)) /\ (Wiping(i)' <=> Wiping(i))
        /\ Spare' = Spare /\ Doomed' = Doomed /\ Sound \subseteq Inode
    BY <2>1 DEF FileChain, Changing, Wiping, Spare, Doomed, Sound
  <2>4. Reachable' = Reachable /\ Leaked' = Leaked /\ Harmless' = Harmless
    BY <2>1, <2>3 DEF Reachable, Leaked, Harmless
  <2>5. MemInv' /\ CleanInv' /\ ApartInv' /\ MarkedInv' /\ SizeInv' /\ LeakInv' /\ UntornInv'
    BY <2>1, <2>3, <2>4
       DEF CrashInv, MemInv, CleanInv, ApartInv, MarkedInv, SizeInv, LeakInv, UntornInv
  <2>6. PendingInv'
    <3> SUFFICES ASSUME NEW i \in Inode, Changing(i)
                 PROVE  IF i \in spoiled THEN Tainted(i)' ELSE Pending(i, busy.op)'
      BY <2>1, <2>3 DEF PendingInv
    <3>1. IF i \in spoiled THEN Tainted(i) ELSE Pending(i, busy.op)
      BY DEF CrashInv, PendingInv
    <3>5. Tainted(i) => Tainted(i)'
      BY <2>1, <2>4 DEF Tainted
    <3>2. Shrinking(i) => Shrinking(i)'
      <4>1. LastWrite(i)' = LastWrite(i) /\ (KeptList(i) => KeptList(i)')
        BY <2>1 DEF LastWrite, KeptList
      <4> QED BY <2>1, <2>3, <4>1 DEF Shrinking
    <3>3. \A r \in DiskInode : Recording(i, r) => Recording(i, r)'
      BY <2>1, <2>3 DEF Recording
    <3>4. ASSUME NEW p \in Seq(Block), NEW b \in Block, NEW r \in DiskInode, Extending(i, p, b, r)
          PROVE  Extending(i, p, b, r)'
      <4>1. \/ todo' = <<Link(i, p, b, r)>> /\ b \in used' /\ next'[b] = NoBlock
            \/ /\ todo' = <<BlockWrite(b, TRUE, NoBlock), Link(i, p, b, r)>>
               /\ b \notin used'
            \/ \E q \in DiskInode :
               /\ todo' = <<InodeWrite(i, q), BlockWrite(b, TRUE, NoBlock), Link(i, p, b, r)>>
               /\ b \notin used' /\ q.used /\ q.first = disk'[i].first /\ i \in grown'
        BY <2>1, <3>4, Zenon DEF Extending
      <4>2. /\ mem'[i].open /\ disk'[i].used /\ mem'[i].list = Append(p, b)
            /\ Follows(next', disk'[i].first, p)
            /\ mem'[i].first = IF p = <<>> THEN b ELSE disk'[i].first
            /\ b \in Harmless'
            /\ r.used /\ r.first = b /\ (i \in grown' \/ p # <<>> \/ r.size <= 1)
        BY <2>1, <2>4, <3>4 DEF Extending
      <4> QED BY <4>1, <4>2, Zenon DEF Extending
    <3>6. Pending(i, busy.op) => Pending(i, busy.op)'
      <4>1. CASE busy.op = "wipe"
        BY <2>1, <3>2, <4>1 DEF Pending
      <4>2. CASE busy.op # "wipe"
        BY <2>1, <3>3, <3>4, <4>2 DEF Pending
      <4> QED BY <4>1, <4>2
    <3> QED BY <3>1, <3>5, <3>6
  <2> QED BY <2>2, <2>5, <2>6 DEF CrashInv
<1>2. ASSUME NEW i \in Inode, Change(i) PROVE CrashInv'
  <2>1. harms' \in 0 .. MaxHarms
    BY <1>2, CrashSafetyAssumption DEF CrashInv, TypeInv, TypeOK, Change
  <2>2. CASE \E n \in 1 .. BlockCount : TruncateDown(i, n)
    BY <2>1, <2>2, TruncateDownStep
  <2> QED BY <1>2, <2>1, <2>2, WriteBlockStep, TruncateUpStep, UnlinkStep DEF Change
<1>3. ASSUME NEW i \in Inode, (Create(i) \/ OpenFile(i) \/ CloseFile(i)) /\ UNCHANGED harms
      PROVE  CrashInv'
  <2>1. harms' \in 0 .. MaxHarms
    BY <1>3 DEF CrashInv, TypeInv, TypeOK
  <2> QED BY <1>3, <2>1, CreateStep, OpenFileStep, CloseFileStep
<1>4. CASE WriteRecord
  BY <1>4, WriteRecordStep
<1>5. CASE Crash
  BY <1>5, CrashStep
<1> QED BY <1>1, <1>2, <1>3, <1>4, <1>5 DEF Next

\* The inductive invariant: whatever records of a call have reached the disk,
\* what the call still has to write completes a chain, wipes what is doomed, or
\* is about a file a torn wipe may have harmed and about blocks no other file
\* reaches; and an opened inode that no call is changing agrees with the disk
\* (whefs_nodedev.c, whefs_inode.c, whefs_block.c).
THEOREM CrashTheorem == Spec => []CrashInv
BY CrashInit, CrashNext, PTL DEF Spec

\* After any number of crashes in calls that do not wipe, every crash has cost
\* one block at most: the one whefs_block_next_free() marked used and nothing
\* leads to yet (whefs_inode_block_list_append()).
THEOREM LeakBoundedAlways == Spec => []LeakBounded
<1>1. CrashInv => LeakBounded
  <2> SUFFICES ASSUME CrashInv, ~torn, busy = Idle PROVE Cardinality(used \ Reachable) <= crashes
    BY DEF LeakBounded
  <2>1. todo = <<>>
    BY DEF CrashInv, TypeInv, Idle
  <2>2. Leaked = used \ Reachable
    BY <2>1, Quiet
  <2> QED BY <2>2 DEF CrashInv, LeakInv
<1> QED BY <1>1, CrashTheorem, PTL

\* At no moment a crash can hit does the size on disk promise blocks the chain
\* does not have, for a file that never grew by whio_dev_inode_trunc() and that
\* no torn wipe may have harmed: the order of the writes of a call is right.
THEOREM SizeBackedAfterCrashAlways == Spec => []SizeBackedAfterCrash
<1>1. CrashInv => SizeBackedAfterCrash
  <2> SUFFICES ASSUME CrashInv, NEW i \in Inode \ (grown \cup spoiled),
                      ~(busy = [inode |-> i, op |-> "wipe"])
               PROVE  disk[i].size <= Cardinality(FileChain(i))
    BY DEF SizeBackedAfterCrash
  <2>1. ~Wiping(i)
    <3> SUFFICES ASSUME Wiping(i) PROVE FALSE
      OBVIOUS
    <3>1. busy.inode = i /\ busy.op = "wipe" /\ busy \in [inode: Inode \cup {NoInode}, op: {"none", "write", "wipe"}]
      BY DEF Wiping, Changing, CrashInv, TypeInv, TypeOK
    <3> QED BY <3>1
  <2> QED BY <2>1 DEF CrashInv, SizeInv, Sound
<1> QED BY <1>1, CrashTheorem, PTL

\* The blocks of a torn wipe are free, and the inode still leads to them
\* (whefs_block_wipe()); the allocators hand them out again, and later calls
\* write, truncate, wipe and unlink the file that shares them, and the torn one.
\* Through any sequence of such calls and crashes, and between any two writes,
\* the files that no call on a harmed file has reached, and that were handed no
\* block with a link left in it, own their blocks alone, and theirs are marked
\* used.
THEOREM TornWipeContainedAlways == Spec => []TornWipeContained
<1>1. CrashInv => TornWipeContained
  <2> SUFFICES ASSUME CrashInv, NEW i \in Sound, NEW j \in Sound
               PROVE  /\ busy # [inode |-> i, op |-> "wipe"] => FileChain(i) \subseteq used
                      /\ i # j => FileChain(i) \cap FileChain(j) = {}
    BY DEF TornWipeContained, Sound
  <2>1. busy # [inode |-> i, op |-> "wipe"] => ~Wiping(i)
    <3> SUFFICES ASSUME Wiping(i) PROVE busy = [inode |-> i, op |-> "wipe"]
      OBVIOUS
    <3>1. busy.inode = i /\ busy.op = "wipe" /\ busy \in [inode: Inode \cup {NoInode}, op: {"none", "write", "wipe"}]
      BY DEF Wiping, Changing, CrashInv, TypeInv, TypeOK
    <3> QED BY <3>1
  <2> QED BY <2>1 DEF CrashInv, MarkedInv, ApartInv
<1> QED BY <1>1, CrashTheorem, PTL
=============================================================================
