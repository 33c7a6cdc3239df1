------------------------------- MODULE Handles -------------------------------
(***************************************************************************)
(* The open handles of a container: pseudofile devices, files and streams;  *)
(* the list of what whefs_fs_finalize() must close (whefs_fs_closer.c), the *)
(* sorted list of opened inodes (whefs_inode.c) and the static slots their  *)
(* objects come from (whio_dev.c, whefs_fs_closer.c).  The linked lists are *)
(* modelled pointer by pointer; 0 is the null pointer.                      *)
(*                                                                          *)
(* A file or a stream is named by the device it owns.  Objects past the     *)
(* static slots come from malloc(), which does not fail here.  Static slots *)
(* are compiled in by ENABLE_STATIC_MALLOC only (whio_config.h,             *)
(* whefs_config.h); the default build has none: Slots = 0.                  *)
(***************************************************************************)
EXTENDS Naturals, FiniteSets, FiniteSetsExt

CONSTANTS
    Inode,      \* ids of used inodes
    MaxHandles, \* bound: handles open at a time
    Slots       \* static slots of each kind; addresses past Slots are malloc()ed

ASSUME HandlesAssumption ==
    /\ Inode \subseteq Nat \ {0}
    /\ MaxHandles \in Nat \ {0} /\ Slots \in Nat

Addr == 1..MaxHandles

VARIABLES
    dev,      \* address -> the device there: [inode, rw, owner]
    devPool,  \* slots of whio_dev: [used, next]
    closers,  \* the closers list: [head, entry, pool]; head is fs->closers
    node,     \* inode -> its entry of the opened list: [count, writer, next, prev]
    opened,   \* fs->opened_nodes: an inode or 0
    fs,       \* the container: "open", "closing" and "closed", "leaving" and "left"
    doomed    \* the entry whefs_fs_closer_list_close() goes on with

handlesVars == <<dev, devPool, closers, node, opened, fs, doomed>>

NoDev == [inode |-> 0, rw |-> FALSE, owner |-> "none"]
NoEntry == [type |-> "none", item |-> 0, next |-> 0, prev |-> 0]
NoNode == [count |-> 0, writer |-> 0, next |-> 0, prev |-> 0]
NoPool == [used |-> {}, next |-> 1]

HandlesInit ==
    /\ dev = [a \in Addr |-> NoDev] /\ devPool = NoPool
    /\ closers = [head |-> 0, entry |-> [a \in Addr |-> NoEntry], pool |-> NoPool]
    /\ node = [i \in Inode |-> NoNode] /\ opened = 0
    /\ fs = "open" /\ doomed = 0

-----------------------------------------------------------------------------
(* Slots: the first free one from the hint on, or malloc() *)

Free(pool) == {a \in Addr : a \notin pool.used /\ a >= pool.next /\ a <= Slots}
Heap(pool) == {a \in Addr : a \notin pool.used /\ a > Slots}

Taken(pool) == IF Free(pool) # {} THEN Min(Free(pool)) ELSE Min(Heap(pool))

\* whio_dev_alloc(), whefs_fs_closer_list_alloc()
Take(pool) ==
    [used |-> pool.used \cup {Taken(pool)},
     next |-> IF Free(pool) # {} THEN Taken(pool) + 1 ELSE pool.next]

\* Mutant: a slot below the hint is freed without lowering the hint.
GiveKeepsHint(pool, a) == [pool EXCEPT !.used = @ \ {a}]

\* whio_dev_free(), whefs_fs_closer_list_free()
Give(pool, a) ==
    [used |-> pool.used \ {a}, next |-> IF a <= Slots /\ a < pool.next THEN a ELSE pool.next]

CanTake(pool) == Free(pool) \cup Heap(pool) # {}

-----------------------------------------------------------------------------
(* The closers list *)

\* whefs_fs_closer_list_unlink()
Bypassed(c, a) ==
    [b \in Addr |->
        IF b = a THEN [c[b] EXCEPT !.next = 0, !.prev = 0]
        ELSE [c[b] EXCEPT !.next = IF c[a].prev = b THEN c[a].next ELSE @,
                          !.prev = IF c[a].next = b THEN c[a].prev ELSE @]]

\* What one reaches from p by following the pointer step[_], p included: the
\* least set that holds p and is closed under step.
ClosedUnder(step, S) == \A q \in S : step[q] # 0 => step[q] \in S

Reach(step, p) ==
    {q \in DOMAIN step : \A S \in SUBSET DOMAIN step :
        (p # 0 => p \in S) /\ ClosedUnder(step, S) => q \in S}

NextOf(entry) == [a \in DOMAIN entry |-> entry[a].next]
PrevOf(entry) == [a \in DOMAIN entry |-> entry[a].prev]

\* All entries of list l: the loops rewind along prev before they start.
Listed(l) == UNION {Reach(NextOf(l.entry), a) : a \in Reach(PrevOf(l.entry), l.head)}

\* whefs_fs_closer_dev_add(): at the end of the list.
Added(l, d) ==
    LET a == Taken(l.pool)
        tail == {b \in Reach(NextOf(l.entry), l.head) : l.entry[b].next = 0}
        new == [type |-> "dev", item |-> d, next |-> 0, prev |-> IF tail = {} THEN 0 ELSE Min(tail)]
    IN [head |-> IF l.head = 0 THEN a ELSE l.head,
        pool |-> Take(l.pool),
        entry |-> [b \in Addr |-> IF b = a THEN new
                                  ELSE IF b \in tail THEN [l.entry[b] EXCEPT !.next = a]
                                  ELSE l.entry[b]]]

Find(l, type, d) == {a \in Listed(l) : l.entry[a].type = type /\ l.entry[a].item = d}

\* whefs_fs_closer_file_add(), whefs_fs_closer_stream_add(): the entry of the
\* device becomes the entry of the file or of the stream that owns it.
Promoted(l, type, d) ==
    [l EXCEPT !.entry = [a \in Addr |->
        IF a \in Find(l, "dev", d) THEN [@[a] EXCEPT !.type = type] ELSE @[a]]]

\* whefs_fs_closer_list_free()
Dropped(l, a) ==
    [l EXCEPT !.entry = [Bypassed(@, a) EXCEPT ![a] = NoEntry], !.pool = Give(@, a)]

\* Mutant: the list loses what follows its head when the head is removed.
RemoveForgetsNext(l, type, d) ==
    IF Find(l, type, d) = {} THEN l
    ELSE LET a == Min(Find(l, type, d)) IN
         [Dropped(l, a) EXCEPT !.head = IF @ = a THEN l.entry[a].prev ELSE @]

\* whefs_fs_closer_remove()
Delisted(l, type, d) ==
    IF Find(l, type, d) = {} THEN l
    ELSE LET a == Min(Find(l, type, d)) IN
         [Dropped(l, a) EXCEPT
             !.head = IF @ # a THEN @ ELSE IF l.entry[a].prev # 0 THEN l.entry[a].prev ELSE l.entry[a].next]

-----------------------------------------------------------------------------
(* The opened inodes, sorted by id *)

\* What a walk from the head passes before it meets an id that is not below i.
Passed(i) ==
    LET step == [j \in Inode |-> IF j < i THEN node[j].next ELSE 0] IN Reach(step, opened)

\* whefs_inode_search_opened()
IsOpened(i) == i \in Passed(i)

\* Entry e of inode i comes to lie between the entries of p and n.
Linked(i, e, p, n) ==
    [j \in Inode |->
        IF j = i THEN [e EXCEPT !.prev = p, !.next = n]
        ELSE [node[j] EXCEPT !.next = IF j = p THEN i ELSE @, !.prev = IF j = n THEN i ELSE @]]

\* Mutant: the new entry goes behind the one the walk stopped at.
InsertRight(i, e) ==
    IF opened = 0 THEN node' = Linked(i, e, 0, 0) /\ opened' = i
    ELSE LET li == CHOOSE j \in Passed(i) : j > i \/ node[j].next = 0
         IN node' = Linked(i, e, li, node[li].next) /\ opened' = opened

\* whefs_inode_open(): a new entry before the first larger id, else at the end.
Insert(i, e) ==
    IF opened = 0 THEN node' = Linked(i, e, 0, 0) /\ opened' = i
    ELSE LET li == CHOOSE j \in Passed(i) : j > i \/ node[j].next = 0 IN
         IF li < i THEN node' = Linked(i, e, li, node[li].next) /\ opened' = opened
         ELSE /\ node' = Linked(i, e, node[li].prev, li)
              /\ opened' = IF li = opened THEN i ELSE opened

\* whefs_inode_close() by device d; the entry goes with its last user.
CloseInode(i, d) ==
    LET e == [node[i] EXCEPT !.count = @ - 1, !.writer = IF @ = d THEN 0 ELSE @] IN
    IF e.count > 0 THEN node' = [node EXCEPT ![i] = e] /\ UNCHANGED opened
    ELSE /\ opened' = IF i # opened THEN opened ELSE IF e.next # 0 THEN e.next ELSE e.prev
         /\ node' = [j \in Inode |->
                IF j = i THEN NoNode
                ELSE [node[j] EXCEPT !.next = IF j = e.prev THEN e.next ELSE @,
                                     !.prev = IF j = e.next THEN e.prev ELSE @]]

-----------------------------------------------------------------------------
(* Opening and closing handles *)

\* whefs_dev_for_inode() is refused: somebody else writes to the inode.
OpenRefused == \E i \in Inode :
    /\ fs = "open" /\ CanTake(devPool)
    /\ IsOpened(i) /\ node[i].writer \notin {0, Taken(devPool)}
    /\ devPool' = Give(Take(devPool), Taken(devPool))
    /\ UNCHANGED <<dev, closers, node, opened, fs, doomed>>

\* The inode as whefs_inode_open() leaves it for a device at d.  A writer that
\* has its address already is taken for the same device and not counted.
UseInode(i, d, rw) ==
    IF ~IsOpened(i)
    THEN Insert(i, [NoNode EXCEPT !.count = 1, !.writer = IF rw THEN d ELSE 0])
    ELSE /\ rw => node[i].writer \in {0, d}
         /\ node' = [node EXCEPT
                ![i].count = IF rw /\ node[i].writer = d THEN @ ELSE @ + 1,
                ![i].writer = IF @ = 0 /\ rw THEN d ELSE @]
         /\ UNCHANGED opened

\* whefs_dev_for_inode() for a handle of kind owner: the device is at d, its
\* inode in use, its entry in the closers list.
OpenAs(owner, i, rw, d) ==
    /\ fs = "open" /\ CanTake(devPool) /\ CanTake(closers.pool) /\ d = Taken(devPool)
    /\ devPool' = Take(devPool)
    /\ UseInode(i, d, rw)
    /\ dev' = [dev EXCEPT ![d] = [inode |-> i, rw |-> rw, owner |-> owner]]
    /\ UNCHANGED <<fs, doomed>>

\* whefs_dev_open()
OpenDev == \E i \in Inode, rw \in BOOLEAN, d \in Addr :
    OpenAs("dev", i, rw, d) /\ closers' = Added(closers, d)

\* whefs_fopen()
OpenFile == \E i \in Inode, rw \in BOOLEAN, d \in Addr :
    OpenAs("file", i, rw, d) /\ closers' = Promoted(Added(closers, d), "file", d)

\* whefs_stream_open(), with whio_stream_for_dev() as the owner of the device
OpenStream == \E i \in Inode, rw \in BOOLEAN, d \in Addr :
    OpenAs("stream", i, rw, d) /\ closers' = Promoted(Added(closers, d), "stream", d)

\* The device at d is finalized: its inode is let go and its slot is free.
FreeDev(d) ==
    /\ CloseInode(dev[d].inode, d)
    /\ dev' = [dev EXCEPT ![d] = NoDev]
    /\ devPool' = Give(devPool, d)

CloseAs(owner, d) == fs = "open" /\ dev[d].owner = owner /\ FreeDev(d) /\ UNCHANGED <<fs, doomed>>

\* whefs_dev_close()
CloseDev == \E d \in Addr : CloseAs("dev", d) /\ closers' = Delisted(closers, "dev", d)

\* whefs_fclose(): the file's entry goes, then what its device has under its own name.
CloseFile == \E d \in Addr :
    CloseAs("file", d) /\ closers' = Delisted(Delisted(closers, "file", d), "dev", d)

\* The destructor of a stream's device takes the entry of the stream away.
StreamGone(l, d) == Delisted(l, "stream", d)

\* finalize() of a stream finalizes the device it owns.
CloseStream == \E d \in Addr :
    CloseAs("stream", d) /\ closers' = Delisted(StreamGone(closers, d), "dev", d)

-----------------------------------------------------------------------------
(* whefs_fs_finalize() *)

First(l) == {a \in Listed(l) : l.entry[a].prev = 0}

\* All that is open is to be closed; the list is taken off the container so
\* that closing an object does not look for its entry.
Finalize ==
    /\ fs = "open" /\ fs' = "closing"
    /\ doomed' = IF closers.head = 0 THEN 0 ELSE Min(First(closers))
    /\ closers' = [closers EXCEPT !.head = 0]
    /\ UNCHANGED <<dev, devPool, node, opened>>

\* One turn of whefs_fs_closer_list_close().
CloseNext ==
    /\ fs = "closing" /\ doomed # 0
    /\ doomed' = closers.entry[doomed].next
    /\ FreeDev(closers.entry[doomed].item)
    /\ closers' = Dropped(closers, doomed)
    /\ UNCHANGED fs

\* Without auto-close one entry is freed, the objects stay with the client.
FinalizeNoAutoClose ==
    /\ fs = "open" /\ fs' = "leaving"
    /\ closers' = IF closers.head = 0 THEN closers ELSE [Dropped(closers, closers.head) EXCEPT !.head = 0]
    /\ UNCHANGED <<dev, devPool, node, opened, doomed>>

\* The inodes that are still open are closed one use at a time.
CloseOpened ==
    /\ fs \in {"closing", "leaving"} /\ doomed = 0 /\ opened # 0
    /\ CloseInode(opened, node[opened].writer)
    /\ UNCHANGED <<dev, devPool, closers, fs, doomed>>

Finalized ==
    /\ fs \in {"closing", "leaving"} /\ doomed = 0 /\ opened = 0
    /\ fs' = IF fs = "closing" THEN "closed" ELSE "left"
    /\ UNCHANGED <<dev, devPool, closers, node, opened, doomed>>

\* The next container of the program: the slots are as the last one left them.
Reopen ==
    /\ fs = "closed" /\ fs' = "open"
    /\ UNCHANGED <<dev, devPool, closers, node, opened, doomed>>

HandlesNext ==
    \/ OpenRefused \/ OpenDev \/ OpenFile \/ OpenStream \/ CloseDev \/ CloseFile \/ CloseStream
    \/ Finalize \/ CloseNext \/ FinalizeNoAutoClose \/ CloseOpened \/ Finalized \/ Reopen

HandlesSpec == HandlesInit /\ [][HandlesNext]_handlesVars

-----------------------------------------------------------------------------
OpenDevs == {d \in Addr : dev[d] # NoDev}

\* The list an auto-closing container still has to go through.
Pending == IF fs = "closing" THEN Reach(NextOf(closers.entry), doomed) ELSE Listed(closers)

\* Whatever was opened and closed in whatever order, what finalizing goes through
\* is every open handle once, by the kind it has to be closed as: nothing is
\* closed twice, nothing is forgotten, and after it nothing is left open.
ClosersExact ==
    /\ fs \in {"open", "closing"} =>
          /\ Cardinality(Pending) = Cardinality(OpenDevs)
          /\ \A d \in OpenDevs : \E a \in Pending :
                closers.entry[a].type = dev[d].owner /\ closers.entry[a].item = d
    /\ fs = "closed" => OpenDevs = {} /\ \A a \in Addr : closers.entry[a] = NoEntry

Users(i) == {d \in OpenDevs : dev[d].inode = i}

\* The opened list, by which two handles find the inode they share, is in order
\* from its head on and holds each inode with open handles once, with their
\* number and the one of them that writes; it is empty when the container is.
OpenedSorted ==
    LET chain == Reach(NextOf(node), opened) IN
    /\ fs \in {"open", "closing"} =>
          /\ chain = {i \in Inode : Users(i) # {}}
          /\ opened # 0 => node[opened].prev = 0
          /\ \A i \in chain :
                /\ node[i].next # 0 => node[i].next > i /\ node[node[i].next].prev = i
                /\ node[i].count = Cardinality(Users(i))
                /\ {d \in Users(i) : dev[d].rw} = {node[i].writer} \ {0}
    /\ fs \in {"closed", "left"} => opened = 0

\* An object is at an address nobody else has, and a free slot is found: none
\* lies below the hint, where the search for it starts.  The second part is about
\* builds with static slots.
SlotsKept ==
    /\ devPool.used = OpenDevs
    /\ closers.pool.used = {a \in Addr : closers.entry[a] # NoEntry}
    /\ \A pool \in {devPool, closers.pool}, a \in 1..Slots :
          a < pool.next => a \in pool.used
=============================================================================
