-------------------------------- MODULE Names --------------------------------
(***************************************************************************)
(* Names of pseudofiles: the table of names in the container (whefs_fs.c),  *)
(* the cache of name hashes (whefs_cache.c, whefs_hash.c) and the calls     *)
(* that look names up, give and take them (whefs_inode.c, whefs_file.c,     *)
(* whefs_client_util.c).                                                    *)
(*                                                                          *)
(* The cache is the bag of its whefs_hashid entries.  A sorted list has     *)
(* equal hashes side by side in an order qsort() chooses: "tie" says which  *)
(* of them a call finds.  An entry's counter of hits decides nothing but    *)
(* which half whefs_hashid_list_chomp_lv() drops, so any half may go.       *)
(***************************************************************************)
EXTENDS Integers, FiniteSets, Bags

CONSTANTS
    InodeCount,  \* whefs_fs_options.inode_count
    Name,        \* the names clients use
    TooLong,     \* those longer than whefs_fs_options.filename_length
    HashOf       \* whefs_fs.cache.hashfunc: a number for every name and for ""

NoName == ""

ASSUME NamesAssumption ==
    /\ InodeCount \in Nat \ {0, 1}
    /\ TooLong \subseteq Name /\ NoName \notin Name
    /\ HashOf \in [Name \cup {NoName} -> Nat]

VARIABLES
    used,     \* disk: inode -> the flag WHEFS_FLAG_Used
    name,     \* disk: inode -> its record of the names table
    data,     \* disk: what whefs_inode.first_block leads to
    cache,    \* whefs_fs.cache.hashes
    caching,  \* WHEFS_FLAG_FS_EnableHashCache
    handles   \* opened devices: at most one reader and one writer of an inode

vars == <<used, name, data, cache, caching, handles>>

Inode == 2 .. InodeCount   \* inode 1 is the root and has no name

Entry == [hash: Nat, id: Inode]

TypeOK ==
    /\ used \in [Inode -> BOOLEAN]
    /\ name \in [Inode -> (Name \ TooLong) \cup {NoName}]
    /\ data \in [Inode -> {"none", "live", "wiped"}]
    /\ IsABag(cache) /\ BagToSet(cache) \subseteq Entry /\ BagCardinality(cache) <= InodeCount
    /\ caching \in BOOLEAN
    /\ handles \subseteq [id: Inode, rw: BOOLEAN]

Init ==
    /\ used = [i \in Inode |-> FALSE]
    /\ name = [i \in Inode |-> NoName]
    /\ data = [i \in Inode |-> "none"]
    /\ cache = EmptyBag
    /\ caching = TRUE
    /\ handles = {}

-----------------------------------------------------------------------------
(* The cache *)

Tie == {"low", "high"}

First(S, tie) == CHOOSE i \in S : \A j \in S : IF tie = "low" THEN i <= j ELSE j <= i

\* The inode of the entry a search for hash h finds, 0 if there is none.
IndexOf(c, h, tie) ==
    LET hits == {e.id : e \in {e \in BagToSet(c) : e.hash = h}}
    IN  IF hits = {} THEN 0 ELSE First(hits, tie)

Hashes(c) == {e.hash : e \in BagToSet(c)}

Before(order, i, j) == IF order = "up" THEN i < j ELSE j < i

\* whefs_inode_name_get() adds the name it read: unless an entry has its hash,
\* which then may be another inode's, or the list is at its limit.  Of the names
\* of a set of inodes, read upwards or downwards, the first one of every hash
\* that is not cached yet is added, as long as there is room.
CacheNames(on, names, c, ids, order) ==
    LET hash(i) == HashOf[names[i]]
        new == {i \in ids : names[i] # NoName /\ hash(i) \notin Hashes(c)}
        first == {i \in new : \A j \in new : Before(order, j, i) => hash(j) # hash(i)}
        room == InodeCount - BagCardinality(c)
        added == {i \in first : Cardinality({j \in first : Before(order, j, i)}) < room}
    IN  IF on THEN c (+) SetToBag({[hash |-> hash(i), id |-> i] : i \in added}) ELSE c

CacheName(on, names, c, i) == CacheNames(on, names, c, {i}, "up")

\* Mutant: an inode renamed keeps its hash in the cache.
RehashForgotten(c, i, old, new) == c

\* The entry found for an inode gets the hash of its new name.
Rehash(c, i, old, new) ==
    (c (-) SetToBag({[hash |-> HashOf[old], id |-> i]})) (+) SetToBag({[hash |-> HashOf[new], id |-> i]})

-----------------------------------------------------------------------------
(* Lookup and renaming: the result of a call with the cache it leaves *)

\* Mutant: the walk after a hit goes on past the inode the cache named.
ByNameSkipsHit(n, tie) ==
    LET hit == IndexOf(cache, HashOf[n], tie)
        start == IF hit = 0 THEN 2 ELSE hit + 1
        matching == {i \in start .. InodeCount : name[i] = n}
    IN  [id |-> IF matching = {} THEN 0 ELSE First(matching, "low"), cache |-> cache]

\* whefs_inode_by_name(): from the inode the cache names or, if it names none,
\* from the first; nameless inodes are passed over, and after a hit the next
\* name must be the one looked for (an assertion, or ConsistencyError).
ByName(n, tie) ==
    LET hit == IndexOf(cache, HashOf[n], tie)
        start == IF hit = 0 THEN 2 ELSE hit
        stops == {i \in start .. InodeCount : IF hit = 0 THEN name[i] = n ELSE name[i] # NoName}
        stop == IF stops = {} THEN InodeCount ELSE First(stops, "low")
    IN  IF n \in TooLong THEN [id |-> 0, cache |-> cache]
        ELSE [id |-> IF stops # {} /\ name[stop] = n THEN stop ELSE 0,
              cache |-> CacheNames(caching, name, cache, start .. stop, "up")]

\* Mutant: the collision looked for is one of the new name.
NameSetChecksNew(names, c, i, n, tie) ==
    LET read == CacheName(caching, names, c, i)
        stored == (caching => IndexOf(read, HashOf[n], tie) \in {0, i}) /\ n \notin TooLong
        own == caching /\ names[i] # n /\ IndexOf(read, HashOf[names[i]], tie) = i
    IN  [ok |-> stored, name |-> IF stored THEN n ELSE names[i],
         cache |-> IF stored /\ own THEN Rehash(read, i, names[i], n) ELSE read]

\* whefs_inode_name_set(): refused when the hash of the old name, or of the new
\* one if there is no old one, is cached for another inode.
NameSet(names, c, i, n, tie) ==
    LET read == CacheName(caching, names, c, i)
        checked == IF names[i] # NoName THEN names[i] ELSE n
        hit == IF caching THEN IndexOf(read, HashOf[checked], tie) ELSE 0
        same == names[i] # NoName /\ names[i] = n
        stored == hit \in {0, i} /\ n \notin TooLong
    IN  [ok |-> same \/ stored,
         name |-> IF stored THEN n ELSE names[i],
         cache |-> IF ~ same /\ stored /\ hit = i THEN Rehash(read, i, checked, n) ELSE read]

Unused == {i \in Inode : ~ used[i]}

\* What opening for writing and importing begin with: a failed lookup, whatever
\* the reason, takes an inode and names it; a name refused leaves the inode used.
FindOrCreate(n, tie) ==
    LET found == ByName(n, tie)
    IN  IF found.id # 0 \/ Unused = {}
        THEN [id |-> found.id, new |-> 0, name |-> name, cache |-> found.cache]
        ELSE LET i == First(Unused, "low")
                 set == NameSet(name, found.cache, i, n, tie)
             IN  [id |-> IF set.ok THEN i ELSE 0, new |-> i, name |-> [name EXCEPT ![i] = set.name],
                  cache |-> set.cache]

-----------------------------------------------------------------------------
(* The calls *)

Opened(i) == \E h \in handles : h.id = i

\* whefs_fopen() with "r", whefs_dev_open() for reading
OpenToRead(n, tie) ==
    LET found == ByName(n, tie)
    IN  /\ [id |-> found.id, rw |-> FALSE] \notin handles
        /\ cache' = found.cache
        /\ handles' = handles \cup {[id |-> i, rw |-> FALSE] : i \in {found.id} \ {0}}
        /\ UNCHANGED <<used, name, data, caching>>

\* whefs_fopen() with "r+", whefs_dev_open() for writing: a second writer gets
\* no device, and an inode created for it would stay.
OpenToWrite(n, tie) ==
    LET got == FindOrCreate(n, tie)
    IN  /\ used' = [i \in Inode |-> used[i] \/ i = got.new]
        /\ name' = got.name
        /\ cache' = got.cache
        /\ handles' = handles \cup {[id |-> i, rw |-> TRUE] : i \in {got.id} \ {0}}
        /\ UNCHANGED <<data, caching>>

\* whefs_fclose(), whefs_dev_close()
Close(h) ==
    /\ handles' = handles \ {h}
    /\ UNCHANGED <<used, name, data, cache, caching>>

\* whefs_fwrite(): a chain is begun.
Write(h) ==
    /\ h.rw /\ data[h.id] = "none"
    /\ data' = [data EXCEPT ![h.id] = "live"]
    /\ UNCHANGED <<used, name, cache, caching, handles>>

\* whefs_file_name_set(): whether another file has the name is not looked at.
Rename(h, n, tie) ==
    LET set == NameSet(name, cache, h.id, n, tie)
    IN  /\ h.rw
        /\ name' = [name EXCEPT ![h.id] = set.name]
        /\ cache' = set.cache
        /\ UNCHANGED <<used, data, caching, handles>>

\* whefs_unlink_filename(), whefs_inode_unlink(): the chain is wiped, then the
\* name taken away, then the record emptied; without the last two the record
\* leads to blocks that are free.
UnlinkFilename(n, tie) ==
    LET found == ByName(n, tie)
        i == found.id
        set == NameSet(name, found.cache, i, NoName, tie)
    IN  /\ UNCHANGED <<caching, handles>>
        /\ IF i = 0 \/ Opened(i)
           THEN cache' = found.cache /\ UNCHANGED <<used, name, data>>
           ELSE /\ cache' = set.cache
                /\ name' = [name EXCEPT ![i] = set.name]
                /\ used' = [used EXCEPT ![i] = ~ set.ok]
                /\ data' = [data EXCEPT ![i] = IF set.ok \/ @ = "none" THEN "none" ELSE "wiped"]

\* whefs_import_dev() with the outcome of the copy.  An inode created for it is
\* unlinked again by the record read before the copy, which leads to no block.
ImportDev(n, overwrite, outcome, tie) ==
    LET found == ByName(n, tie)
        got == FindOrCreate(n, tie)
        i == got.id
        undo == NameSet(got.name, got.cache, i, NoName, tie)
    IN  /\ UNCHANGED <<caching, handles>>
        /\ IF found.id # 0 /\ ~ overwrite
           THEN cache' = found.cache /\ UNCHANGED <<used, name, data>>
           ELSE IF outcome = "fails" /\ i # 0 /\ got.new = i
           THEN /\ cache' = undo.cache
                /\ name' = [got.name EXCEPT ![i] = undo.name]
                /\ used' = [used EXCEPT ![i] = ~ undo.ok]
                /\ data' = [data EXCEPT ![i] = "none"]
           ELSE /\ cache' = got.cache
                /\ name' = got.name
                /\ used' = [j \in Inode |-> used[j] \/ j = got.new]
                /\ \E d \in {"none", "live"} :
                      data' = IF i = 0 \/ [id |-> i, rw |-> TRUE] \in handles
                              THEN data ELSE [data EXCEPT ![i] = d]

\* whefs_file_name_get() reads one name; whefs_ls() and whefs_fs_entry_foreach()
\* read all of them, the latter those of used inodes.
ReadNames(ids) ==
    /\ cache' = CacheNames(caching, name, cache, ids, "up")
    /\ UNCHANGED <<used, name, data, caching, handles>>

\* The bags contained in one of at most InodeCount entries.
Parts(c) ==
    {part \in UNION {[S -> 1 .. InodeCount] : S \in SUBSET BagToSet(c)} : part \sqsubseteq c}

\* whefs_inode_hash_cache_chomp_lv(), which only a client calls (none but the
\* tests does: a full list answers RangeError, it is not halved).  The list of a
\* small container is never reallocated, its capacity is InodeCount.
ChompCache ==
    LET count == BagCardinality(cache)
    IN  /\ count >= 2 /\ count >= InodeCount \div 2
        /\ cache' \in {part \in Parts(cache) : BagCardinality(part) = count \div 2}
        /\ UNCHANGED <<used, name, data, caching, handles>>

\* whefs_fs_setopt_hash_cache(): filled from the last inode down, or dropped.
SetoptHashCache(on, loadNow) ==
    /\ caching' = on
    /\ cache' = IF ~ on THEN EmptyBag
                ELSE IF loadNow THEN CacheNames(TRUE, name, cache, Inode, "down")
                ELSE cache
    /\ UNCHANGED <<used, name, data, handles>>

\* The container is finalized and opened again: names are cached as they are read.
Reopen ==
    /\ cache' = EmptyBag /\ caching' = TRUE /\ handles' = {}
    /\ UNCHANGED <<used, name, data>>

Next ==
    \/ \E n \in Name, tie \in Tie :
          \/ OpenToRead(n, tie)
          \/ OpenToWrite(n, tie)
          \/ UnlinkFilename(n, tie)
          \/ \E overwrite \in BOOLEAN, outcome \in {"fails", "done"} : ImportDev(n, overwrite, outcome, tie)
          \/ \E h \in handles : Rename(h, n, tie)
    \/ \E h \in handles : Close(h) \/ Write(h)
    \/ \E i \in Inode : ReadNames({i})
    \/ ReadNames(Inode)
    \/ ReadNames({i \in Inode : used[i]})
    \/ ChompCache
    \/ \E on, loadNow \in BOOLEAN : SetoptHashCache(on, loadNow)
    \/ Reopen

Spec == Init /\ [][Next]_vars

-----------------------------------------------------------------------------
(* Properties *)

\* Name n shares its hash with the name of a file that is called otherwise, or
\* with the empty name, under which unlinked files stay in the cache.
Collides(n) ==
    \/ HashOf[n] = HashOf[NoName]
    \/ \E i \in Inode : name[i] \notin {NoName, n} /\ HashOf[name[i]] = HashOf[n]

\* A file that has a name is found by it, whatever was cached, renamed, unlinked
\* and dropped before, as long as no other file's name has its hash.
NamesFound ==
    \A n \in Name, tie \in Tie :
        (\E i \in Inode : name[i] = n) /\ ~ Collides(n)
        => LET i == ByName(n, tie).id IN i # 0 /\ used[i] /\ name[i] = n

\* A cached hash is that of the name its inode has now; entries left by unlinked
\* files hold the hash of the empty name, which no lookup asks for.
CacheTellsTruth ==
    \A e \in BagToSet(cache) :
        e.hash # HashOf[NoName] => used[e.id] /\ name[e.id] # NoName /\ HashOf[name[e.id]] = e.hash

\* While an inode is free, opening for writing finds or creates the file for every
\* name that is not too long and shares its hash with no other file's: only for
\* those two can the call leave a used inode without a name, which none can reach.
NameGiven ==
    \A n \in Name \ TooLong, tie \in Tie :
        Unused # {} /\ ~ Collides(n) => FindOrCreate(n, tie).id # 0

\* Unlinking that wiped a chain also takes the name and the inode, except when
\* the name shares its hash with another file's: then the inode stays, and its
\* first block is free for another file.
WipedOnlyOnCollision ==
    [][\A i \in Inode : data[i] # "wiped" /\ data'[i] = "wiped" => Collides(name[i])]_vars

\* whefs.h of whefs_unlink_filename(): the file is deleted, or the call failed
\* and it was not.
UnlinkAllOrNothing == \A i \in Inode : data[i] # "wiped"
=============================================================================
