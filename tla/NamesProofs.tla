----------------------------- MODULE NamesProofs -----------------------------
(***************************************************************************)
(* Proofs about Names, for every number of inodes, every set of names and   *)
(* every hash function, those that give two names one hash included.        *)
(*                                                                          *)
(* The invariant says that the cache is sound: an entry whose hash is not   *)
(* that of the empty name tells the hash of the name its inode has, and is  *)
(* there once, so that giving its inode another name leaves no stale entry. *)
(***************************************************************************)
EXTENDS Names, WellFoundedInduction, TLAPS

EmptyHash == HashOf[NoName]

Stored == (Name \ TooLong) \cup {NoName}

Truthful(names, c) ==
    \A e \in BagToSet(c) :
        e.hash # EmptyHash => names[e.id] # NoName /\ HashOf[names[e.id]] = e.hash

Single(c) == \A e \in BagToSet(c) : e.hash # EmptyHash => c[e] = 1

Sound(names, c) ==
    /\ IsABag(c) /\ BagToSet(c) \subseteq Entry
    /\ Truthful(names, c)
    /\ Single(c)

\* A cache that is switched off is empty.
OffEmpty(on, c) == on \/ BagToSet(c) = {}

\* The names and the cache: only used inodes have a name.
NamesOK ==
    /\ used \in [Inode -> BOOLEAN]
    /\ name \in [Inode -> Stored]
    /\ caching \in BOOLEAN
    /\ Sound(name, cache) /\ OffEmpty(caching, cache)
    /\ \A i \in Inode : name[i] # NoName => used[i]

NamesInv ==
    /\ NamesOK
    /\ data \in [Inode -> {"none", "live", "wiped"}]
    /\ handles \subseteq [id: Inode, rw: BOOLEAN]
    /\ \A h \in handles : used[h.id]

-----------------------------------------------------------------------------
(* The first inode of a set *)

LEMMA LeastNatural ==
    ASSUME NEW T \in SUBSET Nat, T # {}
    PROVE  \E t \in T : \A m \in T : t <= m
<1>1. PICK t \in T : \A m \in T : ~ (<<m, t>> \in OpToRel(<, Nat))
  BY NatLessThanWellFounded, WFMin
<1>2. \A m \in T : ~ (m < t)
  BY <1>1 DEF OpToRel
<1> QED BY <1>2

LEMMA FirstLow ==
    ASSUME NEW S \in SUBSET Nat, S # {}
    PROVE  First(S, "low") \in S /\ \A m \in S : First(S, "low") <= m
BY LeastNatural DEF First

LEMMA GreatestNatural ==
    ASSUME NEW b \in Nat, NEW S \in SUBSET (0 .. b), S # {}
    PROVE  \E t \in S : \A m \in S : m <= t
<1> DEFINE T == {m \in 0 .. b : b - m \in S}
<1>1. T \in SUBSET Nat
  OBVIOUS
<1>2. T # {}
  <2>1. PICK m \in S : TRUE
    OBVIOUS
  <2>2. b - m \in 0 .. b /\ b - (b - m) = m
    OBVIOUS
  <2> QED BY <2>1, <2>2
<1>3. PICK t \in T : \A m \in T : t <= m
  BY <1>1, <1>2, LeastNatural
<1>4. ASSUME NEW m \in S
      PROVE  m <= b - t
  <2>1. b - m \in 0 .. b /\ b - (b - m) = m
    OBVIOUS
  <2>2. t <= b - m
    BY <1>3, <2>1
  <2> QED BY <2>2
<1>5. b - t \in S
  BY <1>3
<1> QED BY <1>4, <1>5

LEMMA FirstIn ==
    ASSUME NEW b \in Nat, NEW S \in SUBSET (0 .. b), S # {}, NEW tie \in Tie
    PROVE  First(S, tie) \in S
<1>1. CASE tie = "low"
  BY <1>1, FirstLow
<1>2. CASE tie = "high"
  <2>1. tie # "low"
    BY <1>2
  <2>2. First(S, tie) = CHOOSE i \in S : \A j \in S : j <= i
    BY <2>1 DEF First
  <2> QED BY <2>2, GreatestNatural
<1> QED BY <1>1, <1>2 DEF Tie

\* What a search for hash h finds: an entry with it, or 0 where there is none.
Hit(c, h, i) ==
    IF i = 0 THEN \A e \in BagToSet(c) : e.hash # h
             ELSE i \in Inode /\ [hash |-> h, id |-> i] \in BagToSet(c)

LEMMA IndexHits ==
    ASSUME NEW c, BagToSet(c) \subseteq Entry, NEW h, NEW tie \in Tie
    PROVE  Hit(c, h, IndexOf(c, h, tie))
<1> DEFINE hits == {e.id : e \in {e \in BagToSet(c) : e.hash = h}}
<1>1. InodeCount \in Nat /\ Inode = 2 .. InodeCount
  BY NamesAssumption DEF Inode
<1>2. IndexOf(c, h, tie) = IF hits = {} THEN 0 ELSE First(hits, tie)
  BY DEF IndexOf
<1>3. hits \in SUBSET Inode
  BY DEF Entry
<1>4. CASE hits = {}
  BY <1>2, <1>4 DEF Hit
<1>5. CASE hits # {}
  <2>1. hits \in SUBSET (0 .. InodeCount)
    BY <1>1, <1>3
  <2>2. IndexOf(c, h, tie) \in hits
    <3> HIDE DEF hits
    <3> QED BY <1>1, <1>2, <1>5, <2>1, FirstIn
  <2>3. PICK e \in BagToSet(c) : e.hash = h /\ e.id = IndexOf(c, h, tie)
    BY <2>2
  <2>4. e = [hash |-> h, id |-> IndexOf(c, h, tie)]
    BY <2>3 DEF Entry
  <2>5. IndexOf(c, h, tie) \in Inode /\ IndexOf(c, h, tie) # 0
    BY <1>1, <1>3, <2>2
  <2> QED BY <2>4, <2>5 DEF Hit
<1> QED BY <1>4, <1>5

-----------------------------------------------------------------------------
(* Reading names: entries that are new have hashes that were not cached *)

\* What names read add to a cache: true entries of the inodes read.
Added(names, c, ids) ==
    {[hash |-> HashOf[names[i]], id |-> i] : i \in {j \in ids : names[j] # NoName /\ HashOf[names[j]] \notin Hashes(c)}}

\* Cache d is cache c with some of the names of the inodes ids read.
ReadInto(names, c, d, ids) ==
    \E A \in SUBSET Added(names, c, ids) : d = c (+) SetToBag(A)

LEMMA CacheNamesReads ==
    ASSUME NEW on \in BOOLEAN, NEW names, NEW c, NEW ids, NEW order
    PROVE  IF on THEN ReadInto(names, c, CacheNames(on, names, c, ids, order), ids)
                 ELSE CacheNames(on, names, c, ids, order) = c
<1> DEFINE hash(i) == HashOf[names[i]]
           new == {i \in ids : names[i] # NoName /\ hash(i) \notin Hashes(c)}
           first == {i \in new : \A j \in new : Before(order, j, i) => hash(j) # hash(i)}
           room == InodeCount - BagCardinality(c)
           added == {i \in first : Cardinality({j \in first : Before(order, j, i)}) < room}
           A == {[hash |-> hash(i), id |-> i] : i \in added}
<1>1. CacheNames(on, names, c, ids, order) = IF on THEN c (+) SetToBag(A) ELSE c
  BY DEF CacheNames
<1>2. added \subseteq new
  OBVIOUS
<1>3. A \subseteq Added(names, c, ids)
  <2> HIDE DEF added
  <2> QED BY <1>2 DEF Added
<1> HIDE DEF A
<1> QED BY <1>1, <1>3 DEF ReadInto

LEMMA PlusSet ==
    ASSUME NEW c, IsABag(c), NEW A
    PROVE  /\ IsABag(c (+) SetToBag(A))
           /\ BagToSet(c (+) SetToBag(A)) = BagToSet(c) \cup A
           /\ \A e \in BagToSet(c) \ A : (c (+) SetToBag(A))[e] = c[e]
           /\ \A e \in A \ BagToSet(c) : (c (+) SetToBag(A))[e] = 1
<1> DEFINE s == SetToBag(A)
           d == [e \in DOMAIN c \cup A |->
                   (IF e \in DOMAIN c THEN c[e] ELSE 0) + (IF e \in A THEN s[e] ELSE 0)]
<1>1. DOMAIN s = A /\ \A e \in A : s[e] = 1
  BY DEF SetToBag
<1>2. c (+) s = d
  <2> HIDE DEF s
  <2> QED BY <1>1 DEF (+)
<1>3. \A e \in DOMAIN c : c[e] \in Nat /\ c[e] > 0
  BY DEF IsABag
<1>4. DOMAIN d = DOMAIN c \cup A
  OBVIOUS
<1>5. \A e \in DOMAIN c \cup A :
        d[e] = (IF e \in DOMAIN c THEN c[e] ELSE 0) + (IF e \in A THEN 1 ELSE 0)
  <2> HIDE DEF s
  <2> QED BY <1>1
<1>6. \A e \in DOMAIN c \cup A : d[e] \in {n \in Nat : n > 0}
  <2> HIDE DEF d
  <2> QED BY <1>3, <1>5
<1>7. d \in [DOMAIN d -> {n \in Nat : n > 0}]
  <2>1. d = [e \in DOMAIN d |-> d[e]]
    OBVIOUS
  <2> HIDE DEF d
  <2> QED BY <1>4, <1>6, <2>1
<1> HIDE DEF d
<1> QED BY <1>2, <1>3, <1>4, <1>5, <1>7 DEF IsABag, BagToSet

LEMMA NamesHash ==
    ASSUME NEW n \in Name \cup {NoName}
    PROVE  HashOf[n] \in Nat
BY NamesAssumption

LEMMA ReadIntoSound ==
    ASSUME NEW names \in [Inode -> Stored], NEW c, NEW d, NEW ids \in SUBSET Inode,
           Sound(names, c), ReadInto(names, c, d, ids)
    PROVE  /\ Sound(names, d)
           /\ BagToSet(c) \subseteq BagToSet(d)
           /\ BagToSet(d) \subseteq BagToSet(c) \cup Added(names, c, ids)
<1>1. PICK A \in SUBSET Added(names, c, ids) : d = c (+) SetToBag(A)
  BY DEF ReadInto
<1>2. ASSUME NEW e \in A
      PROVE  /\ e \in Entry /\ names[e.id] # NoName /\ HashOf[names[e.id]] = e.hash
             /\ e.hash \notin Hashes(c)
  <2>1. PICK i \in ids : /\ names[i] # NoName /\ HashOf[names[i]] \notin Hashes(c)
                         /\ e = [hash |-> HashOf[names[i]], id |-> i]
    BY <1>2 DEF Added
  <2>2. HashOf[names[i]] \in Nat
    BY NamesHash DEF Stored
  <2> QED BY <2>1, <2>2 DEF Entry
<1>3. A \cap BagToSet(c) = {}
  BY <1>2 DEF Hashes
<1>4. /\ IsABag(d) /\ BagToSet(d) = BagToSet(c) \cup A
      /\ \A e \in BagToSet(c) : d[e] = c[e]
      /\ \A e \in A : d[e] = 1
  BY <1>1, <1>3, PlusSet DEF Sound
<1>5. BagToSet(d) \subseteq Entry
  BY <1>2, <1>4 DEF Sound
<1>6. Truthful(names, d)
  BY <1>2, <1>4 DEF Sound, Truthful
<1>7. Single(d)
  BY <1>4 DEF Sound, Single
<1> QED BY <1>1, <1>4, <1>5, <1>6, <1>7 DEF Sound

\* Cache d is sound and cache c with some of the names of ids read.
SoundRead(on, names, c, d, ids) ==
    /\ Sound(names, d) /\ OffEmpty(on, d)
    /\ BagToSet(c) \subseteq BagToSet(d)
    /\ BagToSet(d) \subseteq BagToSet(c) \cup Added(names, c, ids)

LEMMA CacheNamesSound ==
    ASSUME NEW on \in BOOLEAN, NEW names \in [Inode -> Stored], NEW c, NEW ids \in SUBSET Inode,
           NEW order, Sound(names, c), OffEmpty(on, c)
    PROVE  SoundRead(on, names, c, CacheNames(on, names, c, ids, order), ids)
<1>1. CASE on
  BY <1>1, CacheNamesReads, ReadIntoSound DEF OffEmpty, SoundRead
<1>2. CASE ~ on
  BY <1>2, CacheNamesReads DEF OffEmpty, SoundRead
<1> QED BY <1>1, <1>2

-----------------------------------------------------------------------------
(* Naming an inode *)

\* Bag d is bag c with one x less.
Without(c, x, d) ==
    /\ IsABag(d)
    /\ BagToSet(d) \subseteq BagToSet(c)
    /\ c[x] = 1 => x \notin BagToSet(d)
    /\ \A e \in BagToSet(c) \ {x} : e \in BagToSet(d) /\ d[e] = c[e]

LEMMA MinusOne ==
    ASSUME NEW c, IsABag(c), NEW x \in BagToSet(c)
    PROVE  Without(c, x, c (-) SetToBag({x}))
<1>0. PICK d : d = c (-) SetToBag({x})
  OBVIOUS
<1> DEFINE s == SetToBag({x})
           b == [e \in DOMAIN c |-> IF e \in DOMAIN s THEN c[e] - s[e] ELSE c[e]]
<1>1. DOMAIN s = {x} /\ s[x] = 1
  BY DEF SetToBag
<1>2. d = [e \in {f \in DOMAIN b : b[f] > 0} |-> b[e]]
  BY <1>0 DEF (-)
<1>3. \A e \in DOMAIN c : c[e] \in Nat /\ c[e] > 0
  BY DEF IsABag
<1>4. DOMAIN b = DOMAIN c /\ \A e \in DOMAIN c : b[e] = IF e = x THEN c[e] - 1 ELSE c[e]
  <2> HIDE DEF s
  <2> QED BY <1>1
<1> HIDE DEF b
<1>5. DOMAIN d = {f \in DOMAIN c : b[f] > 0} /\ \A e \in DOMAIN d : d[e] = b[e]
  BY <1>2, <1>4
<1>6. \A e \in DOMAIN d : d[e] \in {n \in Nat : n > 0}
  <2> SUFFICES ASSUME NEW e \in DOMAIN d
               PROVE  d[e] \in {n \in Nat : n > 0}
    OBVIOUS
  <2>1. e \in DOMAIN c /\ b[e] > 0 /\ d[e] = b[e]
    BY <1>5
  <2>2. c[e] \in Nat /\ c[e] > 0
    BY <1>3, <2>1
  <2>3. b[e] = c[e] - 1 \/ b[e] = c[e]
    BY <1>4, <2>1
  <2> QED BY <2>1, <2>2, <2>3
<1>7. IsABag(d)
  <2>1. d = [e \in DOMAIN d |-> d[e]]
    BY <1>2
  <2> QED BY <1>6, <2>1 DEF IsABag
<1> QED BY <1>0, <1>3, <1>4, <1>5, <1>7 DEF BagToSet, Without

LEMMA RehashSound ==
    ASSUME NEW names \in [Inode -> Stored], NEW c, Sound(names, c), NEW i \in Inode,
           NEW old \in Name \cup {NoName}, NEW new \in Stored,
           names[i] # NoName => old = names[i],
           [hash |-> HashOf[old], id |-> i] \in BagToSet(c)
    PROVE  Sound([names EXCEPT ![i] = new], Rehash(c, i, old, new))
<1> DEFINE x == [hash |-> HashOf[old], id |-> i]
           y == [hash |-> HashOf[new], id |-> i]
           to == [names EXCEPT ![i] = new]
<1>1. PICK d : d = c (-) SetToBag({x})
  OBVIOUS
<1>2. PICK f : f = d (+) SetToBag({y})
  OBVIOUS
<1>3. Rehash(c, i, old, new) = f
  BY <1>1, <1>2 DEF Rehash
<1>4. x.hash = HashOf[old] /\ x.id = i /\ y.hash = HashOf[new] /\ y.id = i
  OBVIOUS
<1>5. HashOf[new] \in Nat /\ y \in Entry
  <2>1. HashOf[new] \in Nat
    BY NamesHash DEF Stored
  <2> QED BY <2>1 DEF Entry
<1>6. to[i] = new /\ \A j \in Inode \ {i} : to[j] = names[j]
  OBVIOUS
<1> HIDE DEF x, y, to
<1>7. x \in BagToSet(c) /\ IsABag(c) /\ BagToSet(c) \subseteq Entry
  BY DEF x, Sound
<1>8. /\ IsABag(d) /\ BagToSet(d) \subseteq BagToSet(c)
      /\ c[x] = 1 => x \notin BagToSet(d)
      /\ \A e \in BagToSet(c) \ {x} : e \in BagToSet(d) /\ d[e] = c[e]
  BY <1>1, <1>7, MinusOne DEF Without
<1>9. /\ IsABag(f) /\ BagToSet(f) = BagToSet(d) \cup {y}
      /\ \A e \in BagToSet(d) \ {y} : f[e] = d[e]
      /\ y \notin BagToSet(d) => f[y] = 1
  BY <1>2, <1>8, PlusSet
\* Of the entries that stay none tells the old name.
<1>10. ASSUME NEW e \in BagToSet(d), e.hash # EmptyHash
       PROVE  e.id # i /\ e # x
  <2>1. e \in BagToSet(c) /\ e \in Entry
    BY <1>7, <1>8
  <2>2. e = x => c[x] = 1
    BY <1>10, <2>1 DEF Sound, Single
  <2>3. e # x
    BY <1>8, <2>2
  <2>4. ASSUME e.id = i
        PROVE  FALSE
    <3>1. names[i] # NoName /\ HashOf[names[i]] = e.hash
      BY <1>10, <2>1, <2>4 DEF Sound, Truthful
    <3>2. e.hash = HashOf[old]
      BY <3>1
    <3>3. e = [hash |-> e.hash, id |-> e.id]
      BY <2>1 DEF Entry
    <3> QED BY <2>3, <2>4, <3>2, <3>3 DEF x
  <2> QED BY <2>3, <2>4
<1>11. BagToSet(f) \subseteq Entry
  BY <1>5, <1>7, <1>8, <1>9
<1>12. Truthful(to, f)
  <2> SUFFICES ASSUME NEW e \in BagToSet(f), e.hash # EmptyHash
               PROVE  to[e.id] # NoName /\ HashOf[to[e.id]] = e.hash
    BY DEF Truthful
  <2>1. CASE e = y
    BY <1>4, <1>6, <2>1 DEF EmptyHash
  <2>2. CASE e # y
    <3>1. e \in BagToSet(d) /\ e \in BagToSet(c) /\ e.id # i /\ e.id \in Inode
      BY <1>7, <1>8, <1>9, <1>10, <2>2 DEF Entry
    <3> QED BY <1>6, <3>1 DEF Sound, Truthful
  <2> QED BY <2>1, <2>2
<1>13. Single(f)
  <2> SUFFICES ASSUME NEW e \in BagToSet(f), e.hash # EmptyHash
               PROVE  f[e] = 1
    BY DEF Single
  <2>1. CASE e = y
    BY <1>4, <1>9, <1>10, <2>1
  <2>2. CASE e # y
    <3>1. e \in BagToSet(d) /\ e \in BagToSet(c) /\ e # x
      BY <1>8, <1>9, <1>10, <2>2
    <3> QED BY <1>8, <1>9, <2>2, <3>1 DEF Sound, Single
  <2> QED BY <2>1, <2>2
<1> QED BY <1>3, <1>9, <1>11, <1>12, <1>13 DEF Sound, to

\* An inode no entry tells the name of may get any name.
LEMMA UncachedSound ==
    ASSUME NEW names \in [Inode -> Stored], NEW c, Sound(names, c), NEW i \in Inode, NEW new,
           names[i] = NoName \/ \A e \in BagToSet(c) : e.hash # HashOf[names[i]]
    PROVE  Sound([names EXCEPT ![i] = new], c)
<1> DEFINE to == [names EXCEPT ![i] = new]
<1>1. \A j \in Inode \ {i} : to[j] = names[j]
  OBVIOUS
<1> HIDE DEF to
<1>2. ASSUME NEW e \in BagToSet(c), e.hash # EmptyHash
      PROVE  to[e.id] # NoName /\ HashOf[to[e.id]] = e.hash
  <2>1. names[e.id] # NoName /\ HashOf[names[e.id]] = e.hash /\ e.id \in Inode
    BY <1>2 DEF Sound, Truthful, Entry
  <2>2. e.id # i
    BY <2>1
  <2> QED BY <1>1, <2>1, <2>2
<1> QED BY <1>2 DEF Sound, Truthful, to

\* What naming an inode returns: the names and the cache are left sound.
NamedSoundly(names, i, n, set) ==
    /\ set.ok \in BOOLEAN
    /\ set.name = (IF set.ok THEN n ELSE names[i]) /\ set.name \in Stored
    /\ Sound([names EXCEPT ![i] = set.name], set.cache)
    /\ OffEmpty(caching, set.cache)

LEMMA NameSetSound ==
    ASSUME caching \in BOOLEAN, NEW names \in [Inode -> Stored], NEW c, NEW i \in Inode,
           NEW n \in Name \cup {NoName}, NEW tie \in Tie, Sound(names, c), OffEmpty(caching, c)
    PROVE  NamedSoundly(names, i, n, NameSet(names, c, i, n, tie))
<1>0. PICK set : set = NameSet(names, c, i, n, tie)
  OBVIOUS
<1> SUFFICES /\ set.ok \in BOOLEAN
             /\ set.name = (IF set.ok THEN n ELSE names[i]) /\ set.name \in Stored
             /\ Sound([names EXCEPT ![i] = set.name], set.cache)
             /\ OffEmpty(caching, set.cache)
  BY <1>0 DEF NamedSoundly
<1>1. PICK read : read = CacheName(caching, names, c, i)
  OBVIOUS
<1>2. PICK checked : checked = IF names[i] # NoName THEN names[i] ELSE n
  OBVIOUS
<1>3. PICK hit : hit = IF caching THEN IndexOf(read, HashOf[checked], tie) ELSE 0
  OBVIOUS
<1>4. PICK same \in BOOLEAN : same = (names[i] # NoName /\ names[i] = n)
  OBVIOUS
<1>5. PICK stored \in BOOLEAN : stored = (hit \in {0, i} /\ n \notin TooLong)
  OBVIOUS
<1>6. /\ set.ok = (same \/ stored)
      /\ set.name = (IF stored THEN n ELSE names[i])
      /\ set.cache = (IF ~ same /\ stored /\ hit = i THEN Rehash(read, i, checked, n) ELSE read)
  BY <1>0, <1>1, <1>2, <1>3, <1>4, <1>5 DEF NameSet
<1>7. Sound(names, read) /\ OffEmpty(caching, read)
  BY <1>1, CacheNamesSound DEF CacheName, SoundRead
<1>8. names[i] \in Stored /\ checked \in Name \cup {NoName} /\ NoName \notin TooLong
  BY <1>2, NamesAssumption DEF Stored
<1>9. Hit(read, HashOf[checked], hit)
  <2>1. CASE caching
    BY <1>3, <1>7, <2>1, IndexHits DEF Sound
  <2>2. CASE ~ caching
    BY <1>3, <1>7, <2>2 DEF Hit, OffEmpty
  <2> QED BY <2>1, <2>2
<1>10. i # 0 /\ (stored => n \in Stored)
  <2>1. i # 0
    BY DEF Inode
  <2> QED BY <1>5, <2>1 DEF Stored
<1>11. set.name = (IF set.ok THEN n ELSE names[i]) /\ set.name \in Stored
  BY <1>4, <1>6, <1>8, <1>10
<1>12. CASE same \/ ~ stored
  <2>1. set.name = names[i] /\ set.cache = read
    BY <1>4, <1>6, <1>12
  <2>2. [names EXCEPT ![i] = set.name] = names
    BY <2>1
  <2> QED BY <1>6, <1>7, <1>11, <2>1, <2>2
<1>13. CASE ~ same /\ stored /\ hit = i
  <2>1. [hash |-> HashOf[checked], id |-> i] \in BagToSet(read)
    BY <1>9, <1>10, <1>13 DEF Hit
  <2>2. set.name = n /\ set.cache = Rehash(read, i, checked, n) /\ n \in Stored
    BY <1>6, <1>10, <1>13
  <2>3. Sound([names EXCEPT ![i] = n], Rehash(read, i, checked, n))
    BY <1>2, <1>7, <1>8, <2>1, <2>2, RehashSound
  <2>4. caching
    BY <1>7, <2>1 DEF OffEmpty
  <2> QED BY <1>6, <1>11, <2>2, <2>3, <2>4 DEF OffEmpty
<1>14. CASE ~ same /\ stored /\ hit # i
  <2>1. hit = 0 /\ set.cache = read
    BY <1>5, <1>6, <1>14
  <2>2. names[i] = NoName \/ \A e \in BagToSet(read) : e.hash # HashOf[names[i]]
    BY <1>2, <1>9, <2>1 DEF Hit
  <2>3. Sound([names EXCEPT ![i] = set.name], read)
    BY <1>7, <2>2, UncachedSound
  <2> QED BY <1>6, <1>7, <1>11, <2>1, <2>3
<1> QED BY <1>12, <1>13, <1>14

-----------------------------------------------------------------------------
(* Looking a name up *)

LEMMA InodeNumbers == InodeCount \in Nat /\ Inode = 2 .. InodeCount /\ InodeCount \in Inode /\ Inode \subseteq Nat
BY NamesAssumption DEF Inode

\* Entries of the hash of a name that no other name shares are of its file.
LEMMA HashTellsName ==
    ASSUME NamesOK, NEW c, Sound(name, c), NEW n \in Name, ~ Collides(n),
           NEW e \in BagToSet(c), e.hash = HashOf[n]
    PROVE  e.id \in Inode /\ name[e.id] = n
<1>1. e.hash # EmptyHash
  BY DEF Collides, EmptyHash
<1>2. e.id \in Inode
  BY DEF Sound, Entry
<1>3. name[e.id] # NoName /\ HashOf[name[e.id]] = HashOf[n]
  BY <1>1 DEF Sound, Truthful
<1> QED BY <1>2, <1>3 DEF Collides

\* The search of ByName: the entry found, where the walk begins and ends, and
\* what it finds.
Walk(n, tie, hit, start, stop, found) ==
    /\ hit = IndexOf(cache, HashOf[n], tie) /\ Hit(cache, HashOf[n], hit)
    /\ start = (IF hit = 0 THEN 2 ELSE hit) /\ start \in Inode /\ stop \in start .. InodeCount
    /\ found.id = (IF name[stop] = n THEN stop ELSE 0)
    /\ hit = 0 => IF \E i \in Inode : name[i] = n
                  THEN name[stop] = n /\ \A i \in 2 .. stop - 1 : name[i] # n
                  ELSE found.id = 0
    /\ hit # 0 /\ name[hit] # NoName => stop = hit
    /\ found.cache = CacheNames(caching, name, cache, start .. stop, "up")

LEMMA ByNameWalks ==
    ASSUME NamesOK, NEW n \in Name, n \notin TooLong, NEW tie \in Tie,
           NEW found, found = ByName(n, tie)
    PROVE  \E hit, start, stop : Walk(n, tie, hit, start, stop, found)
<1>1. PICK hit : hit = IndexOf(cache, HashOf[n], tie)
  OBVIOUS
<1>2. PICK start : start = IF hit = 0 THEN 2 ELSE hit
  OBVIOUS
<1>3. PICK stops : stops = {i \in start .. InodeCount : IF hit = 0 THEN name[i] = n ELSE name[i] # NoName}
  OBVIOUS
<1>4. PICK stop : stop = IF stops = {} THEN InodeCount ELSE First(stops, "low")
  OBVIOUS
<1>5. found = [id |-> IF stops # {} /\ name[stop] = n THEN stop ELSE 0,
               cache |-> CacheNames(caching, name, cache, start .. stop, "up")]
  BY <1>1, <1>2, <1>3, <1>4 DEF ByName
<1>6. Hit(cache, HashOf[n], hit)
  BY <1>1, IndexHits DEF NamesOK, Sound
<1>7. start \in Inode
  BY <1>2, <1>6, InodeNumbers DEF Hit
<1>8. stops \in SUBSET Nat /\ stops \subseteq start .. InodeCount
  BY <1>3, <1>7, InodeNumbers
<1>9. stops # {} => stop \in stops /\ \A i \in stops : stop <= i
  BY <1>4, <1>8, FirstLow
<1>10. stop \in start .. InodeCount
  BY <1>4, <1>7, <1>8, <1>9, InodeNumbers
<1>11. n # NoName
  BY NamesAssumption
<1>12. stops = {} => name[stop] # n
  BY <1>3, <1>10, <1>11
<1>13. found.id = (IF name[stop] = n THEN stop ELSE 0)
  BY <1>5, <1>12
<1>14. ASSUME hit = 0
       PROVE  IF \E i \in Inode : name[i] = n
              THEN name[stop] = n /\ \A i \in 2 .. stop - 1 : name[i] # n
              ELSE found.id = 0
  <2>1. stops = {i \in Inode : name[i] = n}
    BY <1>2, <1>3, <1>14, InodeNumbers
  <2>2. CASE \E i \in Inode : name[i] = n
    <3>1. stop \in stops /\ \A i \in stops : stop <= i
      BY <1>9, <2>1, <2>2
    <3>2. ASSUME NEW i \in 2 .. stop - 1, name[i] = n
          PROVE  FALSE
      <4>1. stop \in Inode
        BY <2>1, <3>1
      <4>2. i \in Inode /\ ~ (stop <= i)
        BY <4>1, InodeNumbers
      <4> QED BY <2>1, <3>1, <3>2, <4>2
    <3> QED BY <2>1, <2>2, <3>1, <3>2
  <2>3. CASE ~ \E i \in Inode : name[i] = n
    <3>1. stops = {}
      BY <2>1, <2>3
    <3> QED BY <1>5, <2>3, <3>1
  <2> QED BY <2>2, <2>3
<1>15. ASSUME hit # 0, name[hit] # NoName
       PROVE  stop = hit
  <2>1. hit \in Inode /\ start = hit
    BY <1>2, <1>6, <1>15 DEF Hit
  <2>2. hit \in stops
    BY <1>3, <1>15, <2>1, InodeNumbers
  <2>3. stop <= hit /\ stop \in hit .. InodeCount
    BY <1>9, <1>10, <2>1, <2>2
  <2> QED BY <2>1, <2>3, InodeNumbers
<1>16. found.cache = CacheNames(caching, name, cache, start .. stop, "up")
  BY <1>5
<1>17. Walk(n, tie, hit, start, stop, found)
  BY <1>1, <1>2, <1>6, <1>7, <1>10, <1>13, <1>14, <1>15, <1>16 DEF Walk
<1> QED BY <1>17

LEMMA ByNameSound ==
    ASSUME NamesOK, NEW n \in Name, NEW tie \in Tie, NEW found, found = ByName(n, tie)
    PROVE  /\ found.id \in {0} \cup Inode
           /\ found.id # 0 => name[found.id] = n /\ used[found.id] /\ n \notin TooLong
           /\ Sound(name, found.cache) /\ OffEmpty(caching, found.cache)
<1>1. CASE n \in TooLong
  <2>1. found = [id |-> 0, cache |-> cache]
    BY <1>1 DEF ByName
  <2> QED BY <2>1 DEF NamesOK
<1>2. CASE n \notin TooLong
  <2>1. PICK hit, start, stop : Walk(n, tie, hit, start, stop, found)
    BY <1>2, ByNameWalks
  <2>2. start \in Inode /\ stop \in Inode /\ start .. stop \in SUBSET Inode
    BY <2>1, InodeNumbers DEF Walk
  <2>3. PICK d : d = CacheNames(caching, name, cache, start .. stop, "up")
    OBVIOUS
  <2>4. Sound(name, d) /\ OffEmpty(caching, d)
    BY <2>2, <2>3, CacheNamesSound DEF NamesOK, SoundRead
  <2>5. found.cache = d /\ found.id = (IF name[stop] = n THEN stop ELSE 0)
    BY <2>1, <2>3 DEF Walk
  <2>6. n # NoName
    BY NamesAssumption
  <2>7. name[stop] = n => used[stop]
    BY <2>2, <2>6 DEF NamesOK
  <2> QED BY <1>2, <2>2, <2>4, <2>5, <2>7
<1> QED BY <1>1, <1>2

\* A file is found by its name unless its hash is ambiguous.
LEMMA ByNameFinds ==
    ASSUME NamesOK, NEW n \in Name, NEW tie \in Tie, \E i \in Inode : name[i] = n, ~ Collides(n),
           NEW found, found = ByName(n, tie)
    PROVE  found.id # 0 /\ found.id \in Inode /\ name[found.id] = n /\ used[found.id]
<1>1. n \notin TooLong /\ n # NoName
  BY NamesAssumption DEF NamesOK, Stored
<1>2. PICK hit, start, stop : Walk(n, tie, hit, start, stop, found)
  BY <1>1, ByNameWalks
<1>3. stop \in Inode /\ stop # 0
  BY <1>2, InodeNumbers DEF Walk
<1>4. CASE hit = 0
  BY <1>2, <1>3, <1>4, ByNameSound DEF Walk
<1>5. CASE hit # 0
  <2>1. hit \in Inode /\ [hash |-> HashOf[n], id |-> hit] \in BagToSet(cache)
    BY <1>2, <1>5 DEF Walk, Hit
  <2>2. PICK e \in BagToSet(cache) : e = [hash |-> HashOf[n], id |-> hit]
    BY <2>1
  <2>3. e.hash = HashOf[n] /\ e.id = hit
    BY <2>2
  <2>4. name[hit] = n
    BY <2>3, HashTellsName DEF NamesOK
  <2>5. stop = hit
    BY <1>1, <1>2, <1>5, <2>4 DEF Walk
  <2>6. found.id = stop
    BY <1>2, <2>4, <2>5 DEF Walk
  <2> QED BY <1>3, <2>6, ByNameSound
<1> QED BY <1>4, <1>5

\* What finding or creating a file leaves.
Got(got) ==
    /\ got.id \in {0} \cup Inode /\ got.new \in {0} \cup Unused
    /\ got.id # 0 => used[got.id] \/ got.id = got.new
    /\ got.name \in [Inode -> Stored]
    /\ \A j \in Inode : j # got.new => got.name[j] = name[j]
    /\ Sound(got.name, got.cache) /\ OffEmpty(caching, got.cache)

LEMMA UnusedFacts ==
    ASSUME NamesOK, Unused # {}
    PROVE  First(Unused, "low") \in Unused /\ Unused \subseteq Inode
<1>1. Unused \in SUBSET Nat /\ Unused \subseteq Inode
  BY InodeNumbers DEF Unused
<1> QED BY <1>1, FirstLow

LEMMA FindOrCreateSound ==
    ASSUME NamesOK, NEW n \in Name, NEW tie \in Tie, NEW got, got = FindOrCreate(n, tie)
    PROVE  Got(got)
<1>1. PICK found : found = ByName(n, tie)
  OBVIOUS
<1>2. /\ found.id \in {0} \cup Inode /\ (found.id # 0 => used[found.id])
      /\ Sound(name, found.cache) /\ OffEmpty(caching, found.cache)
  BY <1>1, ByNameSound
<1>3. CASE found.id # 0 \/ Unused = {}
  <2>1. got = [id |-> found.id, new |-> 0, name |-> name, cache |-> found.cache]
    BY <1>1, <1>3 DEF FindOrCreate
  <2>2. got.id = found.id /\ got.new = 0 /\ got.name = name /\ got.cache = found.cache
    BY <2>1
  <2> QED BY <1>2, <2>2 DEF Got, NamesOK
<1>4. CASE found.id = 0 /\ Unused # {}
  <2>1. PICK i : i = First(Unused, "low")
    OBVIOUS
  <2>2. PICK set : set = NameSet(name, found.cache, i, n, tie)
    OBVIOUS
  <2>3. got = [id |-> IF set.ok THEN i ELSE 0, new |-> i, name |-> [name EXCEPT ![i] = set.name],
               cache |-> set.cache]
    BY <1>1, <1>4, <2>1, <2>2 DEF FindOrCreate
  <2>4. /\ got.id = (IF set.ok THEN i ELSE 0) /\ got.new = i
        /\ got.name = [name EXCEPT ![i] = set.name] /\ got.cache = set.cache
    BY <2>3
  <2>5. i \in Unused /\ i \in Inode
    BY <1>4, <2>1, UnusedFacts
  <2>6. /\ set.ok \in BOOLEAN /\ set.name \in Stored
        /\ Sound([name EXCEPT ![i] = set.name], set.cache)
        /\ OffEmpty(caching, set.cache)
    <3>1. name \in [Inode -> Stored] /\ caching \in BOOLEAN /\ n \in Name \cup {NoName}
      BY DEF NamesOK
    <3> QED BY <1>2, <2>2, <2>5, <3>1, NameSetSound DEF NamedSoundly
  <2>7. name \in [Inode -> Stored]
    BY DEF NamesOK
  <2>8. got.name \in [Inode -> Stored] /\ \A j \in Inode : j # i => got.name[j] = name[j]
    BY <2>4, <2>6, <2>7
  <2> QED BY <2>4, <2>5, <2>6, <2>8 DEF Got
<1> QED BY <1>2, <1>3, <1>4

LEMMA FindOrCreateGives ==
    ASSUME NamesOK, NEW n \in Name \ TooLong, NEW tie \in Tie, Unused # {}, ~ Collides(n)
    PROVE  FindOrCreate(n, tie).id # 0
<1>1. PICK found : found = ByName(n, tie)
  OBVIOUS
<1>2. Sound(name, found.cache) /\ OffEmpty(caching, found.cache)
  BY <1>1, ByNameSound
<1>3. CASE found.id # 0
  BY <1>1, <1>3 DEF FindOrCreate
<1>4. CASE found.id = 0
  <2>1. PICK i : i = First(Unused, "low")
    OBVIOUS
  <2>2. PICK set : set = NameSet(name, found.cache, i, n, tie)
    OBVIOUS
  <2>3. FindOrCreate(n, tie).id = IF set.ok THEN i ELSE 0
    BY <1>1, <1>4, <2>1, <2>2 DEF FindOrCreate
  <2>4. i \in Inode /\ ~ used[i] /\ i # 0
    BY <2>1, UnusedFacts, InodeNumbers DEF Unused
  <2>5. name[i] = NoName
    BY <2>4 DEF NamesOK
  <2>6. PICK read : read = CacheName(caching, name, found.cache, i)
    OBVIOUS
  <2>7. Sound(name, read) /\ OffEmpty(caching, read)
    BY <1>2, <2>4, <2>6, CacheNamesSound DEF CacheName, NamesOK, SoundRead
  <2>8. ASSUME caching
        PROVE  IndexOf(read, HashOf[n], tie) = 0
    <3>1. Hit(read, HashOf[n], IndexOf(read, HashOf[n], tie))
      BY <2>7, IndexHits DEF Sound
    <3>2. ASSUME NEW e \in BagToSet(read), e.hash = HashOf[n]
          PROVE  FALSE
      <4>1. e.id \in Inode /\ name[e.id] = n
        BY <2>7, <3>2, HashTellsName
      <4> QED BY <1>1, <1>4, <4>1, ByNameFinds
    <3>3. \A j : [hash |-> HashOf[n], id |-> j] \notin BagToSet(read)
      BY <3>2
    <3> QED BY <3>1, <3>3 DEF Hit
  <2>9. set.ok
    BY <2>2, <2>5, <2>6, <2>8 DEF NameSet
  <2> QED BY <2>3, <2>4, <2>9
<1> QED BY <1>3, <1>4

\* Taking the name of a file away that was just found by it fails only when the
\* hash of its name is another's.
LEMMA NameTakenAway ==
    ASSUME NamesOK, NEW n \in Name, NEW tie \in Tie, NEW i \in Inode, ~ Collides(n),
           NEW found, found = ByName(n, tie), found.id = i
    PROVE  NameSet(name, found.cache, i, NoName, tie).ok
<1>1. n \notin TooLong /\ name[i] = n /\ n # NoName /\ NoName \notin TooLong
  <2>1. i # 0
    BY InodeNumbers
  <2> QED BY <2>1, ByNameSound, NamesAssumption
<1>2. PICK hit, start, stop : Walk(n, tie, hit, start, stop, found)
  BY <1>1, ByNameWalks
<1>3. stop = i /\ start \in Inode /\ stop \in Inode /\ start .. stop \in SUBSET Inode /\ i # 0
  BY <1>2, InodeNumbers DEF Walk
<1>4. PICK c : c = CacheNames(caching, name, cache, start .. stop, "up")
  OBVIOUS
<1>5. found.cache = c
  BY <1>2, <1>4 DEF Walk
<1> name \in [Inode -> Stored] /\ caching \in BOOLEAN /\ Sound(name, cache) /\ OffEmpty(caching, cache)
  BY DEF NamesOK
<1>6. /\ Sound(name, c) /\ OffEmpty(caching, c)
      /\ BagToSet(cache) \subseteq BagToSet(c)
      /\ BagToSet(c) \subseteq BagToSet(cache) \cup Added(name, cache, start .. stop)
  BY <1>3, <1>4, CacheNamesSound DEF SoundRead
<1>7. PICK read : read = CacheNames(caching, name, c, {i}, "up")
  OBVIOUS
<1>8. /\ Sound(name, read) /\ OffEmpty(caching, read)
      /\ BagToSet(c) \subseteq BagToSet(read)
      /\ BagToSet(read) \subseteq BagToSet(c) \cup Added(name, c, {i})
  <2>1. {i} \in SUBSET Inode
    OBVIOUS
  <2>2. SoundRead(caching, name, c, read, {i})
    BY <1>6, <1>7, <2>1, CacheNamesSound
  <2> QED BY <2>2 DEF SoundRead
<1>9. IndexOf(read, HashOf[n], tie) \in {0, i}
  <2>1. CASE hit = 0
    <3>1. \A e \in BagToSet(cache) : e.hash # HashOf[n]
      BY <1>2, <2>1 DEF Walk, Hit
    <3>2. ASSUME NEW e \in BagToSet(read), e.hash = HashOf[n]
          PROVE  e.id = i
      <4>1. e.id \in Inode /\ name[e.id] = n
        BY <1>8, <3>2, HashTellsName
      <4>2. CASE e \in Added(name, c, {i})
        BY <4>2 DEF Added
      <4>3. CASE e \in Added(name, cache, start .. stop)
        <5>1. e.id \in start .. stop /\ start = 2
          BY <1>2, <2>1, <4>3 DEF Added, Walk
        <5>2. \A j \in 2 .. stop - 1 : name[j] # n
          BY <1>2, <2>1, <4>1 DEF Walk
        <5>3. e.id \notin 2 .. stop - 1
          BY <4>1, <5>2
        <5> QED BY <1>3, <5>1, <5>3, InodeNumbers
      <4> QED BY <1>6, <1>8, <3>1, <3>2, <4>2, <4>3
    <3>3. Hit(read, HashOf[n], IndexOf(read, HashOf[n], tie))
      BY <1>8, IndexHits DEF Sound
    <3>4. \A j : [hash |-> HashOf[n], id |-> j] \in BagToSet(read) => j = i
      BY <3>2
    <3> QED BY <3>3, <3>4 DEF Hit
  <2>2. CASE hit # 0
    <3>1. hit \in Inode /\ [hash |-> HashOf[n], id |-> hit] \in BagToSet(cache)
      BY <1>2, <2>2 DEF Walk, Hit
    <3>2. PICK e \in BagToSet(cache) : e = [hash |-> HashOf[n], id |-> hit]
      BY <3>1
    <3>3. e.hash = HashOf[n] /\ e.id = hit
      BY <3>2
    <3>4. name[hit] = n
      BY <3>3, HashTellsName DEF NamesOK
    <3>5. hit = i
      BY <1>1, <1>2, <1>3, <2>2, <3>4 DEF Walk
    <3>6. HashOf[n] \in Hashes(cache) /\ HashOf[n] \in Hashes(c)
      BY <1>6, <3>3 DEF Hashes
    <3>7. \A f \in BagToSet(read) : f.hash = HashOf[n] => f \in BagToSet(cache)
      BY <1>6, <1>8, <3>6 DEF Added
    <3>8. {f \in BagToSet(read) : f.hash = HashOf[n]} = {f \in BagToSet(cache) : f.hash = HashOf[n]}
      BY <1>6, <1>8, <3>7
    <3>9. IndexOf(read, HashOf[n], tie) = IndexOf(cache, HashOf[n], tie)
      BY <3>8 DEF IndexOf
    <3> QED BY <1>2, <3>5, <3>9 DEF Walk
  <2> QED BY <2>1, <2>2
<1> QED BY <1>1, <1>5, <1>7, <1>9 DEF NameSet, CacheName

-----------------------------------------------------------------------------
(* The steps *)

LEMMA EmptySound ==
    ASSUME NEW names
    PROVE  Sound(names, EmptyBag) /\ BagToSet(EmptyBag) = {}
<1>1. DOMAIN EmptyBag = {} /\ EmptyBag = [e \in {} |-> 1]
  BY DEF EmptyBag, SetToBag
<1>2. EmptyBag \in [{} -> {n \in Nat : n > 0}]
  BY <1>1
<1> QED BY <1>1, <1>2 DEF Sound, IsABag, BagToSet, Truthful, Single

LEMMA InitNames == Init => NamesInv
<1> SUFFICES ASSUME Init PROVE NamesInv
  OBVIOUS
<1>1. Sound(name, cache) /\ OffEmpty(caching, cache)
  BY EmptySound DEF Init, OffEmpty
<1> QED BY <1>1 DEF Init, NamesInv, NamesOK, Stored

\* A step that changes the cache alone.
LEMMA CacheStep ==
    ASSUME NamesInv, Sound(name, cache'), OffEmpty(caching', cache'), caching' \in BOOLEAN,
           UNCHANGED <<used, name, data>>, handles' \subseteq handles
    PROVE  NamesInv'
<1>1. NamesOK'
  BY DEF NamesInv, NamesOK
<1> QED BY <1>1 DEF NamesInv

LEMMA OpenToReadNames ==
    ASSUME NamesInv, NEW n \in Name, NEW tie \in Tie, OpenToRead(n, tie)
    PROVE  NamesInv'
<1>1. PICK found : found = ByName(n, tie)
  OBVIOUS
<1>2. /\ found.id \in {0} \cup Inode /\ (found.id # 0 => used[found.id])
      /\ Sound(name, found.cache) /\ OffEmpty(caching, found.cache)
  BY <1>1, ByNameSound DEF NamesInv
<1>3. /\ cache' = found.cache
      /\ handles' = handles \cup {[id |-> i, rw |-> FALSE] : i \in {found.id} \ {0}}
      /\ UNCHANGED <<used, name, data, caching>>
  BY <1>1 DEF OpenToRead
<1>4. NamesOK'
  BY <1>2, <1>3 DEF NamesInv, NamesOK
<1>5. handles' \subseteq [id: Inode, rw: BOOLEAN] /\ \A h \in handles' : used[h.id]
  <2> SUFFICES ASSUME NEW h \in handles'
               PROVE  h \in [id: Inode, rw: BOOLEAN] /\ used[h.id]
    OBVIOUS
  <2>1. CASE h \in handles
    BY <2>1 DEF NamesInv
  <2>2. CASE h \notin handles
    <3>1. found.id # 0 /\ h = [id |-> found.id, rw |-> FALSE]
      BY <1>3, <2>2
    <3>2. h.id = found.id /\ h \in [id: Inode, rw: BOOLEAN]
      BY <1>2, <3>1
    <3> QED BY <1>2, <3>1, <3>2
  <2> QED BY <2>1, <2>2
<1> QED BY <1>3, <1>4, <1>5 DEF NamesInv

LEMMA GotKept ==
    ASSUME NamesInv, NEW got, Got(got), used' = [i \in Inode |-> used[i] \/ i = got.new],
           name' = got.name, cache' = got.cache, caching' = caching
    PROVE  /\ NamesOK'
           /\ \A j \in Inode : used[j] => used'[j]
           /\ got.id # 0 => got.id \in Inode /\ used'[got.id]
<1>1. used' \in [Inode -> BOOLEAN] /\ \A j \in Inode : used'[j] = (used[j] \/ j = got.new)
  BY DEF NamesInv, NamesOK
<1>2. got.id # 0 => got.id \in Inode /\ used'[got.id]
  BY <1>1 DEF Got
<1>3. \A i \in Inode : name'[i] # NoName => used'[i]
  BY <1>1 DEF NamesInv, NamesOK, Got
<1>4. name' \in [Inode -> Stored] /\ Sound(name', cache') /\ OffEmpty(caching', cache') /\ caching' \in BOOLEAN
  BY DEF NamesInv, NamesOK, Got
<1>5. NamesOK'
  BY <1>1, <1>3, <1>4 DEF NamesOK
<1> QED BY <1>1, <1>2, <1>5

LEMMA OpenToWriteNames ==
    ASSUME NamesInv, NEW n \in Name, NEW tie \in Tie, OpenToWrite(n, tie)
    PROVE  NamesInv'
<1>1. PICK got : got = FindOrCreate(n, tie)
  OBVIOUS
<1>2. Got(got)
  BY <1>1, FindOrCreateSound DEF NamesInv
<1>3. /\ used' = [i \in Inode |-> used[i] \/ i = got.new]
      /\ name' = got.name /\ cache' = got.cache
      /\ handles' = handles \cup {[id |-> i, rw |-> TRUE] : i \in {got.id} \ {0}}
      /\ UNCHANGED <<data, caching>>
  BY <1>1 DEF OpenToWrite
<1>4. /\ NamesOK'
      /\ \A j \in Inode : used[j] => used'[j]
      /\ got.id # 0 => got.id \in Inode /\ used'[got.id]
  BY <1>2, <1>3, GotKept
<1>5. handles' \subseteq [id: Inode, rw: BOOLEAN] /\ \A h \in handles' : used'[h.id]
  <2> SUFFICES ASSUME NEW h \in handles'
               PROVE  h \in [id: Inode, rw: BOOLEAN] /\ used'[h.id]
    OBVIOUS
  <2>1. CASE h \in handles
    BY <1>4, <2>1 DEF NamesInv
  <2>2. CASE h \notin handles
    <3>1. got.id # 0 /\ h = [id |-> got.id, rw |-> TRUE]
      BY <1>3, <2>2
    <3>2. h.id = got.id /\ h \in [id: Inode, rw: BOOLEAN]
      BY <1>4, <3>1
    <3> QED BY <1>4, <3>1, <3>2
  <2> QED BY <2>1, <2>2
<1> QED BY <1>3, <1>4, <1>5 DEF NamesInv

LEMMA RenameNames ==
    ASSUME NamesInv, NEW h \in handles, NEW n \in Name, NEW tie \in Tie, Rename(h, n, tie)
    PROVE  NamesInv'
<1>1. PICK i : i = h.id
  OBVIOUS
<1>2. PICK set : set = NameSet(name, cache, i, n, tie)
  OBVIOUS
<1>3. i \in Inode /\ used[i]
  BY <1>1 DEF NamesInv
<1>4. /\ name' = [name EXCEPT ![i] = set.name] /\ cache' = set.cache
      /\ UNCHANGED <<used, data, caching, handles>>
  BY <1>1, <1>2 DEF Rename
<1>5. NamedSoundly(name, i, n, set)
  <2>1. n \in Name \cup {NoName}
    OBVIOUS
  <2> QED BY <1>2, <1>3, <2>1, NameSetSound DEF NamesInv, NamesOK
<1>6. name' \in [Inode -> Stored] /\ Sound(name', cache') /\ OffEmpty(caching', cache')
  BY <1>3, <1>4, <1>5 DEF NamesInv, NamesOK, NamedSoundly
<1>7. \A j \in Inode : name'[j] # NoName => used'[j]
  BY <1>3, <1>4 DEF NamesInv, NamesOK
<1>8. NamesOK'
  BY <1>4, <1>6, <1>7 DEF NamesInv, NamesOK
<1> QED BY <1>4, <1>8 DEF NamesInv

\* A name is taken from an inode no device is opened on: the inode is free again
\* if that succeeds and stays used if it does not.
LEMMA NameGone ==
    ASSUME NamesInv, NEW names \in [Inode -> Stored], NEW c, NEW i \in Inode, NEW tie \in Tie,
           Sound(names, c), OffEmpty(caching, c), \A h \in handles : h.id # i,
           \A j \in Inode : j # i => names[j] = name[j],
           NEW set, set = NameSet(names, c, i, NoName, tie),
           cache' = set.cache, name' = [names EXCEPT ![i] = set.name],
           used' = [used EXCEPT ![i] = ~ set.ok], UNCHANGED <<caching, handles>>
    PROVE  NamesOK' /\ \A h \in handles' : used'[h.id]
<1>1. NamedSoundly(names, i, NoName, set)
  <2>1. NoName \in Name \cup {NoName}
    OBVIOUS
  <2> QED BY <2>1, NameSetSound DEF NamesInv, NamesOK
<1>2. name' \in [Inode -> Stored] /\ Sound(name', cache') /\ OffEmpty(caching', cache')
  BY <1>1 DEF NamedSoundly
<1>3. used' \in [Inode -> BOOLEAN] /\ used'[i] = ~ set.ok /\ \A j \in Inode : j # i => used'[j] = used[j]
  BY <1>1 DEF NamesInv, NamesOK, NamedSoundly
<1>4. name'[i] = set.name /\ \A j \in Inode : j # i => name'[j] = name[j]
  OBVIOUS
<1>5. ASSUME NEW j \in Inode, name'[j] # NoName
      PROVE  used'[j]
  <2>1. CASE j = i
    BY <1>1, <1>3, <1>4, <1>5, <2>1 DEF NamedSoundly
  <2>2. CASE j # i
    BY <1>3, <1>4, <1>5, <2>2 DEF NamesInv, NamesOK
  <2> QED BY <2>1, <2>2
<1>6. NamesOK'
  BY <1>2, <1>3, <1>5 DEF NamesInv, NamesOK
<1>7. \A h \in handles' : used'[h.id]
  BY <1>3 DEF NamesInv
<1> QED BY <1>6, <1>7

LEMMA UnlinkNames ==
    ASSUME NamesInv, NEW n \in Name, NEW tie \in Tie, UnlinkFilename(n, tie)
    PROVE  NamesInv'
<1>1. PICK found : found = ByName(n, tie)
  OBVIOUS
<1>2. PICK i : i = found.id
  OBVIOUS
<1>3. PICK set : set = NameSet(name, found.cache, i, NoName, tie)
  OBVIOUS
<1>4. /\ UNCHANGED <<caching, handles>>
      /\ IF i = 0 \/ Opened(i)
         THEN cache' = found.cache /\ UNCHANGED <<used, name, data>>
         ELSE /\ cache' = set.cache
              /\ name' = [name EXCEPT ![i] = set.name]
              /\ used' = [used EXCEPT ![i] = ~ set.ok]
              /\ data' = [data EXCEPT ![i] = IF set.ok \/ @ = "none" THEN "none" ELSE "wiped"]
  BY <1>1, <1>2, <1>3 DEF UnlinkFilename
<1>5. i \in {0} \cup Inode /\ Sound(name, found.cache) /\ OffEmpty(caching, found.cache)
  BY <1>1, <1>2, ByNameSound DEF NamesInv
<1>6. CASE i = 0 \/ Opened(i)
  BY <1>4, <1>5, <1>6, CacheStep DEF NamesInv, NamesOK
<1>7. CASE ~ (i = 0 \/ Opened(i))
  <2>1. name \in [Inode -> Stored] /\ i \in Inode /\ \A h \in handles : h.id # i
    BY <1>5, <1>7 DEF NamesInv, NamesOK, Opened
  <2>2. NamesOK' /\ \A h \in handles' : used'[h.id]
    BY <1>3, <1>4, <1>5, <1>7, <2>1, NameGone
  <2>3. data' \in [Inode -> {"none", "live", "wiped"}]
    BY <1>4, <1>7, <2>1 DEF NamesInv
  <2> QED BY <1>4, <2>2, <2>3 DEF NamesInv
<1> QED BY <1>6, <1>7

LEMMA ImportNames ==
    ASSUME NamesInv, NEW n \in Name, NEW overwrite \in BOOLEAN, NEW outcome, NEW tie \in Tie,
           ImportDev(n, overwrite, outcome, tie)
    PROVE  NamesInv'
<1>1. PICK found : found = ByName(n, tie)
  OBVIOUS
<1>2. PICK got : got = FindOrCreate(n, tie)
  OBVIOUS
<1>3. PICK i : i = got.id
  OBVIOUS
<1>4. PICK undo : undo = NameSet(got.name, got.cache, i, NoName, tie)
  OBVIOUS
<1>5. /\ UNCHANGED <<caching, handles>>
      /\ IF found.id # 0 /\ ~ overwrite
         THEN cache' = found.cache /\ UNCHANGED <<used, name, data>>
         ELSE IF outcome = "fails" /\ i # 0 /\ got.new = i
         THEN /\ cache' = undo.cache
              /\ name' = [got.name EXCEPT ![i] = undo.name]
              /\ used' = [used EXCEPT ![i] = ~ undo.ok]
              /\ data' = [data EXCEPT ![i] = "none"]
         ELSE /\ cache' = got.cache
              /\ name' = got.name
              /\ used' = [j \in Inode |-> used[j] \/ j = got.new]
              /\ \E d \in {"none", "live"} :
                    data' = IF i = 0 \/ [id |-> i, rw |-> TRUE] \in handles
                            THEN data ELSE [data EXCEPT ![i] = d]
  BY <1>1, <1>2, <1>3, <1>4 DEF ImportDev
<1>6. Got(got)
  BY <1>2, FindOrCreateSound DEF NamesInv
<1>7. CASE found.id # 0 /\ ~ overwrite
  <2>1. Sound(name, found.cache) /\ OffEmpty(caching, found.cache)
    BY <1>1, ByNameSound DEF NamesInv
  <2> QED BY <1>5, <1>7, <2>1, CacheStep DEF NamesInv, NamesOK
<1>8. CASE ~ (found.id # 0 /\ ~ overwrite) /\ outcome = "fails" /\ i # 0 /\ got.new = i
  <2>1. i \in Inode /\ ~ used[i]
    BY <1>3, <1>6, <1>8 DEF Got, Unused
  <2>2. /\ got.name \in [Inode -> Stored] /\ Sound(got.name, got.cache) /\ OffEmpty(caching, got.cache)
        /\ \A j \in Inode : j # i => got.name[j] = name[j]
    BY <1>6, <1>8 DEF Got
  <2>3. \A h \in handles : h.id # i
    BY <2>1 DEF NamesInv
  <2>4. NamesOK' /\ \A h \in handles' : used'[h.id]
    BY <1>4, <1>5, <1>8, <2>1, <2>2, <2>3, NameGone
  <2>5. data' \in [Inode -> {"none", "live", "wiped"}]
    BY <1>5, <1>8, <2>1 DEF NamesInv
  <2> QED BY <1>5, <2>4, <2>5 DEF NamesInv
<1>9. CASE ~ (found.id # 0 /\ ~ overwrite) /\ ~ (outcome = "fails" /\ i # 0 /\ got.new = i)
  <2>1. /\ cache' = got.cache /\ name' = got.name
        /\ used' = [j \in Inode |-> used[j] \/ j = got.new]
        /\ \E d \in {"none", "live"} :
              data' = IF i = 0 \/ [id |-> i, rw |-> TRUE] \in handles
                      THEN data ELSE [data EXCEPT ![i] = d]
    BY <1>5, <1>9
  <2>2. NamesOK' /\ \A j \in Inode : used[j] => used'[j]
    BY <1>5, <1>6, <2>1, GotKept
  <2>3. data' \in [Inode -> {"none", "live", "wiped"}]
    BY <2>1 DEF NamesInv
  <2>4. \A h \in handles' : used'[h.id]
    BY <1>5, <2>2 DEF NamesInv
  <2> QED BY <1>5, <2>2, <2>3, <2>4 DEF NamesInv
<1> QED BY <1>7, <1>8, <1>9

LEMMA ReadNamesNames ==
    ASSUME NamesInv, NEW ids \in SUBSET Inode, ReadNames(ids)
    PROVE  NamesInv'
<1>1. PICK d : d = CacheNames(caching, name, cache, ids, "up")
  OBVIOUS
<1>2. cache' = d /\ UNCHANGED <<used, name, data, caching, handles>>
  BY <1>1 DEF ReadNames
<1>3. Sound(name, d) /\ OffEmpty(caching, d)
  BY <1>1, CacheNamesSound DEF NamesInv, NamesOK, SoundRead
<1> QED BY <1>2, <1>3, CacheStep DEF NamesInv, NamesOK

LEMMA PartSound ==
    ASSUME NEW names, NEW c, Sound(names, c), NEW part \in Parts(c)
    PROVE  Sound(names, part) /\ BagToSet(part) \subseteq BagToSet(c)
<1>1. PICK S \in SUBSET BagToSet(c) : part \in [S -> 1 .. InodeCount]
  BY DEF Parts
<1>2. DOMAIN part = S /\ \A e \in S : part[e] \in 1 .. InodeCount
  BY <1>1
<1>3. \A e \in S : part[e] <= c[e]
  BY <1>2 DEF Parts, \sqsubseteq
<1>4. IsABag(part)
  <2>1. part = [e \in S |-> part[e]] /\ \A e \in S : part[e] \in {k \in Nat : k > 0}
    BY <1>1, <1>2, InodeNumbers
  <2> QED BY <1>2, <2>1 DEF IsABag
<1>5. BagToSet(part) = S
  BY <1>2 DEF BagToSet
<1>6. BagToSet(part) \subseteq Entry /\ Truthful(names, part)
  BY <1>1, <1>5 DEF Sound, Truthful
<1>7. Single(part)
  <2> SUFFICES ASSUME NEW e \in S, e.hash # EmptyHash PROVE part[e] = 1
    BY <1>5 DEF Single
  <2>1. c[e] = 1 /\ e \in BagToSet(c)
    BY <1>1 DEF Sound, Single
  <2>2. part[e] \in 1 .. InodeCount /\ part[e] <= 1
    BY <1>2, <1>3, <2>1
  <2> QED BY <2>2, InodeNumbers
<1> QED BY <1>4, <1>5, <1>6, <1>7 DEF Sound

LEMMA ChompNames ==
    ASSUME NamesInv, ChompCache
    PROVE  NamesInv'
<1>1. PICK part \in Parts(cache) : cache' = part
  BY DEF ChompCache
<1>2. Sound(name, cache') /\ OffEmpty(caching, cache')
  BY <1>1, PartSound DEF NamesInv, NamesOK, OffEmpty
<1>3. UNCHANGED <<used, name, data, caching, handles>>
  BY DEF ChompCache
<1> QED BY <1>2, <1>3, CacheStep DEF NamesInv, NamesOK

LEMMA SetoptNames ==
    ASSUME NamesInv, NEW on \in BOOLEAN, NEW loadNow \in BOOLEAN, SetoptHashCache(on, loadNow)
    PROVE  NamesInv'
<1>1. PICK d : d = CacheNames(TRUE, name, cache, Inode, "down")
  OBVIOUS
<1>2. /\ caching' = on /\ UNCHANGED <<used, name, data, handles>>
      /\ cache' = IF ~ on THEN EmptyBag ELSE IF loadNow THEN d ELSE cache
  BY <1>1 DEF SetoptHashCache
<1>3. OffEmpty(TRUE, cache) /\ Inode \in SUBSET Inode
  BY DEF OffEmpty
<1>4. Sound(name, d)
  BY <1>1, <1>3, CacheNamesSound DEF NamesInv, NamesOK, SoundRead
<1>5. Sound(name, cache') /\ OffEmpty(caching', cache')
  BY <1>2, <1>4, EmptySound DEF NamesInv, NamesOK, OffEmpty
<1> QED BY <1>2, <1>5, CacheStep

LEMMA ReopenNames ==
    ASSUME NamesInv, Reopen
    PROVE  NamesInv'
<1>1. Sound(name, cache') /\ OffEmpty(caching', cache')
  BY EmptySound DEF Reopen, OffEmpty
<1> QED BY <1>1, CacheStep DEF Reopen

LEMMA HandleNames ==
    ASSUME NamesInv, NEW h \in handles, Close(h) \/ Write(h)
    PROVE  NamesInv'
<1>1. CASE Close(h)
  <2>1. UNCHANGED <<used, name, data, cache, caching>> /\ handles' \subseteq handles
    BY <1>1 DEF Close
  <2> QED BY <2>1, CacheStep DEF NamesInv, NamesOK
<1>2. CASE Write(h)
  <2>1. /\ UNCHANGED <<used, name, cache, caching, handles>>
        /\ data' = [data EXCEPT ![h.id] = "live"]
    BY <1>2 DEF Write
  <2>2. NamesOK'
    BY <2>1 DEF NamesInv, NamesOK
  <2>3. data' \in [Inode -> {"none", "live", "wiped"}]
    BY <2>1 DEF NamesInv
  <2> QED BY <2>1, <2>2, <2>3 DEF NamesInv
<1> QED BY <1>1, <1>2

-----------------------------------------------------------------------------
(* The theorems *)

LEMMA NextNames == NamesInv /\ [Next]_vars => NamesInv'
<1> SUFFICES ASSUME NamesInv, [Next]_vars
             PROVE  NamesInv'
  OBVIOUS
<1>1. ASSUME NEW n \in Name, NEW tie \in Tie,
             \/ OpenToRead(n, tie)
             \/ OpenToWrite(n, tie)
             \/ UnlinkFilename(n, tie)
             \/ \E overwrite \in BOOLEAN, outcome \in {"fails", "done"} : ImportDev(n, overwrite, outcome, tie)
             \/ \E h \in handles : Rename(h, n, tie)
      PROVE  NamesInv'
  BY <1>1, OpenToReadNames, OpenToWriteNames, UnlinkNames, ImportNames, RenameNames
<1>2. ASSUME NEW h \in handles, Close(h) \/ Write(h)
      PROVE  NamesInv'
  BY <1>2, HandleNames
<1>3. ASSUME NEW ids \in SUBSET Inode, ReadNames(ids)
      PROVE  NamesInv'
  BY <1>3, ReadNamesNames
<1>4. CASE ChompCache
  BY <1>4, ChompNames
<1>5. ASSUME NEW on \in BOOLEAN, NEW loadNow \in BOOLEAN, SetoptHashCache(on, loadNow)
      PROVE  NamesInv'
  BY <1>5, SetoptNames
<1>6. CASE Reopen
  BY <1>6, ReopenNames
<1>7. CASE UNCHANGED vars
  BY <1>7 DEF vars, NamesInv, NamesOK
<1>8. (\E i \in Inode : ReadNames({i})) \/ ReadNames(Inode) \/ ReadNames({i \in Inode : used[i]})
      => \E ids \in SUBSET Inode : ReadNames(ids)
  <2>1. ASSUME NEW i \in Inode, ReadNames({i})
        PROVE  \E ids \in SUBSET Inode : ReadNames(ids)
    <3>1. {i} \in SUBSET Inode
      OBVIOUS
    <3> QED BY <2>1, <3>1
  <2>2. Inode \in SUBSET Inode /\ {i \in Inode : used[i]} \in SUBSET Inode
    OBVIOUS
  <2> QED BY <2>1, <2>2
<1> QED BY <1>1, <1>2, <1>3, <1>4, <1>5, <1>6, <1>7, <1>8 DEF Next

\* The names and the cache stay sound whatever files are opened, created, renamed,
\* unlinked and imported, names read, and the cache halved, dropped and loaded.
THEOREM NamesInvariant == Spec => []NamesInv
<1>1. Init => NamesInv
  BY InitNames
<1>2. NamesInv /\ [Next]_vars => NamesInv'
  BY NextNames
<1> QED BY <1>1, <1>2, PTL DEF Spec

\* A cached hash is that of the name its inode has now (whefs_cache.c), for every
\* hash function and number of inodes.
THEOREM CacheTellsTruthAlways == Spec => []CacheTellsTruth
<1>1. NamesInv => CacheTellsTruth
  BY DEF NamesInv, NamesOK, Sound, Truthful, Entry, EmptyHash, CacheTellsTruth
<1> QED BY <1>1, NamesInvariant, PTL

\* whefs_inode_by_name() finds a file by the name it has, cached or not.
THEOREM NamesFoundAlways == Spec => []NamesFound
<1>1. NamesInv => NamesFound
  <2> SUFFICES ASSUME NamesInv, NEW n \in Name, NEW tie \in Tie, \E i \in Inode : name[i] = n, ~ Collides(n)
               PROVE  LET i == ByName(n, tie).id IN i # 0 /\ used[i] /\ name[i] = n
    BY DEF NamesFound
  <2> QED BY ByNameFinds DEF NamesInv
<1> QED BY <1>1, NamesInvariant, PTL

\* Opening for writing, while an inode is free, creates what it does not find.
THEOREM NameGivenAlways == Spec => []NameGiven
<1>1. NamesInv => NameGiven
  BY FindOrCreateGives DEF NamesInv, NameGiven
<1> QED BY <1>1, NamesInvariant, PTL

LEMMA WipedStep ==
    ASSUME NamesInv, NEW i \in Inode, data[i] # "wiped", data'[i] = "wiped", [Next]_vars
    PROVE  Collides(name[i])
<1> data \in [Inode -> {"none", "live", "wiped"}]
  BY DEF NamesInv
<1>1. ASSUME NEW n \in Name, NEW tie \in Tie, UnlinkFilename(n, tie)
      PROVE  Collides(name[i])
  <2>1. PICK found : found = ByName(n, tie)
    OBVIOUS
  <2>2. PICK set : set = NameSet(name, found.cache, found.id, NoName, tie)
    OBVIOUS
  <2>3. /\ ~ (found.id = 0 \/ Opened(found.id))
        /\ data' = [data EXCEPT ![found.id] = IF set.ok \/ @ = "none" THEN "none" ELSE "wiped"]
    BY <1>1, <2>1, <2>2 DEF UnlinkFilename
  <2>4. found.id = i /\ ~ set.ok
    BY <2>3
  <2>5. name[i] = n
    BY <2>1, <2>3, <2>4, ByNameSound DEF NamesInv
  <2> QED BY <2>1, <2>2, <2>4, <2>5, NameTakenAway DEF NamesInv
<1>2. ASSUME NEW n \in Name, NEW tie \in Tie, NEW overwrite \in BOOLEAN, NEW outcome,
             ImportDev(n, overwrite, outcome, tie)
      PROVE  FALSE
  <2>1. \/ data' = data
        \/ \E k, d : d \in {"none", "live"} /\ data' = [data EXCEPT ![k] = d]
    BY <1>2 DEF ImportDev
  <2> QED BY <2>1
<1>3. CASE \E n \in Name, tie \in Tie : OpenToRead(n, tie) \/ OpenToWrite(n, tie) \/ \E h \in handles : Rename(h, n, tie)
  BY <1>3 DEF OpenToRead, OpenToWrite, Rename
<1>4. CASE \E h \in handles : Close(h) \/ Write(h)
  BY <1>4 DEF Close, Write
<1>5. CASE \E ids : ReadNames(ids)
  BY <1>5 DEF ReadNames
<1>6. CASE ChompCache \/ Reopen \/ (\E on, loadNow : SetoptHashCache(on, loadNow)) \/ UNCHANGED vars
  BY <1>6 DEF ChompCache, Reopen, SetoptHashCache, vars
<1> QED BY <1>1, <1>2, <1>3, <1>4, <1>5, <1>6 DEF Next

\* whefs_inode_unlink() leaves an inode whose blocks are wiped only when its name
\* has the hash of another file's or of the empty name.
THEOREM WipedOnlyOnCollisionAlways == Spec => WipedOnlyOnCollision
<1>1. NamesInv /\ [Next]_vars
      => [\A i \in Inode : data[i] # "wiped" /\ data'[i] = "wiped" => Collides(name[i])]_vars
  BY WipedStep
<1> QED BY <1>1, NamesInvariant, PTL DEF Spec, WipedOnlyOnCollision
=============================================================================
