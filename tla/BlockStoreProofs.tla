--------------------------- MODULE BlockStoreProofs ---------------------------
(***************************************************************************)
(* Facts about the operators of BlockStore: chains, what the allocator      *)
(* hands out, and the hint.                                                 *)
(***************************************************************************)
EXTENDS BlockStore, FiniteSetTheorems, WellFoundedInduction, TLAPS

\* There are finitely many blocks.
LEMMA BlockFinite == /\ IsFiniteSet(Block)
                     /\ \A S \in SUBSET Block : IsFiniteSet(S) /\ Cardinality(S) \in Nat
<1>1. IsFiniteSet(Block)
  BY BlockCountAssumption, FS_Interval DEF Block
<1>2. ASSUME NEW S \in SUBSET Block PROVE IsFiniteSet(S) /\ Cardinality(S) \in Nat
  BY <1>1, FS_Subset, FS_CardinalityType
<1> QED BY <1>1, <1>2

\* What n calls of the allocator hand out is a sequence of free blocks, in
\* ascending order, that leaves no free block behind it.
LEMMA TakenProperties ==
  ASSUME BlockTypeOK, NEW n \in Nat, NEW s \in Taken(n)
  PROVE  /\ s \in Seq(Available) /\ s \in Seq(Block)
         /\ Len(s) \in 0 .. n
         /\ DOMAIN s = 1 .. Len(s)
         /\ \A k \in 1 .. Len(s) : s[k] \in Available
         /\ \A j, k \in 1 .. Len(s) : j < k => s[j] < s[k]
         /\ \A b \in Available :
              (\E k \in 1 .. Len(s) : b = s[k]) \/ \A k \in 1 .. Len(s) : s[k] < b
<1> DEFINE m == Least(n, Cardinality(Available))
<1>1. Available \in SUBSET Block
  BY DEF Available
<1>2. m \in 0 .. n
  BY <1>1, BlockFinite DEF Least
<1>3. s \in [1 .. m -> Available]
  BY DEF Taken
<1>4. s \in Seq(Available) /\ Len(s) = m /\ DOMAIN s = 1 .. m
  BY <1>2, <1>3
<1>5. s \in Seq(Block)
  BY <1>1, <1>2, <1>3
<1>6. /\ \A j, k \in DOMAIN s : j < k => s[j] < s[k]
      /\ \A b \in Available :
           b \in {s[k] : k \in DOMAIN s} \/ \A k \in DOMAIN s : s[k] < b
  BY DEF Taken
<1> HIDE DEF m
<1> QED BY <1>2, <1>3, <1>4, <1>5, <1>6

\* Marking what the allocator handed out keeps the types, and keeps every
\* block below the hint used.
LEMMA MarkUsedKeepsHint ==
  ASSUME BlockTypeOK, NEW n \in Nat, NEW s \in Taken(n), MarkUsed(s)
  PROVE  /\ used' \subseteq Block
         /\ blockHint' \in 1 .. BlockCount + 1
         /\ used \subseteq used'
         /\ (\A b \in Block : b < blockHint => b \in used)
              => \A b \in Block : b < blockHint' => b \in used'
<1>1. /\ s \in Seq(Block)
      /\ Len(s) \in Nat
      /\ DOMAIN s = 1 .. Len(s)
      /\ \A k \in 1 .. Len(s) : s[k] \in Available
      /\ \A b \in Available :
           (\E k \in 1 .. Len(s) : b = s[k]) \/ \A k \in 1 .. Len(s) : s[k] < b
  BY TakenProperties
<1>2. used' = used \cup {s[k] : k \in 1 .. Len(s)}
  BY <1>1 DEF MarkUsed
<1>3. blockHint' = IF Len(s) = 0 THEN blockHint ELSE s[Len(s)] + 1
  BY <1>1 DEF MarkUsed
<1>4. Available \subseteq Block /\ \A b \in Available : b >= blockHint /\ b \notin used
  BY DEF Available
<1>5. used' \subseteq Block /\ used \subseteq used'
  BY <1>1, <1>2, <1>4 DEF BlockTypeOK
<1>6. blockHint' \in 1 .. BlockCount + 1
  BY <1>1, <1>3, <1>4, BlockCountAssumption DEF BlockTypeOK, Block
<1>7. ASSUME \A b \in Block : b < blockHint => b \in used,
             NEW b \in Block, b < blockHint', b \notin used
      PROVE  b \in used'
  <2>1. b \in Available
    BY <1>7 DEF Available, Block, BlockTypeOK
  <2>2. Len(s) # 0 /\ b < s[Len(s)] + 1
    BY <1>3, <1>7
  <2>3. Len(s) \in 1 .. Len(s)
    BY <1>1, <2>2
  <2>. DEFINE t == s[Len(s)]
  <2>4. t \in Block /\ b < t + 1
    BY <1>1, <1>4, <2>2, <2>3
  <2>5. ~(t < b)
    BY <2>4 DEF Block
  <2>6. \E k \in 1 .. Len(s) : b = s[k]
    BY <1>1, <2>1, <2>3, <2>5
  <2> QED BY <1>2, <2>6
<1> QED BY <1>5, <1>6, <1>7

\* Wiping a set of blocks keeps the types, and keeps every block below the
\* hint used: the hint drops to the lowest block wiped.
LEMMA WipeKeepsHint ==
  ASSUME BlockTypeOK, NEW W \in SUBSET Block, Wipe(W)
  PROVE  /\ used' \subseteq Block
         /\ used' = used \ W
         /\ blockHint' \in 1 .. BlockCount + 1
         /\ (\A b \in Block : b < blockHint => b \in used)
              => \A b \in Block : b < blockHint' => b \in used'
<1>1. used' = used \ W
  BY DEF Wipe
<1>2. PICK b \in W \cup {blockHint} :
        /\ \A c \in W \cup {blockHint} : b <= c
        /\ blockHint' = b
  BY DEF Wipe
<1>3. blockHint' \in 1 .. BlockCount + 1
  BY <1>2, BlockCountAssumption DEF BlockTypeOK, Block
<1>4. ASSUME \A c \in Block : c < blockHint => c \in used, NEW c \in Block, c < blockHint'
      PROVE  c \in used'
  <2>1. c \notin W
    BY <1>2, <1>4, BlockCountAssumption DEF Block, BlockTypeOK
  <2>2. c < blockHint
    BY <1>2, <1>4, BlockCountAssumption DEF Block, BlockTypeOK
  <2> QED BY <1>1, <1>4, <2>1, <2>2
<1> QED BY <1>1, <1>3, <1>4 DEF BlockTypeOK

\* The blocks of a chain are blocks; a chain from nowhere is empty.
LEMMA ReachType ==
  ASSUME NEW nx \in [Block -> Block \cup {NoBlock}], NEW b \in Block \cup {NoBlock}
  PROVE  /\ Reach(nx, b) \in SUBSET Block
         /\ b # NoBlock => b \in Reach(nx, b)
         /\ Closed(nx, Reach(nx, b))
         /\ b = NoBlock => Reach(nx, b) = {}
<1>1. Reach(nx, b) \in SUBSET Block
  BY DEF Reach
<1>2. b # NoBlock => b \in Reach(nx, b)
  BY DEF Reach
<1>3. ASSUME NEW c \in Reach(nx, b), nx[c] # NoBlock
      PROVE  nx[c] \in Reach(nx, b)
  <2>1. nx[c] \in Block
    BY <1>1, <1>3
  <2>2. ASSUME NEW S \in SUBSET Block, b # NoBlock => b \in S, Closed(nx, S)
        PROVE  nx[c] \in S
    <3>1. c \in S
      BY <2>2 DEF Reach
    <3> QED BY <1>3, <2>2, <3>1 DEF Closed
  <2> QED BY <2>1, <2>2 DEF Reach
<1>4. ASSUME b = NoBlock PROVE Reach(nx, b) = {}
  <2>1. Closed(nx, {})
    BY DEF Closed
  <2> QED BY <1>4, <2>1 DEF Reach
<1> QED BY <1>1, <1>2, <1>3, <1>4 DEF Closed

\* Reach is the least closed set that holds its first block.
LEMMA ReachLeast ==
  ASSUME NEW nx, NEW b, NEW S \in SUBSET Block, b # NoBlock => b \in S, Closed(nx, S)
  PROVE  Reach(nx, b) \subseteq S
BY DEF Reach

\* A block list built from a chain is a sequence of its blocks, linked in order.
LEMMA ChainListsType ==
  ASSUME BlockTypeOK, NEW b \in Block \cup {NoBlock}, NEW l \in ChainLists(b)
  PROVE  /\ l \in Seq(Block)
         /\ Len(l) = Cardinality(Reach(next, b))
         /\ l \in [1 .. Len(l) -> Reach(next, b)]
         /\ l # <<>> => l[1] = b
         /\ \A k \in 1 .. Len(l) : next[l[k]] = IF k = Len(l) THEN NoBlock ELSE l[k+1]
<1>1. Reach(next, b) \in SUBSET Block
  BY ReachType DEF BlockTypeOK
<1>2. Cardinality(Reach(next, b)) \in Nat
  BY <1>1, BlockFinite
<1>3. l \in [1 .. Cardinality(Reach(next, b)) -> Reach(next, b)]
  BY DEF ChainLists
<1>4. /\ l \in Seq(Block)
      /\ Len(l) = Cardinality(Reach(next, b))
      /\ DOMAIN l = 1 .. Len(l)
  BY <1>1, <1>2, <1>3
<1>5. /\ l # <<>> => l[1] = b
      /\ \A k \in DOMAIN l : next[l[k]] = IF k = Len(l) THEN NoBlock ELSE l[k+1]
  BY DEF ChainLists
<1> QED BY <1>3, <1>4, <1>5

\* A chain depends on the links of its own blocks only.
LEMMA SameReach ==
  ASSUME NEW nx \in [Block -> Block \cup {NoBlock}], NEW ny \in [Block -> Block \cup {NoBlock}],
         NEW b \in Block \cup {NoBlock}, \A c \in Reach(nx, b) : ny[c] = nx[c]
  PROVE  Reach(ny, b) = Reach(nx, b)
<1>1. /\ Reach(nx, b) \in SUBSET Block /\ (b # NoBlock => b \in Reach(nx, b))
      /\ Closed(nx, Reach(nx, b))
  BY ReachType
<1>2. /\ Reach(ny, b) \in SUBSET Block /\ (b # NoBlock => b \in Reach(ny, b))
      /\ Closed(ny, Reach(ny, b))
  BY ReachType
<1>3. Closed(ny, Reach(nx, b))
  BY <1>1 DEF Closed
<1>4. Reach(ny, b) \subseteq Reach(nx, b)
  BY <1>1, <1>3, ReachLeast
<1>5. Closed(nx, Reach(ny, b))
  BY <1>2, <1>4 DEF Closed
<1>6. Reach(nx, b) \subseteq Reach(ny, b)
  BY <1>2, <1>5, ReachLeast
<1> QED BY <1>4, <1>6

\* A set of natural numbers that is not empty has a least one.
LEMMA LeastNatural ==
  ASSUME NEW T \in SUBSET Nat, T # {}
  PROVE  \E n \in T : \A m \in T : n <= m
<1>1. PICK n \in T : \A m \in T : ~ (<<m, n>> \in OpToRel(<, Nat))
  BY NatLessThanWellFounded, WFMin
<1>2. \A m \in T : ~(m < n)
  BY <1>1 DEF OpToRel
<1> QED BY <1>2

Elements(l) == {l[k] : k \in 1 .. Len(l)}

LEMMA ConcatElements ==
  ASSUME NEW l \in Seq(Block), NEW s \in Seq(Block)
  PROVE  Elements(l \o s) = Elements(l) \cup Elements(s)
<1> DEFINE e == l \o s
<1>1. /\ Len(l) \in Nat /\ Len(s) \in Nat /\ Len(e) = Len(l) + Len(s)
      /\ \A k \in 1 .. Len(l) : e[k] = l[k]
      /\ \A k \in 1 .. Len(s) : e[Len(l) + k] = s[k]
  OBVIOUS
<1> HIDE DEF e
<1>2. ASSUME NEW b \in Elements(s) PROVE b \in Elements(e)
  <2>1. PICK k \in 1 .. Len(s) : b = s[k]
    BY DEF Elements
  <2>2. Len(l) + k \in 1 .. Len(e) /\ e[Len(l) + k] = b
    BY <1>1, <2>1
  <2> QED BY <2>2 DEF Elements
<1>3. ASSUME NEW b \in Elements(l) PROVE b \in Elements(e)
  <2>1. PICK k \in 1 .. Len(l) : b = l[k]
    BY DEF Elements
  <2>2. k \in 1 .. Len(e) /\ e[k] = b
    BY <1>1, <2>1
  <2> QED BY <2>2 DEF Elements
<1>4. ASSUME NEW b \in Elements(e) PROVE b \in Elements(l) \/ b \in Elements(s)
  <2>1. PICK k \in 1 .. Len(e) : b = e[k]
    BY DEF Elements
  <2>2. CASE k \in 1 .. Len(l)
    <3>1. b = l[k]
      BY <1>1, <2>1, <2>2
    <3> QED BY <2>2, <3>1 DEF Elements
  <2>3. CASE k \notin 1 .. Len(l)
    <3>1. k - Len(l) \in 1 .. Len(s) /\ Len(l) + (k - Len(l)) = k
      BY <1>1, <2>3
    <3>2. b = s[k - Len(l)]
      BY <1>1, <2>1, <3>1
    <3> QED BY <3>1, <3>2 DEF Elements
  <2> QED BY <2>2, <2>3
<1>5. Elements(e) = Elements(l) \cup Elements(s)
  BY <1>2, <1>3, <1>4
<1> QED BY <1>5 DEF e

\* What is linked behind a block is a part of its chain.
LEMMA LinkedReach ==
  ASSUME NEW nx \in [Block -> Block \cup {NoBlock}], NEW b \in Block \cup {NoBlock},
         NEW l \in Seq(Block), l # <<>> => l[1] = b,
         \A k \in 1 .. Len(l) - 1 : nx[l[k]] = l[k+1]
  PROVE  Elements(l) \subseteq Reach(nx, b)
<1> DEFINE R == Reach(nx, b)
           D == 1 .. Len(l)
<1>1. \A k \in D : l[k] \in Block /\ l[k] # NoBlock
  <2>1. \A k \in D : l[k] \in Block
    OBVIOUS
  <2> QED BY <2>1 DEF Block, NoBlock
<1>2. R \in SUBSET Block /\ Closed(nx, R) /\ (b # NoBlock => b \in R)
  BY ReachType
<1>3. \A k \in D : l[k] \in R
  <2> DEFINE T == {k \in D : l[k] \notin R}
  <2> SUFFICES ASSUME T # {} PROVE FALSE
    OBVIOUS
  <2>1. PICK n \in T : \A m \in T : n <= m
    <3>1. T \in SUBSET Nat
      OBVIOUS
    <3> HIDE DEF T
    <3> QED BY <3>1, LeastNatural
  <2>2. n \in D /\ l[n] \notin R /\ l # <<>>
    BY <2>1
  <2>3. n # 1
    BY <1>1, <1>2, <2>2
  <2>4. n - 1 \in 1 .. Len(l) - 1 /\ n - 1 \in D /\ (n - 1) + 1 = n
    BY <2>2, <2>3
  <2>5. n - 1 \notin T
    BY <2>1, <2>4
  <2>6. l[n-1] \in R /\ nx[l[n-1]] = l[n] /\ l[n] # NoBlock
    BY <1>1, <2>2, <2>4, <2>5
  <2> QED BY <1>2, <2>2, <2>6 DEF Closed
<1> QED BY <1>3 DEF Elements

\* l follows the links nx from b to their end, without repetition.
Follows(nx, b, l) ==
    /\ IF l = <<>> THEN b = NoBlock ELSE l[1] = b /\ nx[l[Len(l)]] = NoBlock
    /\ \A k \in 1 .. Len(l) - 1 : nx[l[k]] = l[k+1]
    /\ \A j, k \in 1 .. Len(l) : l[j] = l[k] => j = k

\* A list that follows a chain to its end is the whole chain.
LEMMA WholeChain ==
  ASSUME NEW nx \in [Block -> Block \cup {NoBlock}], NEW b \in Block \cup {NoBlock},
         NEW l \in Seq(Block), Follows(nx, b, l)
  PROVE  Reach(nx, b) = Elements(l) /\ Cardinality(Reach(nx, b)) = Len(l)
<1> DEFINE R == Reach(nx, b)
           D == 1 .. Len(l)
<1>1. /\ \A k \in D : l[k] \in Block
      /\ l # <<>> => l[1] = b /\ b # NoBlock /\ 1 \in D
      /\ l = <<>> => b = NoBlock
      /\ \A k \in 1 .. Len(l) - 1 : nx[l[k]] = l[k+1]
      /\ \A j, k \in D : l[j] = l[k] => j = k
  <2>1. l # <<>> => 1 \in D
    OBVIOUS
  <2>2. \A k \in D : l[k] \in Block
    OBVIOUS
  <2> QED BY <2>1, <2>2 DEF Follows, Block, NoBlock
<1>2. /\ R \in SUBSET Block /\ Closed(nx, R)
      /\ b # NoBlock => b \in R
      /\ b = NoBlock => R = {}
  BY ReachType
<1>3. R \subseteq Elements(l)
  <2>1. CASE l = <<>>
    BY <1>1, <1>2, <2>1
  <2>2. CASE l # <<>>
    <3>1. Elements(l) \in SUBSET Block /\ b \in Elements(l)
      BY <1>1, <2>2 DEF Elements
    <3>2. ASSUME NEW k \in D, nx[l[k]] # NoBlock PROVE nx[l[k]] \in Elements(l)
      <4>1. k # Len(l)
        BY <2>2, <3>2 DEF Follows
      <4>2. k \in 1 .. Len(l) - 1 /\ k + 1 \in D
        BY <4>1
      <4> QED BY <1>1, <4>2 DEF Elements
    <3>3. Closed(nx, Elements(l))
      BY <3>2 DEF Closed, Elements
    <3> QED BY <3>1, <3>3, ReachLeast
  <2> QED BY <2>1, <2>2
<1>4. \A k \in D : l[k] \in R
  <2>1. Elements(l) \subseteq R
    BY <1>1, LinkedReach
  <2> QED BY <2>1 DEF Elements
<1>5. R = Elements(l)
  BY <1>3, <1>4 DEF Elements
<1>6. l \in [D -> R]
  BY <1>4
<1>7. l \in Surjection(D, R)
  BY <1>5, <1>6 DEF Surjection, Elements
<1>8. l \in Injection(D, R)
  BY <1>1, <1>6 DEF Injection, IsInjective
<1>9. IsFiniteSet(D) /\ Cardinality(D) = Len(l)
  <2>1. PICK n \in Nat : n = Len(l)
    OBVIOUS
  <2>2. IsFiniteSet(1 .. n) /\ Cardinality(1 .. n) = n
    BY FS_Interval
  <2> QED BY <2>1, <2>2
<1>10. Cardinality(R) = Len(l)
  <2> HIDE DEF R, D
  <2> QED BY <1>7, <1>8, <1>9, FS_Surjection
<1> QED BY <1>5, <1>10

\* A loaded block list follows the chain it was built from.
LEMMA LoadedFollows ==
  ASSUME BlockTypeOK, NEW b \in Block \cup {NoBlock}, NEW l \in ChainLists(b)
  PROVE  l \in Seq(Block) /\ Follows(next, b, l)
<1> DEFINE R == Reach(next, b)
           D == 1 .. Len(l)
<1>1. /\ l \in Seq(Block) /\ Len(l) = Cardinality(R) /\ l \in [D -> R]
      /\ l # <<>> => l[1] = b
      /\ \A k \in D : next[l[k]] = IF k = Len(l) THEN NoBlock ELSE l[k+1]
  BY ChainListsType
<1>2. /\ R \in SUBSET Block /\ (b # NoBlock => b \in R) /\ IsFiniteSet(R)
      /\ b = NoBlock => R = {}
  BY ReachType, BlockFinite DEF BlockTypeOK
<1>3. l = <<>> <=> b = NoBlock
  <2>1. l = <<>> <=> Cardinality(R) = 0
    BY <1>1
  <2> QED BY <1>2, <2>1, FS_EmptySet
<1> DEFINE S == {l[k] : k \in D}
<1>4. ASSUME l # <<>> PROVE \A j, k \in D : l[j] = l[k] => j = k
  <2>1. S \in SUBSET Block /\ b \in S
    <3>1. 1 \in D
      BY <1>1, <1>4
    <3> QED BY <1>1, <1>2, <1>4, <3>1
  <2>2. Closed(next, S)
    <3>1. ASSUME NEW k \in D, next[l[k]] # NoBlock PROVE next[l[k]] \in S
      <4>1. k # Len(l) /\ next[l[k]] = l[k+1] /\ k + 1 \in D
        BY <1>1, <3>1
      <4> QED BY <4>1
    <3> QED BY <3>1 DEF Closed
  <2>3. R \subseteq S
    BY <2>1, <2>2, ReachLeast
  <2>4. l \in Surjection(D, R)
    BY <1>1, <2>3 DEF Surjection
  <2>5. IsFiniteSet(D) /\ Cardinality(D) = Cardinality(R)
    BY <1>1, FS_Interval
  <2>6. l \in Injection(D, R)
    BY <1>2, <2>4, <2>5, FS_SurjSameCardinalityImpliesInj
  <2> QED BY <2>6 DEF Injection, IsInjective
<1>5. \A k \in 1 .. Len(l) - 1 : k \in D /\ k # Len(l)
  BY <1>1
<1>6. l # <<>> => Len(l) \in D
  BY <1>1
<1>7. l = <<>> => \A j, k \in D : l[j] = l[k] => j = k
  BY <1>1
<1> QED BY <1>1, <1>3, <1>4, <1>5, <1>6, <1>7 DEF Follows
=============================================================================
