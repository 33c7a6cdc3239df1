----------------------------- MODULE BlockStore -----------------------------
(***************************************************************************)
(* The block table of a whefs container: what whefs_block.c keeps on disk   *)
(* for every data block (its Used flag and the id of the next block of its  *)
(* chain), and the in-memory hint whefs_block_next_free() starts from.      *)
(*                                                                          *)
(* The module declares the state and the steps its users compose; NodeDev   *)
(* extends it with the inodes and the i/o devices that own the chains.      *)
(* The block bitset cache is not consulted here: the build leaves           *)
(* fs->bits.b_loaded false (WHEFS_LOAD_CACHES_ON_OPEN is 0).                *)
(***************************************************************************)
EXTENDS Integers, Sequences, FiniteSets

CONSTANT BlockCount                     \* whefs_fs_options.block_count

ASSUME BlockCountAssumption == BlockCount \in Nat \ {0}

VARIABLES
    used,       \* the blocks whose on-disk flags hold WHEFS_FLAG_Used
    next,       \* block |-> on-disk next_block, NoBlock at a chain's end
    blockHint   \* fs->hints.unused_block_start

blockVars == <<used, next, blockHint>>

Block == 1 .. BlockCount
NoBlock == 0

BlockTypeOK ==
    /\ used \subseteq Block
    /\ next \in [Block -> Block \cup {NoBlock}]
    /\ blockHint \in 1 .. BlockCount + 1

\* whefs_mkfs() wipes every block of the new container.
BlockInit ==
    /\ used = {}
    /\ next = [b \in Block |-> NoBlock]
    /\ blockHint = 1

-----------------------------------------------------------------------------
(* Chains.  Reach(nx, b) is the set of blocks met by following nx from b:   *)
(* the least set that holds b and is closed under nx.                       *)

Closed(nx, S) == \A b \in S : nx[b] # NoBlock => nx[b] \in S

Reach(nx, b) ==
    {c \in Block : \A S \in SUBSET Block :
        (b # NoBlock => b \in S) /\ Closed(nx, S) => c \in S}

\* The block list whefs_inode_block_list_load() builds from first block b:
\* the chain in order, ended by the block whose next_block is 0.
ChainLists(b) ==
    {l \in [1 .. Cardinality(Reach(next, b)) -> Reach(next, b)] :
        /\ l # <<>> => l[1] = b
        /\ \A k \in DOMAIN l : next[l[k]] = IF k = Len(l) THEN NoBlock ELSE l[k+1]}

-----------------------------------------------------------------------------
(* whefs_block_next_free(fs, &bl, true), called in a row: each call takes   *)
(* the lowest free block at or above the hint and moves the hint past it.   *)

\* Mutated forms of Available: the Used flag is not looked at; the search
\* starts one block too late.
AvailableIgnoringFlags == {b \in Block : b >= blockHint}
AvailableAfterHint == {b \in Block : b > blockHint /\ b \notin used}

Available == {b \in Block : b >= blockHint /\ b \notin used}

Least(a, b) == IF a <= b THEN a ELSE b

\* What n calls hand out, in order; fewer than n when the last ones return FSFull.
Taken(n) ==
    {s \in [1 .. Least(n, Cardinality(Available)) -> Available] :
        /\ \A j, k \in DOMAIN s : j < k => s[j] < s[k]
        /\ \A b \in Available :
             b \in {s[k] : k \in DOMAIN s} \/ \A k \in DOMAIN s : s[k] < b}

\* Mutated form of MarkUsed: the hint is moved one block too far.
MarkUsedHintTooFar(s) ==
    /\ used' = used \cup {s[k] : k \in DOMAIN s}
    /\ blockHint' = IF s = <<>> THEN blockHint ELSE s[Len(s)] + 2

MarkUsed(s) ==
    /\ used' = used \cup {s[k] : k \in DOMAIN s}
    /\ blockHint' = IF s = <<>> THEN blockHint ELSE s[Len(s)] + 1

\* Mutated form of Wipe: the hint is left alone.
WipeKeepingHint(W) ==
    /\ used' = used \ W
    /\ UNCHANGED blockHint

\* whefs_block_wipe(fs, bl, true, true, deep) on the blocks W: flags and
\* next_block are reset and the hint drops to the lowest of them.
Wipe(W) ==
    /\ used' = used \ W
    /\ \E b \in W \cup {blockHint} :
         /\ \A c \in W \cup {blockHint} : b <= c
         /\ blockHint' = b
=============================================================================
