----------------------------- MODULE HandlesProofs -----------------------------
(***************************************************************************)
(* Theorems about Handles: the static slots, the list of opened inodes and  *)
(* the closers list, whatever is opened and closed in whatever order.       *)
(*                                                                          *)
(* Both lists are instances of one idea: a set whose elements have ranks,   *)
(* linked in the order of the ranks.  An inode's rank is its id, an entry   *)
(* of the closers list is ranked by when it was added.                      *)
(***************************************************************************)
EXTENDS Handles, FiniteSetTheorems, WellFoundedInduction, TLAPS

-----------------------------------------------------------------------------
(* Sets of numbers *)

\* A set of natural numbers that is not empty has a least one.
LEMMA LeastNatural ==
  ASSUME NEW T \in SUBSET Nat, T # {}
  PROVE  \E n \in T : \A m \in T : n <= m
<1>1. PICK n \in T : \A m \in T : ~ (<<m, n>> \in OpToRel(<, Nat))
  BY NatLessThanWellFounded, WFMin
<1>2. \A m \in T : ~(m < n)
  BY <1>1 DEF OpToRel
<1> QED BY <1>2

LEMMA MinFacts ==
  ASSUME NEW T \in SUBSET Nat, T # {}
  PROVE  Min(T) \in T /\ \A m \in T : Min(T) <= m
BY LeastNatural DEF Min

LEMMA MinOfOne == ASSUME NEW x \in Nat PROVE Min({x}) = x
BY MinFacts

\* What satisfies a condition, if anything does, is least by its rank.
LEMMA LeastRank ==
  ASSUME NEW S, NEW r, \A x \in S : r[x] \in Nat, S # {}
  PROVE  \E x \in S : \A y \in S : r[x] <= r[y]
<1> DEFINE T == {r[x] : x \in S}
<1>1. T \in SUBSET Nat /\ T # {}
  OBVIOUS
<1>2. PICK n \in T : \A m \in T : n <= m
  BY <1>1, LeastNatural
<1> QED BY <1>2

LEMMA GreatestRank ==
  ASSUME NEW S, NEW r, NEW N \in Nat, \A x \in S : r[x] \in Nat /\ r[x] <= N, S # {}
  PROVE  \E x \in S : \A y \in S : r[y] <= r[x]
<1> DEFINE q == [x \in S |-> N - r[x]]
<1>1. \A x \in S : q[x] = N - r[x] /\ q[x] \in Nat
  OBVIOUS
<1> HIDE DEF q
<1>2. PICK x \in S : \A y \in S : q[x] <= q[y]
  BY <1>1, LeastRank
<1> QED BY <1>1, <1>2

-----------------------------------------------------------------------------
(* Linked sets: next and prev follow the ranks, from the head on. *)

Behind(E, r, a, x) ==
    /\ x = 0 => \A b \in E : r[b] <= r[a]
    /\ x # 0 => x \in E /\ r[a] < r[x] /\ \A b \in E : r[b] <= r[a] \/ r[x] <= r[b]

Before(E, r, a, x) ==
    /\ x = 0 => \A b \in E : r[a] <= r[b]
    /\ x # 0 => x \in E /\ r[x] < r[a] /\ \A b \in E : r[b] <= r[x] \/ r[a] <= r[b]

IsHead(E, r, h) ==
    /\ h = 0 => E = {}
    /\ h # 0 => h \in E /\ \A b \in E : r[h] <= r[b]

Ranked(E, r) == \A a \in E : r[a] \in Nat /\ \A b \in E : r[a] = r[b] => a = b

Chained(E, r, h, nx, pv) ==
    /\ 0 \notin E /\ Ranked(E, r) /\ IsHead(E, r, h)
    /\ \A a \in E : Behind(E, r, a, nx[a]) /\ Before(E, r, a, pv[a])

\* What next leads to leads back by prev, and the reverse.
LEMMA BothWays ==
  ASSUME NEW E, NEW r, NEW h, NEW nx, NEW pv, Chained(E, r, h, nx, pv), NEW a \in E
  PROVE  /\ nx[a] # 0 => nx[a] \in E /\ r[a] < r[nx[a]] /\ pv[nx[a]] = a
         /\ pv[a] # 0 => pv[a] \in E /\ r[pv[a]] < r[a] /\ nx[pv[a]] = a
         /\ pv[a] = 0 <=> a = h
         /\ nx[a] # a /\ pv[a] # a
<1>0. /\ Ranked(E, r) /\ IsHead(E, r, h) /\ 0 \notin E /\ r[a] \in Nat
      /\ \A b \in E : Behind(E, r, b, nx[b]) /\ Before(E, r, b, pv[b])
  BY DEF Chained, Ranked
<1>1. ASSUME nx[a] # 0 PROVE nx[a] \in E /\ r[a] < r[nx[a]] /\ pv[nx[a]] = a
  <2>1. PICK x : x = nx[a]
    OBVIOUS
  <2>2. x \in E /\ r[a] < r[x] /\ (\A b \in E : r[b] <= r[a] \/ r[x] <= r[b]) /\ r[x] \in Nat
    BY <1>0, <1>1, <2>1 DEF Behind, Ranked
  <2>3. PICK y : y = pv[x]
    OBVIOUS
  <2>4. Before(E, r, x, y)
    BY <1>0, <2>2, <2>3
  <2>5. y # 0
    BY <1>0, <2>2, <2>4 DEF Before
  <2>6. y \in E /\ r[y] < r[x] /\ (r[a] <= r[y] \/ r[x] <= r[a]) /\ r[y] \in Nat
    BY <1>0, <2>4, <2>5 DEF Before, Ranked
  <2>7. r[y] <= r[a] \/ r[x] <= r[y]
    BY <2>2, <2>6
  <2>8. r[y] = r[a]
    BY <1>0, <2>2, <2>6, <2>7
  <2>9. y = a
    BY <1>0, <2>6, <2>8 DEF Ranked
  <2> QED BY <2>1, <2>2, <2>3, <2>9
<1>2. ASSUME pv[a] # 0 PROVE pv[a] \in E /\ r[pv[a]] < r[a] /\ nx[pv[a]] = a
  <2>1. PICK x : x = pv[a]
    OBVIOUS
  <2>2. x \in E /\ r[x] < r[a] /\ (\A b \in E : r[b] <= r[x] \/ r[a] <= r[b]) /\ r[x] \in Nat
    BY <1>0, <1>2, <2>1 DEF Before, Ranked
  <2>3. PICK y : y = nx[x]
    OBVIOUS
  <2>4. Behind(E, r, x, y)
    BY <1>0, <2>2, <2>3
  <2>5. y # 0
    BY <1>0, <2>2, <2>4 DEF Behind
  <2>6. y \in E /\ r[x] < r[y] /\ (r[a] <= r[x] \/ r[y] <= r[a]) /\ r[y] \in Nat
    BY <1>0, <2>4, <2>5 DEF Behind, Ranked
  <2>7. r[y] <= r[x] \/ r[a] <= r[y]
    BY <2>2, <2>6
  <2>8. r[y] = r[a]
    BY <1>0, <2>2, <2>6, <2>7
  <2>9. y = a
    BY <1>0, <2>6, <2>8 DEF Ranked
  <2> QED BY <2>1, <2>2, <2>3, <2>9
<1>3. ASSUME pv[a] = 0 PROVE a = h
  <2>1. h # 0 /\ h \in E /\ r[h] <= r[a] /\ r[h] \in Nat
    BY <1>0 DEF IsHead, Ranked
  <2>2. r[a] <= r[h]
    BY <1>0, <1>3, <2>1 DEF Before
  <2>3. r[a] = r[h]
    BY <1>0, <2>1, <2>2
  <2> QED BY <1>0, <2>1, <2>3 DEF Ranked
<1>4. ASSUME a = h PROVE pv[a] = 0
  <2> SUFFICES ASSUME pv[a] # 0 PROVE FALSE
    OBVIOUS
  <2>1. pv[a] \in E /\ r[pv[a]] < r[a] /\ r[pv[a]] \in Nat
    BY <1>0, <1>2 DEF Ranked
  <2>2. r[a] <= r[pv[a]]
    BY <1>0, <1>4, <2>1 DEF IsHead
  <2> QED BY <1>0, <2>1, <2>2
<1>5. nx[a] # a /\ pv[a] # a
  BY <1>0, <1>1, <1>2
<1> QED BY <1>1, <1>2, <1>3, <1>4, <1>5

\* A closed set of which every element but the first is led to by one of lower
\* rank is what one reaches from the first.
LEMMA ReachRanked ==
  ASSUME NEW step, NEW p, NEW S \in SUBSET DOMAIN step, 0 \notin S, p # 0 => p \in S,
         ClosedUnder(step, S), NEW r, \A x \in S : r[x] \in Nat,
         \A x \in S : x = p \/ \E y \in S : r[y] < r[x] /\ step[y] = x
  PROVE  Reach(step, p) = S
<1>1. Reach(step, p) \subseteq S
  BY DEF Reach
<1>2. ASSUME NEW C \in SUBSET DOMAIN step, p # 0 => p \in C, ClosedUnder(step, C)
      PROVE  S \subseteq C
  <2> SUFFICES ASSUME S \ C # {} PROVE FALSE
    OBVIOUS
  <2>1. PICK x \in S \ C : \A y \in S \ C : r[x] <= r[y]
    <3>1. \A y \in S \ C : r[y] \in Nat
      OBVIOUS
    <3> QED BY <3>1, LeastRank
  <2>2. x # p
    BY <1>2, <2>1
  <2>3. PICK y \in S : r[y] < r[x] /\ step[y] = x
    BY <2>1, <2>2
  <2>4. r[y] \in Nat /\ r[x] \in Nat
    BY <2>1
  <2>5. y \in C
    BY <2>1, <2>3, <2>4
  <2> QED BY <1>2, <2>1, <2>3, <2>5 DEF ClosedUnder
<1> QED BY <1>1, <1>2 DEF Reach

\* From its head, next leads through the whole list.
LEMMA ReachAll ==
  ASSUME NEW E, NEW r, NEW h, NEW nx, NEW pv, Chained(E, r, h, nx, pv), E \subseteq DOMAIN nx
  PROVE  Reach(nx, h) = E
<1>0. 0 \notin E /\ (\A x \in E : r[x] \in Nat) /\ (h # 0 => h \in E)
  BY DEF Chained, Ranked, IsHead
<1>1. ClosedUnder(nx, E)
  BY BothWays DEF ClosedUnder
<1>2. ASSUME NEW x \in E PROVE x = h \/ \E y \in E : r[y] < r[x] /\ nx[y] = x
  BY BothWays
<1> QED BY <1>0, <1>1, <1>2, ReachRanked

\* Nothing lies before the head.
LEMMA ReachBack ==
  ASSUME NEW E, NEW r, NEW h, NEW nx, NEW pv, Chained(E, r, h, nx, pv), E \subseteq DOMAIN pv
  PROVE  Reach(pv, h) = E \cap {h} /\ (h = 0 => E = {})
<1>0. 0 \notin E /\ (\A x \in E : r[x] \in Nat) /\ (h # 0 => h \in E) /\ (h = 0 => E = {})
  BY DEF Chained, Ranked, IsHead
<1> DEFINE S == E \cap {h}
<1>1. ClosedUnder(pv, S)
  BY BothWays DEF ClosedUnder
<1>2. /\ S \in SUBSET DOMAIN pv /\ 0 \notin S /\ (h # 0 => h \in S)
      /\ (\A x \in S : r[x] \in Nat) /\ \A x \in S : x = h
  BY <1>0
<1> HIDE DEF S
<1>3. Reach(pv, h) = S
  BY <1>1, <1>2, ReachRanked
<1> QED BY <1>0, <1>3 DEF S

\* A list that is not empty has a last entry, and only one.
LEMMA LastOne ==
  ASSUME NEW E, NEW r, NEW h, NEW nx, NEW pv, Chained(E, r, h, nx, pv),
         NEW N \in Nat, \A x \in E : r[x] <= N, E # {}
  PROVE  \E t \in E : {b \in E : nx[b] = 0} = {t} /\ \A b \in E : r[b] <= r[t]
<1>0. (\A x \in E : r[x] \in Nat) /\ Ranked(E, r) /\ \A a \in E : Behind(E, r, a, nx[a])
  BY DEF Chained, Ranked
<1>1. PICK t \in E : \A b \in E : r[b] <= r[t]
  BY <1>0, GreatestRank
<1>2. nx[t] = 0
  <2> SUFFICES ASSUME nx[t] # 0 PROVE FALSE
    OBVIOUS
  <2>1. nx[t] \in E /\ r[t] < r[nx[t]]
    BY <1>0 DEF Behind
  <2> QED BY <1>0, <1>1, <2>1
<1>3. ASSUME NEW b \in E, nx[b] = 0 PROVE b = t
  <2>1. r[t] <= r[b] /\ r[b] <= r[t]
    BY <1>0, <1>1, <1>3 DEF Behind
  <2>2. r[t] = r[b]
    BY <1>0, <2>1
  <2> QED BY <1>0, <2>2 DEF Ranked
<1> QED BY <1>1, <1>2, <1>3

\* The list without a, and with a put in between p and n.
Parted(E, h, nx, pv, a, h2, nx2, pv2) ==
    /\ h2 = IF a = h THEN nx[a] ELSE h
    /\ \A b \in E \ {a} : nx2[b] = IF b = pv[a] THEN nx[a] ELSE nx[b]
    /\ \A b \in E \ {a} : pv2[b] = IF b = nx[a] THEN pv[a] ELSE pv[b]

Joined(E, h, nx, pv, a, p, n, h2, nx2, pv2) ==
    /\ h2 = IF p = 0 THEN a ELSE h
    /\ nx2[a] = n /\ pv2[a] = p
    /\ \A b \in E : nx2[b] = IF b = p THEN a ELSE nx[b]
    /\ \A b \in E : pv2[b] = IF b = n THEN a ELSE pv[b]

LEMMA Apart ==
  ASSUME NEW E, NEW r, Ranked(E, r), NEW a \in E, NEW b \in E, a # b
  PROVE  r[a] \in Nat /\ r[b] \in Nat /\ (r[a] < r[b] \/ r[b] < r[a])
<1>1. r[a] \in Nat /\ r[b] \in Nat /\ r[a] # r[b]
  BY DEF Ranked
<1> QED BY <1>1

\* An entry is taken out: its neighbours become each other's.
LEMMA TakenOut ==
  ASSUME NEW E, NEW r, NEW h, NEW nx, NEW pv, Chained(E, r, h, nx, pv), NEW a \in E,
         NEW nx2, NEW pv2, NEW h2, Parted(E, h, nx, pv, a, h2, nx2, pv2)
  PROVE  Chained(E \ {a}, r, h2, nx2, pv2)
<1> /\ h2 = IF a = h THEN nx[a] ELSE h
    /\ \A b \in E \ {a} : nx2[b] = IF b = pv[a] THEN nx[a] ELSE nx[b]
    /\ \A b \in E \ {a} : pv2[b] = IF b = nx[a] THEN pv[a] ELSE pv[b]
  BY DEF Parted
<1> DEFINE F == E \ {a}
<1>0. /\ 0 \notin E /\ Ranked(E, r) /\ IsHead(E, r, h)
      /\ \A b \in E : Behind(E, r, b, nx[b]) /\ Before(E, r, b, pv[b])
  BY DEF Chained
<1>1. 0 \notin F /\ Ranked(F, r)
  BY <1>0 DEF Ranked
<1>2. PICK x : x = nx[a]
  OBVIOUS
<1>3. PICK y : y = pv[a]
  OBVIOUS
<1>4. Behind(E, r, a, x) /\ Before(E, r, a, y) /\ r[a] \in Nat
  BY <1>0, <1>2, <1>3 DEF Ranked
<1>5. \A c \in F : c \in E /\ r[c] \in Nat /\ (r[c] < r[a] \/ r[a] < r[c])
  BY <1>0, Apart
<1>6. /\ (x # 0 => x \in F) /\ (y # 0 => y \in F)
      /\ (y = 0 <=> a = h)
  BY <1>2, <1>3, BothWays
<1>7. ASSUME NEW c \in F PROVE (y = 0 => r[a] < r[c]) /\ (y # 0 => r[c] <= r[y] \/ r[a] < r[c])
  BY <1>4, <1>5 DEF Before
<1>8. ASSUME NEW c \in F PROVE (x = 0 => r[c] < r[a]) /\ (x # 0 => r[x] <= r[c] \/ r[c] < r[a])
  BY <1>4, <1>5 DEF Behind
<1>9. IsHead(F, r, h2)
  <2>1. CASE a = h
    <3>1. h2 = x /\ y = 0
      BY <1>2, <1>6, <2>1
    <3>2. \A c \in F : r[a] < r[c]
      BY <1>7, <3>1
    <3>3. ASSUME x = 0 PROVE F = {}
      BY <1>4, <1>5, <1>8, <3>2, <3>3
    <3>4. ASSUME x # 0, NEW c \in F PROVE r[x] <= r[c]
      BY <1>4, <1>5, <1>8, <3>2, <3>4
    <3> QED BY <1>6, <3>1, <3>3, <3>4 DEF IsHead
  <2>2. CASE a # h
    BY <1>0, <2>2 DEF IsHead
  <2> QED BY <2>1, <2>2
<1>10. ASSUME NEW b \in F PROVE Behind(F, r, b, nx2[b])
  <2>0. b \in E /\ Behind(E, r, b, nx[b]) /\ r[b] \in Nat
    BY <1>0, <1>5
  <2>1. CASE b # y
    <3>1. nx2[b] = nx[b]
      BY <1>3, <2>1
    <3>2. nx[b] # a
      <4>1. nx[b] # 0 => pv[nx[b]] = b
        BY <2>0, BothWays
      <4> QED BY <1>0, <1>3, <2>1, <4>1
    <3> QED BY <2>0, <3>1, <3>2 DEF Behind
  <2>2. CASE b = y
    <3>1. nx2[b] = x /\ y # 0 /\ r[b] < r[a]
      BY <1>0, <1>2, <1>3, <1>4, <2>0, <2>2 DEF Before
    <3>2. ASSUME x = 0, NEW c \in F PROVE r[c] <= r[b]
      BY <1>4, <1>5, <1>7, <1>8, <2>0, <2>2, <3>1, <3>2
    <3>3. ASSUME x # 0 PROVE x \in F /\ r[b] < r[x] /\ \A c \in F : r[c] <= r[b] \/ r[x] <= r[c]
      <4>1. x \in F /\ r[a] < r[x] /\ r[x] \in Nat
        BY <1>4, <1>5, <1>6, <3>3 DEF Behind
      <4>2. r[b] < r[x]
        BY <1>4, <2>0, <3>1, <4>1
      <4>3. ASSUME NEW c \in F PROVE r[c] <= r[b] \/ r[x] <= r[c]
        BY <1>4, <1>5, <1>7, <1>8, <2>2, <3>1, <3>3
      <4> QED BY <4>1, <4>2, <4>3
    <3> QED BY <3>1, <3>2, <3>3 DEF Behind
  <2> QED BY <2>1, <2>2
<1>11. ASSUME NEW b \in F PROVE Before(F, r, b, pv2[b])
  <2>0. b \in E /\ Before(E, r, b, pv[b]) /\ r[b] \in Nat
    BY <1>0, <1>5
  <2>1. CASE b # x
    <3>1. pv2[b] = pv[b]
      BY <1>2, <2>1
    <3>2. pv[b] # a
      <4>1. pv[b] # 0 => nx[pv[b]] = b
        BY <2>0, BothWays
      <4> QED BY <1>0, <1>2, <2>1, <4>1
    <3> QED BY <2>0, <3>1, <3>2 DEF Before
  <2>2. CASE b = x
    <3>1. pv2[b] = y /\ x # 0 /\ r[a] < r[b]
      BY <1>0, <1>2, <1>3, <1>4, <2>0, <2>2 DEF Behind
    <3>2. ASSUME y = 0, NEW c \in F PROVE r[b] <= r[c]
      BY <1>4, <1>5, <1>7, <1>8, <2>0, <2>2, <3>1, <3>2
    <3>3. ASSUME y # 0 PROVE y \in F /\ r[y] < r[b] /\ \A c \in F : r[c] <= r[y] \/ r[b] <= r[c]
      <4>1. y \in F /\ r[y] < r[a] /\ r[y] \in Nat
        BY <1>4, <1>5, <1>6, <3>3 DEF Before
      <4>2. r[y] < r[b]
        BY <1>4, <2>0, <3>1, <4>1
      <4>3. ASSUME NEW c \in F PROVE r[c] <= r[y] \/ r[b] <= r[c]
        BY <1>4, <1>5, <1>7, <1>8, <2>2, <3>1, <3>3
      <4> QED BY <4>1, <4>2, <4>3
    <3> QED BY <3>1, <3>2, <3>3 DEF Before
  <2> QED BY <2>1, <2>2
<1> QED BY <1>1, <1>9, <1>10, <1>11 DEF Chained

\* An entry is put in between the two its rank lies between.
LEMMA PutIn ==
  ASSUME NEW E, NEW r, NEW h, NEW nx, NEW pv, Chained(E, r, h, nx, pv),
         NEW a, a \notin E, a # 0, Ranked(E \cup {a}, r),
         NEW p, NEW n, Before(E, r, a, p), Behind(E, r, a, n),
         NEW nx2, NEW pv2, NEW h2, Joined(E, h, nx, pv, a, p, n, h2, nx2, pv2)
  PROVE  Chained(E \cup {a}, r, h2, nx2, pv2)
<1> /\ h2 = IF p = 0 THEN a ELSE h
    /\ nx2[a] = n /\ pv2[a] = p
    /\ \A b \in E : nx2[b] = IF b = p THEN a ELSE nx[b]
    /\ \A b \in E : pv2[b] = IF b = n THEN a ELSE pv[b]
  BY DEF Joined
<1> DEFINE F == E \cup {a}
<1>0. /\ 0 \notin E /\ Ranked(E, r) /\ IsHead(E, r, h)
      /\ \A b \in E : Behind(E, r, b, nx[b]) /\ Before(E, r, b, pv[b])
  BY DEF Chained
<1>1. 0 \notin F /\ Ranked(F, r) /\ r[a] \in Nat /\ \A c \in F : r[c] \in Nat
  BY <1>0 DEF Ranked
<1>2. \A c \in E : r[c] < r[a] \/ r[a] < r[c]
  <2>1. ASSUME NEW c \in E PROVE r[c] < r[a] \/ r[a] < r[c]
    <3>1. c \in F /\ a \in F /\ c # a
      OBVIOUS
    <3> QED BY <1>1, <3>1, Apart
  <2> QED BY <2>1
<1>3. ASSUME NEW c \in E PROVE (p = 0 => r[a] < r[c]) /\ (p # 0 => r[c] <= r[p] \/ r[a] < r[c])
  BY <1>1, <1>2 DEF Before
<1>4. ASSUME NEW c \in E PROVE (n = 0 => r[c] < r[a]) /\ (n # 0 => r[n] <= r[c] \/ r[c] < r[a])
  BY <1>1, <1>2 DEF Behind
<1>5. (p # 0 => p \in E /\ r[p] < r[a]) /\ (n # 0 => n \in E /\ r[a] < r[n])
  BY DEF Before, Behind
<1>6. IsHead(F, r, h2)
  <2>1. CASE p = 0
    BY <1>1, <1>3, <2>1 DEF IsHead
  <2>2. CASE p # 0
    <3>1. h \in E /\ h # 0 /\ h2 = h /\ \A b \in E : r[h] <= r[b]
      BY <1>0, <1>5, <2>2 DEF IsHead
    <3>2. r[h] <= r[a]
      BY <1>1, <1>5, <2>2, <3>1
    <3> QED BY <3>1, <3>2 DEF IsHead
  <2> QED BY <2>1, <2>2
<1>7. Behind(F, r, a, n) /\ Before(F, r, a, p)
  BY <1>1 DEF Behind, Before
<1>8. ASSUME NEW b \in E PROVE Behind(F, r, b, nx2[b])
  <2>0. Behind(E, r, b, nx[b]) /\ r[b] \in Nat /\ b # 0
    BY <1>0, <1>1
  <2>1. CASE b = p
    <3>1. nx2[b] = a /\ r[b] < r[a]
      BY <1>5, <2>0, <2>1
    <3>2. ASSUME NEW c \in F PROVE r[c] <= r[b] \/ r[a] <= r[c]
      BY <1>1, <1>3, <2>0, <2>1
    <3> QED BY <3>1, <3>2 DEF Behind
  <2>2. CASE b # p
    <3>1. PICK x : x = nx[b]
      OBVIOUS
    <3>2. nx2[b] = x /\ Behind(E, r, b, x)
      BY <2>0, <2>2, <3>1
    <3>3. CASE x = 0
      <4>1. \A c \in E : r[c] <= r[b]
        BY <3>2, <3>3 DEF Behind
      <4>2. r[a] <= r[b]
        <5> SUFFICES ASSUME r[b] < r[a] PROVE FALSE
          BY <1>1, <2>0
        <5>1. p # 0 /\ r[b] <= r[p]
          BY <1>1, <1>3, <2>0
        <5>2. p \in E /\ r[p] = r[b]
          BY <1>1, <1>5, <2>0, <4>1, <5>1
        <5> QED BY <1>0, <2>2, <5>2 DEF Ranked
      <4> QED BY <3>2, <3>3, <4>1, <4>2 DEF Behind
    <3>4. CASE x # 0
      <4>1. x \in E /\ r[b] < r[x] /\ (\A c \in E : r[c] <= r[b] \/ r[x] <= r[c]) /\ r[x] \in Nat
        BY <1>1, <3>2, <3>4 DEF Behind
      <4>2. r[a] <= r[b] \/ r[x] <= r[a]
        <5> SUFFICES ASSUME r[b] < r[a] PROVE r[x] <= r[a]
          BY <1>1, <2>0
        <5>1. p # 0 /\ r[b] <= r[p]
          BY <1>1, <1>3, <2>0
        <5>2. p \in E /\ r[p] < r[a] /\ r[p] \in Nat
          BY <1>1, <1>5, <5>1
        <5>3. r[p] # r[b]
          BY <1>0, <2>2, <5>2 DEF Ranked
        <5>4. r[x] <= r[p]
          BY <2>0, <4>1, <5>1, <5>2, <5>3
        <5> QED BY <1>1, <4>1, <5>2, <5>4
      <4> QED BY <3>2, <3>4, <4>1, <4>2 DEF Behind
    <3> QED BY <3>3, <3>4
  <2> QED BY <2>1, <2>2
<1>9. ASSUME NEW b \in E PROVE Before(F, r, b, pv2[b])
  <2>0. Before(E, r, b, pv[b]) /\ r[b] \in Nat /\ b # 0
    BY <1>0, <1>1
  <2>1. CASE b = n
    <3>1. pv2[b] = a /\ r[a] < r[b]
      BY <1>5, <2>0, <2>1
    <3>2. ASSUME NEW c \in F PROVE r[c] <= r[a] \/ r[b] <= r[c]
      BY <1>1, <1>4, <2>0, <2>1
    <3> QED BY <3>1, <3>2 DEF Before
  <2>2. CASE b # n
    <3>1. PICK x : x = pv[b]
      OBVIOUS
    <3>2. pv2[b] = x /\ Before(E, r, b, x)
      BY <2>0, <2>2, <3>1
    <3>3. CASE x = 0
      <4>1. \A c \in E : r[b] <= r[c]
        BY <3>2, <3>3 DEF Before
      <4>2. r[b] <= r[a]
        <5> SUFFICES ASSUME r[a] < r[b] PROVE FALSE
          BY <1>1, <2>0
        <5>1. n # 0 /\ r[n] <= r[b]
          BY <1>1, <1>4, <2>0
        <5>2. n \in E /\ r[n] = r[b]
          BY <1>1, <1>5, <2>0, <4>1, <5>1
        <5> QED BY <1>0, <2>2, <5>2 DEF Ranked
      <4> QED BY <3>2, <3>3, <4>1, <4>2 DEF Before
    <3>4. CASE x # 0
      <4>1. x \in E /\ r[x] < r[b] /\ (\A c \in E : r[c] <= r[x] \/ r[b] <= r[c]) /\ r[x] \in Nat
        BY <1>1, <3>2, <3>4 DEF Before
      <4>2. r[a] <= r[x] \/ r[b] <= r[a]
        <5> SUFFICES ASSUME r[a] < r[b] PROVE r[a] <= r[x]
          BY <1>1, <2>0
        <5>1. n # 0 /\ r[n] <= r[b]
          BY <1>1, <1>4, <2>0
        <5>2. n \in E /\ r[a] < r[n] /\ r[n] \in Nat
          BY <1>1, <1>5, <5>1
        <5>3. r[n] # r[b]
          BY <1>0, <2>2, <5>2 DEF Ranked
        <5>4. r[n] <= r[x]
          BY <2>0, <4>1, <5>1, <5>2, <5>3
        <5> QED BY <1>1, <4>1, <5>2, <5>4
      <4> QED BY <3>2, <3>4, <4>1, <4>2 DEF Before
    <3> QED BY <3>3, <3>4
  <2> QED BY <2>1, <2>2
<1> QED BY <1>1, <1>6, <1>7, <1>8, <1>9 DEF Chained

-----------------------------------------------------------------------------
(* Slots *)

Pool == [used : SUBSET Addr, next : 1 .. MaxHandles + 1]

\* No free slot lies below the hint.
PoolOK(pool) == pool \in Pool /\ \A a \in 1 .. Slots : a < pool.next => a \in pool.used

LEMMA Addresses == /\ Addr \in SUBSET Nat /\ 0 \notin Addr /\ IsFiniteSet(Addr)
                   /\ \A a \in Addr : a \in Nat /\ a >= 1 /\ a <= MaxHandles
<1>1. MaxHandles \in Nat
  BY HandlesAssumption
<1> QED BY <1>1, FS_Interval DEF Addr

\* An address handed out was nobody's.
LEMMA TakeFacts ==
  ASSUME NEW pool, PoolOK(pool), CanTake(pool)
  PROVE  /\ Taken(pool) \in Addr /\ Taken(pool) \notin pool.used
         /\ PoolOK(Take(pool)) /\ Take(pool).used = pool.used \cup {Taken(pool)}
<1>0. pool.used \in SUBSET Addr /\ pool.next \in 1 .. MaxHandles + 1 /\ MaxHandles \in Nat /\ Slots \in Nat
  BY HandlesAssumption DEF PoolOK, Pool
<1>1. PICK t : t = Taken(pool)
  OBVIOUS
<1>2. CASE Free(pool) # {}
  <2>1. Free(pool) \in SUBSET Nat /\ t = Min(Free(pool))
    BY <1>1, <1>2, Addresses DEF Free, Taken
  <2>2. t \in Free(pool) /\ \A m \in Free(pool) : t <= m
    BY <1>2, <2>1, MinFacts
  <2>3. t \in Addr /\ t \notin pool.used /\ t >= pool.next /\ t <= Slots
    BY <2>2 DEF Free
  <2>4. t \in Nat /\ t >= 1 /\ t <= MaxHandles
    BY <2>3, Addresses
  <2>5. Take(pool) = [used |-> pool.used \cup {t}, next |-> t + 1]
    BY <1>1, <1>2 DEF Take
  <2>6. Take(pool) \in Pool
    BY <1>0, <2>3, <2>4, <2>5 DEF Pool
  <2>7. ASSUME NEW a \in 1 .. Slots, a < t + 1, a # t PROVE a \in pool.used
    <3>1. CASE a < pool.next
      BY <3>1 DEF PoolOK
    <3>2. CASE ~(a < pool.next)
      <4>1. a \in Addr
        BY <1>0, <2>4, <2>7 DEF Addr
      <4>2. a \notin Free(pool)
        BY <2>2, <2>4, <2>7
      <4> QED BY <1>0, <2>7, <3>2, <4>1, <4>2 DEF Free
    <3> QED BY <3>1, <3>2
  <2> QED BY <1>1, <2>3, <2>5, <2>6, <2>7 DEF PoolOK
<1>3. CASE Free(pool) = {}
  <2>1. Heap(pool) # {}
    BY <1>3 DEF CanTake
  <2>2. Heap(pool) \in SUBSET Nat /\ t = Min(Heap(pool))
    BY <1>1, <1>3, Addresses DEF Heap, Taken
  <2>3. t \in Heap(pool)
    BY <2>1, <2>2, MinFacts
  <2>4. t \in Addr /\ t \notin pool.used
    BY <2>3 DEF Heap
  <2>5. Take(pool) = [used |-> pool.used \cup {t}, next |-> pool.next]
    BY <1>1, <1>3 DEF Take
  <2>6. Take(pool) \in Pool
    BY <1>0, <2>4, <2>5 DEF Pool
  <2> QED BY <1>1, <2>4, <2>5, <2>6 DEF PoolOK
<1> QED BY <1>2, <1>3

LEMMA GiveFacts ==
  ASSUME NEW pool, PoolOK(pool), NEW a \in Addr
  PROVE  PoolOK(Give(pool, a)) /\ Give(pool, a).used = pool.used \ {a}
<1>0. pool.used \in SUBSET Addr /\ pool.next \in 1 .. MaxHandles + 1 /\ MaxHandles \in Nat /\ Slots \in Nat
      /\ a \in 1 .. MaxHandles
  BY HandlesAssumption DEF PoolOK, Pool, Addr
<1>1. PICK x : x = IF a <= Slots /\ a < pool.next THEN a ELSE pool.next
  OBVIOUS
<1>2. Give(pool, a) = [used |-> pool.used \ {a}, next |-> x]
  BY <1>1 DEF Give
<1>3. x \in 1 .. MaxHandles + 1 /\ x <= pool.next
  BY <1>0, <1>1
<1>4. ASSUME NEW b \in 1 .. Slots, b < x PROVE b \in pool.used /\ b # a
  <2>1. b < pool.next
    BY <1>0, <1>3, <1>4
  <2>2. b # a
    BY <1>0, <1>1, <1>4
  <2> QED BY <2>1, <2>2 DEF PoolOK
<1> QED BY <1>0, <1>2, <1>3, <1>4 DEF PoolOK, Pool

\* Taking a slot and giving it back loses none.
LEMMA TakeGive ==
  ASSUME NEW pool, PoolOK(pool), CanTake(pool)
  PROVE  PoolOK(Give(Take(pool), Taken(pool))) /\ Give(Take(pool), Taken(pool)).used = pool.used
<1>1. PICK q : q = Take(pool)
  OBVIOUS
<1>2. PICK a : a = Taken(pool)
  OBVIOUS
<1>3. a \in Addr /\ a \notin pool.used /\ PoolOK(q) /\ q.used = pool.used \cup {a}
  BY <1>1, <1>2, TakeFacts
<1>4. PoolOK(Give(q, a)) /\ Give(q, a).used = q.used \ {a}
  BY <1>3, GiveFacts
<1> QED BY <1>1, <1>2, <1>3, <1>4

-----------------------------------------------------------------------------
(* The invariant *)

Kinds == {"dev", "file", "stream"}
Device == [inode : Inode, rw : BOOLEAN, owner : Kinds]
Entry == [type : Kinds, item : Addr, next : Addr \cup {0}, prev : Addr \cup {0}]
Node == [count : Nat \ {0}, writer : Addr \cup {0}, next : Inode \cup {0}, prev : Inode \cup {0}]

\* The entries in a list, and the inodes that have an entry in the opened list.
Live(entry) == {a \in Addr : entry[a] # NoEntry}
InUse == {i \in Inode : node[i] # NoNode}

DevsOK == dev \in [Addr -> Device \cup {NoDev}]

\* The slots of devices are those of the open devices, the slots of entries
\* those of the entries in the list.
DevSlots == PoolOK(devPool) /\ devPool.used = OpenDevs

ListOK(l) ==
    /\ l = [head |-> l.head, entry |-> l.entry, pool |-> l.pool]
    /\ l.head \in Addr \cup {0} /\ l.entry \in [Addr -> Entry \cup {NoEntry}]
    /\ PoolOK(l.pool) /\ l.pool.used = Live(l.entry)

\* The opened inodes are linked in the order of their ids.
Id == [i \in Inode |-> i]
NodeInv == Chained(InUse, Id, opened, NextOf(node), PrevOf(node))
NodesOK == node \in [Inode -> Node \cup {NoNode}] /\ opened \in Inode \cup {0} /\ NodeInv

\* Until the container is left with objects the client keeps.
Tidy == fs \in {"open", "closing", "closed"}

UsersKnown(i) ==
    /\ node[i].count = Cardinality(Users(i))
    /\ {d \in Users(i) : dev[d].rw} = {node[i].writer} \ {0}

UseInv == (Tidy => \A i \in Inode : UsersKnown(i)) /\ (fs = "left" => opened = 0)

\* The entries are linked in the order of ranks below n, from head h on.
Listing(entry, h) ==
    \E n \in Nat : \E r \in [Addr -> Nat] :
        /\ \A a \in Addr : r[a] < n
        /\ Chained(Live(entry), r, h, NextOf(entry), PrevOf(entry))

\* Each entry is for an open device, by its owner, and each of those has one.
Matched(entry, devs) ==
    /\ \A a \in Live(entry) : /\ devs[entry[a].item] # NoDev
                              /\ entry[a].type = devs[entry[a].item].owner
    /\ \A a, b \in Live(entry) : entry[a].item = entry[b].item => a = b
    /\ \A d \in Addr : devs[d] # NoDev => \E a \in Live(entry) : entry[a].item = d

\* Where the list begins: finalizing takes it off the container.
Head == IF fs = "closing" THEN doomed ELSE closers.head

CloserInv ==
    /\ fs # "open" => closers.head = 0
    /\ Tidy => Listing(closers.entry, Head) /\ Matched(closers.entry, dev)
    /\ fs = "closed" => OpenDevs = {}

HandlesInv ==
    /\ fs \in {"open", "closing", "closed", "leaving", "left"} /\ doomed \in Addr \cup {0}
    /\ DevsOK /\ DevSlots /\ NodesOK /\ ListOK(closers)
    /\ UseInv /\ CloserInv

-----------------------------------------------------------------------------
(* The opened inodes *)

\* What a call does to the users and the writer noted of an inode, and to no other.
Notes(i, count, writer) ==
    /\ node'[i].count = count /\ node'[i].writer = writer
    /\ \A j \in Inode \ {i} : node'[j].count = node[j].count /\ node'[j].writer = node[j].writer

LEMMA Inodes == Inode \in SUBSET Nat /\ 0 \notin Inode /\ \A i \in Inode : Id[i] = i /\ i \in Nat
BY HandlesAssumption DEF Id

LEMMA NodeFacts ==
  ASSUME node \in [Inode -> Node \cup {NoNode}]
  PROVE  /\ \A i \in InUse : i \in Inode /\ node[i] \in Node
         /\ \A i \in Inode \ InUse : node[i] = NoNode
         /\ DOMAIN NextOf(node) = Inode /\ DOMAIN PrevOf(node) = Inode
         /\ \A i \in Inode : NextOf(node)[i] = node[i].next /\ PrevOf(node)[i] = node[i].prev
         /\ InUse \subseteq Inode
BY DEF InUse, NextOf, PrevOf

LEMMA NodeCount ==
  ASSUME node \in [Inode -> Node \cup {NoNode}], NEW i \in Inode
  PROVE  /\ node[i].count \in Nat /\ node[i].writer \in Addr \cup {0}
         /\ i \in InUse <=> node[i].count # 0
<1>1. CASE i \in InUse
  BY <1>1, NodeFacts DEF Node
<1>2. CASE i \notin InUse
  <2>1. node[i] = NoNode
    BY <1>2, NodeFacts
  <2> QED BY <1>2, <2>1 DEF NoNode
<1> QED BY <1>1, <1>2

\* The neighbours by order are those of the list.
LEMMA Neighbours ==
  ASSUME NodesOK
  PROVE  /\ \A j \in InUse : /\ Behind(InUse, Id, j, node[j].next) /\ Before(InUse, Id, j, node[j].prev)
                             /\ node[j].next # 0 => node[j].next \in InUse /\ j < node[j].next /\ node[node[j].next].prev = j
                             /\ node[j].prev # 0 => node[j].prev \in InUse /\ node[j].prev < j /\ node[node[j].prev].next = j
                             /\ node[j].prev = 0 <=> j = opened
                             /\ \A k \in InUse : j < k => node[j].next # 0 /\ node[j].next <= k
                             /\ \A k \in InUse : k < j => node[j].prev # 0 /\ k <= node[j].prev
         /\ opened = 0 => InUse = {}
         /\ opened # 0 => opened \in InUse /\ \A k \in InUse : opened <= k
<1>0. /\ NodeInv /\ node \in [Inode -> Node \cup {NoNode}] /\ InUse \subseteq Inode
      /\ \A j \in Inode : NextOf(node)[j] = node[j].next /\ PrevOf(node)[j] = node[j].prev
  BY NodeFacts DEF NodesOK
<1>1. /\ IsHead(InUse, Id, opened)
      /\ \A j \in InUse : Behind(InUse, Id, j, node[j].next) /\ Before(InUse, Id, j, node[j].prev)
  BY <1>0 DEF NodeInv, Chained
<1>2. \A j \in InUse : Id[j] = j /\ j \in Nat
  BY <1>0, Inodes
<1>3. ASSUME NEW j \in InUse
      PROVE  /\ node[j].next # 0 => node[j].next \in InUse /\ j < node[j].next /\ node[node[j].next].prev = j
             /\ node[j].prev # 0 => node[j].prev \in InUse /\ node[j].prev < j /\ node[node[j].prev].next = j
             /\ node[j].prev = 0 <=> j = opened
  <2>1. PICK nx : nx = NextOf(node)
    OBVIOUS
  <2>2. PICK pv : pv = PrevOf(node)
    OBVIOUS
  <2>3. Chained(InUse, Id, opened, nx, pv)
    BY <1>0, <2>1, <2>2 DEF NodeInv
  <2>4. /\ nx[j] # 0 => nx[j] \in InUse /\ Id[j] < Id[nx[j]] /\ pv[nx[j]] = j
        /\ pv[j] # 0 => pv[j] \in InUse /\ Id[pv[j]] < Id[j] /\ nx[pv[j]] = j
        /\ pv[j] = 0 <=> j = opened
    BY <2>3, BothWays
  <2>5. \A k \in InUse : nx[k] = node[k].next /\ pv[k] = node[k].prev
    BY <1>0, <2>1, <2>2
  <2> QED BY <1>2, <2>4, <2>5
<1>4. ASSUME NEW j \in InUse, NEW k \in InUse, j < k PROVE node[j].next # 0 /\ node[j].next <= k
  <2>1. Behind(InUse, Id, j, node[j].next)
    BY <1>1
  <2>2. node[j].next # 0
    BY <1>2, <1>4, <2>1 DEF Behind
  <2>3. node[j].next \in InUse
    BY <1>3, <2>2
  <2> QED BY <1>2, <1>4, <2>1, <2>2, <2>3 DEF Behind
<1>5. ASSUME NEW j \in InUse, NEW k \in InUse, k < j PROVE node[j].prev # 0 /\ k <= node[j].prev
  <2>1. Before(InUse, Id, j, node[j].prev)
    BY <1>1
  <2>2. node[j].prev # 0
    BY <1>2, <1>5, <2>1 DEF Before
  <2>3. node[j].prev \in InUse
    BY <1>3, <2>2
  <2> QED BY <1>2, <1>5, <2>1, <2>2, <2>3 DEF Before
<1>6. opened = 0 => InUse = {}
  BY <1>1 DEF IsHead
<1>7. opened # 0 => opened \in InUse /\ \A k \in InUse : opened <= k
  BY <1>1, <1>2 DEF IsHead
<1> QED BY <1>1, <1>3, <1>4, <1>5, <1>6, <1>7

\* The walk passes the ids below i and stops at the first that is not.
LEMMA PassedIs ==
  ASSUME NodesOK, NEW i \in Inode
  PROVE  /\ Passed(i) = {j \in InUse : \A k \in InUse : k < j => k < i}
         /\ IsOpened(i) <=> i \in InUse
<1> DEFINE step == [j \in Inode |-> IF j < i THEN node[j].next ELSE 0]
           S == {j \in InUse : \A k \in InUse : k < j => k < i}
<1>0. InUse \subseteq Inode /\ Inode \subseteq Nat /\ 0 \notin Inode /\ \A j \in InUse : Id[j] = j /\ j \in Nat
  BY NodeFacts, Inodes DEF NodesOK
<1>1. ClosedUnder(step, S)
  <2> SUFFICES ASSUME NEW q \in S, step[q] # 0 PROVE step[q] \in S
    BY DEF ClosedUnder
  <2>1. q \in InUse /\ q < i /\ step[q] = node[q].next /\ node[q].next # 0
    BY <1>0
  <2>2. PICK x : x = node[q].next
    OBVIOUS
  <2>3. x \in InUse /\ q < x
    BY <2>1, <2>2, Neighbours
  <2>4. ASSUME NEW k \in InUse, k < x PROVE k < i
    <3>1. ~(q < k)
      <4> SUFFICES ASSUME q < k PROVE FALSE
        OBVIOUS
      <4>1. x <= k
        BY <2>1, <2>2, Neighbours
      <4> QED BY <1>0, <2>3, <2>4, <4>1
    <3> QED BY <1>0, <2>1, <3>1
  <2> QED BY <2>1, <2>2, <2>3, <2>4
<1>2. opened # 0 => opened \in S
  <2> SUFFICES ASSUME opened # 0 PROVE opened \in S
    OBVIOUS
  <2>1. opened \in InUse /\ \A k \in InUse : opened <= k
    BY Neighbours
  <2> QED BY <1>0, <2>1
<1>3. ASSUME NEW x \in S PROVE x = opened \/ \E y \in S : Id[y] < Id[x] /\ step[y] = x
  <2> SUFFICES ASSUME x # opened PROVE \E y \in S : Id[y] < Id[x] /\ step[y] = x
    OBVIOUS
  <2>1. PICK y : y = node[x].prev
    OBVIOUS
  <2>2. y \in InUse /\ y < x /\ node[y].next = x
    BY <2>1, Neighbours
  <2>3. y < i
    BY <2>2
  <2>4. y \in S
    BY <1>0, <2>2
  <2>5. step[y] = x
    BY <1>0, <2>2, <2>3
  <2> QED BY <1>0, <2>2, <2>4, <2>5
<1>4. S \in SUBSET DOMAIN step /\ 0 \notin S /\ \A x \in S : Id[x] \in Nat
  BY <1>0
<1>5. Passed(i) = Reach(step, opened)
  BY DEF Passed
<1>6. i \in S <=> i \in InUse
  OBVIOUS
<1> HIDE DEF step, S
<1>7. Reach(step, opened) = S
  BY <1>1, <1>2, <1>3, <1>4, ReachRanked
<1> QED BY <1>5, <1>6, <1>7 DEF S, IsOpened

Relinked(e, x, y) == [e EXCEPT !.next = x, !.prev = y]

WithLinks(f, e, x, y) ==
    f \in Node /\ f.next = x /\ f.prev = y /\ f.count = e.count /\ f.writer = e.writer

LEMMA RelinkedNode ==
  ASSUME NEW e \in Node, NEW x \in Inode \cup {0}, NEW y \in Inode \cup {0},
         NEW f, f = Relinked(e, x, y)
  PROVE  WithLinks(f, e, x, y)
BY DEF Node, Relinked, WithLinks

\* Linking a new entry between two neighbours, or at an end.
LEMMA LinkedNodes ==
  ASSUME NodesOK, NEW i \in Inode, i \notin InUse, NEW w \in Addr \cup {0},
         NEW p \in InUse \cup {0}, NEW n \in InUse \cup {0},
         Before(InUse, Id, i, p), Behind(InUse, Id, i, n),
         node' = Linked(i, [NoNode EXCEPT !.count = 1, !.writer = w], p, n),
         opened' = IF p = 0 THEN i ELSE opened
  PROVE  NodesOK' /\ Notes(i, 1, w)
<1>0. /\ node \in [Inode -> Node \cup {NoNode}] /\ opened \in Inode \cup {0} /\ NodeInv
      /\ InUse \subseteq Inode /\ Inode \subseteq Nat /\ 0 \notin Inode
  BY NodeFacts, Inodes DEF NodesOK
<1>1. PICK e : e = [NoNode EXCEPT !.count = 1, !.writer = w]
  OBVIOUS
<1>2. e = [count |-> 1, writer |-> w, next |-> 0, prev |-> 0]
  BY <1>1 DEF NoNode
<1>3. node' = [j \in Inode |->
                IF j = i THEN [e EXCEPT !.prev = p, !.next = n]
                ELSE [node[j] EXCEPT !.next = IF j = p THEN i ELSE @, !.prev = IF j = n THEN i ELSE @]]
  BY <1>1 DEF Linked
<1>4. node'[i] = [count |-> 1, writer |-> w, next |-> n, prev |-> p]
  BY <1>2, <1>3
<1>5. ASSUME NEW j \in Inode \ {i}
      PROVE  node'[j] = [node[j] EXCEPT !.next = IF j = p THEN i ELSE @, !.prev = IF j = n THEN i ELSE @]
  BY <1>3
<1>6. ASSUME NEW j \in InUse
      PROVE  /\ node'[j] \in Node
             /\ node'[j].next = (IF j = p THEN i ELSE node[j].next)
             /\ node'[j].prev = (IF j = n THEN i ELSE node[j].prev)
             /\ node'[j].count = node[j].count /\ node'[j].writer = node[j].writer
  <2>1. node[j] \in Node /\ j \in Inode \ {i}
    BY <1>0, NodeFacts
  <2>2. PICK x : x = IF j = p THEN i ELSE node[j].next
    OBVIOUS
  <2>3. PICK y : y = IF j = n THEN i ELSE node[j].prev
    OBVIOUS
  <2>4. x \in Inode \cup {0} /\ y \in Inode \cup {0}
    BY <2>1, <2>2, <2>3 DEF Node
  <2>5. node'[j] = Relinked(node[j], x, y)
    BY <1>5, <2>1, <2>2, <2>3 DEF Relinked, Node
  <2>6. /\ node'[j] \in Node /\ node'[j].next = x /\ node'[j].prev = y
        /\ node'[j].count = node[j].count /\ node'[j].writer = node[j].writer
    <3>1. PICK d : d = node[j]
      OBVIOUS
    <3>2. PICK f : f = node'[j]
      OBVIOUS
    <3>3. f = Relinked(d, x, y) /\ d \in Node
      BY <2>1, <2>5, <3>1, <3>2
    <3>4. WithLinks(f, d, x, y)
      BY <2>4, <3>3, RelinkedNode
    <3> QED BY <3>1, <3>2, <3>4 DEF WithLinks
  <2> QED BY <2>2, <2>3, <2>6
<1>7. ASSUME NEW j \in Inode \ {i}, j \notin InUse PROVE node'[j] = NoNode
  <2>1. node[j] = NoNode /\ j # p /\ j # n
    BY <1>0, <1>7, NodeFacts
  <2>2. node'[j] = [NoNode EXCEPT !.next = @, !.prev = @]
    BY <1>5, <2>1
  <2> QED BY <2>2 DEF NoNode
<1>8. node'[i] \in Node
  BY <1>0, <1>4 DEF Node
<1>9. node' \in [Inode -> Node \cup {NoNode}]
  <2>1. DOMAIN node' = Inode /\ node' = [j \in Inode |-> node'[j]]
    BY <1>3
  <2>2. \A j \in Inode : node'[j] \in Node \cup {NoNode}
    BY <1>6, <1>7, <1>8
  <2> QED BY <2>1, <2>2
<1>10. InUse' = InUse \cup {i}
  <2>1. \A x \in Node : x # NoNode
    BY DEF Node, NoNode
  <2> QED BY <1>0, <1>6, <1>7, <1>8, <2>1 DEF InUse
<1>11. NodeInv'
  <2>1. /\ NextOf(node)'[i] = n /\ PrevOf(node)'[i] = p
        /\ \A j \in InUse : NextOf(node)'[j] = IF j = p THEN i ELSE NextOf(node)[j]
        /\ \A j \in InUse : PrevOf(node)'[j] = IF j = n THEN i ELSE PrevOf(node)[j]
    BY <1>0, <1>4, <1>6, <1>9 DEF NextOf, PrevOf
  <2>2. Ranked(InUse \cup {i}, Id)
    BY <1>0, Inodes DEF Ranked
  <2>3. i # 0
    BY <1>0
  <2>4. PICK nx : nx = NextOf(node)
    OBVIOUS
  <2>5. PICK pv : pv = PrevOf(node)
    OBVIOUS
  <2>6. PICK nx2 : nx2 = NextOf(node)'
    OBVIOUS
  <2>7. PICK pv2 : pv2 = PrevOf(node)'
    OBVIOUS
  <2>8. /\ Chained(InUse, Id, opened, nx, pv)
        /\ nx2[i] = n /\ pv2[i] = p
        /\ \A j \in InUse : nx2[j] = IF j = p THEN i ELSE nx[j]
        /\ \A j \in InUse : pv2[j] = IF j = n THEN i ELSE pv[j]
    BY <1>0, <2>1, <2>4, <2>5, <2>6, <2>7 DEF NodeInv
  <2>9. PICK h : h = opened'
    OBVIOUS
  <2>10. h = IF p = 0 THEN i ELSE opened
    BY <2>9
  <2>11. Joined(InUse, opened, nx, pv, i, p, n, h, nx2, pv2)
    BY <2>8, <2>10 DEF Joined
  <2>13. Chained(InUse \cup {i}, Id, h, nx2, pv2)
    BY <2>2, <2>3, <2>8, <2>11, PutIn
  <2>12. Id' = Id
    BY DEF Id
  <2> QED BY <1>10, <2>6, <2>7, <2>9, <2>13, <2>12 DEF NodeInv
<1>12. Notes(i, 1, w)
  <2>1. ASSUME NEW j \in Inode \ {i} PROVE node'[j].count = node[j].count /\ node'[j].writer = node[j].writer
    <3>1. CASE j \in InUse
      BY <1>6, <3>1
    <3>2. CASE j \notin InUse
      BY <1>7, <3>2, NodeFacts, <1>0
    <3> QED BY <3>1, <3>2
  <2> QED BY <1>4, <2>1 DEF Notes
<1> QED BY <1>0, <1>9, <1>11, <1>12 DEF NodesOK

LEMMA InsertStep ==
  ASSUME NodesOK, NEW i \in Inode, i \notin InUse, NEW w \in Addr \cup {0},
         Insert(i, [NoNode EXCEPT !.count = 1, !.writer = w])
  PROVE  NodesOK' /\ Notes(i, 1, w)
<1>0. /\ InUse \subseteq Inode /\ Inode \subseteq Nat /\ 0 \notin Inode
      /\ \A j \in Inode : Id[j] = j /\ j \in Nat
  BY NodeFacts, Inodes DEF NodesOK
<1>1. PICK e : e = [NoNode EXCEPT !.count = 1, !.writer = w]
  OBVIOUS
<1>2. CASE opened = 0
  <2>1. InUse = {}
    BY <1>2, Neighbours
  <2>2. node' = Linked(i, e, 0, 0) /\ opened' = i
    BY <1>1, <1>2 DEF Insert
  <2>3. Before(InUse, Id, i, 0) /\ Behind(InUse, Id, i, 0)
    BY <2>1 DEF Before, Behind
  <2> QED BY <1>1, <2>2, <2>3, LinkedNodes
<1>3. CASE opened # 0
  <2>0. opened \in InUse
    BY <1>3, Neighbours
  <2>1. \E j \in Passed(i) : j > i \/ node[j].next = 0
    <3> DEFINE Larger == {k \in InUse : k > i}
    <3>1. CASE Larger # {}
      <4>1. Larger \in SUBSET Nat
        BY <1>0
      <4>2. PICK j \in Larger : \A k \in Larger : j <= k
        BY <3>1, <4>1, LeastNatural
      <4>3. ASSUME NEW k \in InUse, k < j PROVE k < i
        BY <1>0, <4>2, <4>3
      <4> QED BY <4>2, <4>3, PassedIs
    <3>2. CASE Larger = {}
      <4>1. \A k \in InUse : k < i
        BY <1>0, <3>2
      <4>2. PICK nx : nx = NextOf(node)
        OBVIOUS
      <4>3. PICK pv : pv = PrevOf(node)
        OBVIOUS
      <4>4. Chained(InUse, Id, opened, nx, pv)
        BY <4>2, <4>3 DEF NodesOK, NodeInv
      <4>5. \A k \in InUse : Id[k] <= i
        BY <1>0, <4>1
      <4>6. \E t \in InUse : {b \in InUse : nx[b] = 0} = {t} /\ \A b \in InUse : Id[b] <= Id[t]
        BY <1>0, <2>0, <4>4, <4>5, LastOne
      <4>7. PICK t \in InUse : nx[t] = 0
        BY <4>6
      <4>8. node[t].next = 0
        BY <4>2, <4>7, NodeFacts DEF NodesOK
      <4> QED BY <4>1, <4>7, <4>8, PassedIs
    <3> QED BY <3>1, <3>2
  <2>2. PICK li : li = CHOOSE j \in Passed(i) : j > i \/ node[j].next = 0
    OBVIOUS
  <2>3. li \in Passed(i) /\ (li > i \/ node[li].next = 0)
    BY <2>1, <2>2
  <2>4. li \in InUse /\ (\A k \in InUse : k < li => k < i) /\ li \in Nat /\ i \in Nat /\ li # i /\ li # 0
    BY <1>0, <2>3, PassedIs
  <2>5. IF li < i THEN node' = Linked(i, e, li, node[li].next) /\ opened' = opened
        ELSE /\ node' = Linked(i, e, node[li].prev, li)
             /\ opened' = IF li = opened THEN i ELSE opened
    BY <1>1, <1>3, <2>2 DEF Insert
  <2>6. CASE li < i
    <3>1. node' = Linked(i, e, li, 0) /\ opened' = opened
      BY <2>3, <2>4, <2>5, <2>6
    <3>2. ASSUME NEW k \in InUse PROVE k <= li
      <4>1. ~(li < k)
        BY <2>3, <2>4, <2>6, Neighbours
      <4> QED BY <1>0, <2>4, <4>1
    <3>3. Before(InUse, Id, i, li)
      BY <1>0, <2>4, <2>6, <3>2 DEF Before
    <3>4. Behind(InUse, Id, i, 0)
      BY <1>0, <2>4, <2>6, <3>2 DEF Behind
    <3> QED BY <1>1, <2>4, <3>1, <3>3, <3>4, LinkedNodes
  <2>7. CASE ~(li < i)
    <3>1. PICK p : p = node[li].prev
      OBVIOUS
    <3>2. node' = Linked(i, e, p, li) /\ opened' = IF li = opened THEN i ELSE opened
      BY <2>5, <2>7, <3>1
    <3>3. i < li
      BY <2>4, <2>7
    <3>4. /\ p # 0 => p \in InUse /\ p < li
          /\ p = 0 <=> li = opened
          /\ \A k \in InUse : k < li => p # 0 /\ k <= p
      BY <2>4, <3>1, Neighbours
    <3>5. Behind(InUse, Id, i, li)
      BY <1>0, <2>4, <3>3 DEF Behind
    <3>6. Before(InUse, Id, i, p)
      <4>1. ASSUME p = 0, NEW k \in InUse PROVE i <= k
        BY <1>0, <2>4, <3>3, <3>4, <4>1
      <4>2. ASSUME p # 0 PROVE p \in InUse /\ p < i /\ \A k \in InUse : k <= p \/ i <= k
        BY <1>0, <2>4, <3>3, <3>4, <4>2
      <4> QED BY <1>0, <4>1, <4>2 DEF Before
    <3>7. opened' = IF p = 0 THEN i ELSE opened
      BY <3>2, <3>4
    <3> QED BY <1>1, <2>4, <3>2, <3>4, <3>5, <3>6, <3>7, LinkedNodes
  <2> QED BY <2>6, <2>7
<1> QED BY <1>2, <1>3

\* Only the number of users and the writer of an entry change.
LEMMA SameLinks ==
  ASSUME NodesOK, NEW i \in InUse, NEW c \in Nat \ {0}, NEW w \in Addr \cup {0},
         node' = [node EXCEPT ![i].count = c, ![i].writer = w], opened' = opened
  PROVE  NodesOK' /\ Notes(i, c, w)
<1>0. /\ node \in [Inode -> Node \cup {NoNode}] /\ opened \in Inode \cup {0} /\ NodeInv
      /\ i \in Inode /\ node[i] \in Node /\ InUse \subseteq Inode
  BY NodeFacts DEF NodesOK
<1>1. node' = [node EXCEPT ![i] = [node[i] EXCEPT !.count = c, !.writer = w]]
  BY <1>0
<1>2. PICK e : e = [node[i] EXCEPT !.count = c, !.writer = w]
  OBVIOUS
<1>3. e \in Node /\ e.next = node[i].next /\ e.prev = node[i].prev /\ e.count = c /\ e.writer = w
  BY <1>0, <1>2 DEF Node
<1>4. node' = [node EXCEPT ![i] = e]
  BY <1>1, <1>2
<1>5. node' \in [Inode -> Node \cup {NoNode}]
  BY <1>0, <1>3, <1>4
<1>6. InUse' = InUse
  <2>1. e # NoNode
    BY <1>3 DEF Node, NoNode
  <2> QED BY <1>0, <1>4, <2>1 DEF InUse
<1>7. NextOf(node)' = NextOf(node) /\ PrevOf(node)' = PrevOf(node)
  BY <1>0, <1>3, <1>4 DEF NextOf, PrevOf
<1>8. NodeInv'
  BY <1>0, <1>6, <1>7 DEF NodeInv, Id
<1> QED BY <1>0, <1>3, <1>4, <1>5, <1>8 DEF NodesOK, Notes

\* A user goes, and the entry with the last one.
LEMMA CloseInodeStep ==
  ASSUME NodesOK, NEW i \in InUse, NEW d, CloseInode(i, d)
  PROVE  /\ NodesOK'
         /\ Notes(i, node[i].count - 1,
                  IF node[i].count = 1 \/ node[i].writer = d THEN 0 ELSE node[i].writer)
<1>0. /\ node \in [Inode -> Node \cup {NoNode}] /\ opened \in Inode \cup {0} /\ NodeInv
      /\ i \in Inode /\ node[i] \in Node /\ InUse \subseteq Inode /\ 0 \notin Inode
  BY NodeFacts, Inodes DEF NodesOK
<1>1. PICK c : c = node[i].count - 1
  OBVIOUS
<1>2. PICK w : w = IF node[i].writer = d THEN 0 ELSE node[i].writer
  OBVIOUS
<1>3. c \in Nat /\ w \in Addr \cup {0} /\ (c = 0 <=> node[i].count = 1)
  BY <1>0, <1>1, <1>2 DEF Node
<1> DEFINE e == [node[i] EXCEPT !.count = @ - 1, !.writer = IF @ = d THEN 0 ELSE @]
<1>5. e.count = c /\ e.writer = w /\ e.next = node[i].next /\ e.prev = node[i].prev
      /\ e = [node[i] EXCEPT !.count = c, !.writer = w]
  BY <1>0, <1>1, <1>2 DEF Node
<1>6. IF e.count > 0 THEN node' = [node EXCEPT ![i] = e] /\ UNCHANGED opened
      ELSE /\ opened' = IF i # opened THEN opened ELSE IF e.next # 0 THEN e.next ELSE e.prev
           /\ node' = [j \in Inode |->
                IF j = i THEN NoNode
                ELSE [node[j] EXCEPT !.next = IF j = e.prev THEN e.next ELSE @,
                                     !.prev = IF j = e.next THEN e.prev ELSE @]]
  BY DEF CloseInode
<1> HIDE DEF e
<1>7. CASE c > 0
  <2>1. node' = [node EXCEPT ![i] = [node[i] EXCEPT !.count = c, !.writer = w]] /\ opened' = opened
    BY <1>5, <1>6, <1>7
  <2>2. node' = [node EXCEPT ![i].count = c, ![i].writer = w]
    BY <1>0, <2>1
  <2>3. c \in Nat \ {0}
    BY <1>3, <1>7
  <2>4. NodesOK' /\ Notes(i, c, w)
    BY <1>3, <2>1, <2>2, <2>3, SameLinks
  <2> QED BY <1>1, <1>2, <1>3, <1>7, <2>4
<1>8. CASE c = 0
  <2>1. PICK n : n = node[i].next
    OBVIOUS
  <2>2. PICK p : p = node[i].prev
    OBVIOUS
  <2>15. ~(e.count > 0) /\ e.next = n /\ e.prev = p
    BY <1>5, <1>8, <2>1, <2>2
  <2>3. /\ opened' = IF i # opened THEN opened ELSE IF n # 0 THEN n ELSE p
        /\ node' = [j \in Inode |->
                IF j = i THEN NoNode
                ELSE [node[j] EXCEPT !.next = IF j = p THEN n ELSE @, !.prev = IF j = n THEN p ELSE @]]
    <3>1. /\ opened' = IF i # opened THEN opened ELSE IF e.next # 0 THEN e.next ELSE e.prev
          /\ node' = [j \in Inode |->
                IF j = i THEN NoNode
                ELSE [node[j] EXCEPT !.next = IF j = e.prev THEN e.next ELSE @,
                                     !.prev = IF j = e.next THEN e.prev ELSE @]]
      BY <1>6, <2>15
    <3> QED BY <2>15, <3>1
  <2>4. /\ n # 0 => n \in InUse /\ n # i
        /\ p # 0 => p \in InUse /\ p # i
        /\ p = 0 <=> i = opened
    BY <1>0, <2>1, <2>2, Neighbours, Inodes
  <2>5. opened' = (IF i = opened THEN n ELSE opened) /\ opened' \in Inode \cup {0}
    BY <1>0, <2>3, <2>4
  <2>6. node'[i] = NoNode
    BY <1>0, <2>3
  <2>7. ASSUME NEW j \in Inode \ {i}
        PROVE  node'[j] = [node[j] EXCEPT !.next = IF j = p THEN n ELSE @, !.prev = IF j = n THEN p ELSE @]
    BY <2>3
  <2>8. ASSUME NEW j \in InUse \ {i}
        PROVE  /\ node'[j] \in Node
               /\ node'[j].next = (IF j = p THEN n ELSE node[j].next)
               /\ node'[j].prev = (IF j = n THEN p ELSE node[j].prev)
               /\ node'[j].count = node[j].count /\ node'[j].writer = node[j].writer
    <3>1. node[j] \in Node /\ j \in Inode \ {i} /\ n \in Inode \cup {0} /\ p \in Inode \cup {0}
      BY <1>0, <2>4, NodeFacts
    <3>2. PICK x : x = IF j = p THEN n ELSE node[j].next
      OBVIOUS
    <3>3. PICK y : y = IF j = n THEN p ELSE node[j].prev
      OBVIOUS
    <3>4. x \in Inode \cup {0} /\ y \in Inode \cup {0}
      BY <3>1, <3>2, <3>3 DEF Node
    <3>5. node'[j] = Relinked(node[j], x, y)
      BY <2>7, <3>1, <3>2, <3>3 DEF Relinked, Node
    <3>6. /\ node'[j] \in Node /\ node'[j].next = x /\ node'[j].prev = y
          /\ node'[j].count = node[j].count /\ node'[j].writer = node[j].writer
      <4>1. PICK v : v = node[j]
        OBVIOUS
      <4>2. PICK f : f = node'[j]
        OBVIOUS
      <4>3. f = Relinked(v, x, y) /\ v \in Node
        BY <3>1, <3>5, <4>1, <4>2
      <4>4. WithLinks(f, v, x, y)
        BY <3>4, <4>3, RelinkedNode
      <4> QED BY <4>1, <4>2, <4>4 DEF WithLinks
    <3> QED BY <3>2, <3>3, <3>6
  <2>9. ASSUME NEW j \in Inode \ {i}, j \notin InUse PROVE node'[j] = NoNode /\ node[j] = NoNode
    <3>1. node[j] = NoNode /\ j # p /\ j # n
      BY <1>0, <2>4, <2>9, NodeFacts
    <3>2. node'[j] = [NoNode EXCEPT !.next = @, !.prev = @]
      BY <2>7, <3>1
    <3> QED BY <3>1, <3>2 DEF NoNode
  <2>10. node' \in [Inode -> Node \cup {NoNode}]
    <3>1. node' = [j \in Inode |-> node'[j]]
      BY <2>3
    <3>2. \A j \in Inode : node'[j] \in Node \cup {NoNode}
      BY <2>6, <2>8, <2>9
    <3> QED BY <3>1, <3>2
  <2>11. InUse' = InUse \ {i}
    <3>1. \A x \in Node : x # NoNode
      BY DEF Node, NoNode
    <3> QED BY <1>0, <2>6, <2>8, <2>9, <3>1 DEF InUse
  <2>12. NodeInv'
    <3>1. PICK nx : nx = NextOf(node)
      OBVIOUS
    <3>2. PICK pv : pv = PrevOf(node)
      OBVIOUS
    <3>3. PICK nx2 : nx2 = NextOf(node)'
      OBVIOUS
    <3>4. PICK pv2 : pv2 = PrevOf(node)'
      OBVIOUS
    <3>5. /\ Chained(InUse, Id, opened, nx, pv) /\ nx[i] = n /\ pv[i] = p
          /\ \A j \in InUse : nx[j] = node[j].next /\ pv[j] = node[j].prev
      BY <1>0, <2>1, <2>2, <3>1, <3>2, NodeFacts DEF NodeInv
    <3>6. /\ \A j \in InUse \ {i} : nx2[j] = node'[j].next /\ pv2[j] = node'[j].prev
      BY <1>0, <2>10, <3>3, <3>4 DEF NextOf, PrevOf
    <3>7. /\ \A j \in InUse \ {i} : nx2[j] = IF j = pv[i] THEN nx[i] ELSE nx[j]
          /\ \A j \in InUse \ {i} : pv2[j] = IF j = nx[i] THEN pv[i] ELSE pv[j]
      BY <2>8, <3>5, <3>6
    <3>8. PICK h : h = opened'
      OBVIOUS
    <3>9. h = IF i = opened THEN nx[i] ELSE opened
      BY <2>5, <3>5, <3>8
    <3>12. Parted(InUse, opened, nx, pv, i, h, nx2, pv2)
      BY <3>7, <3>9 DEF Parted
    <3>10. Chained(InUse \ {i}, Id, h, nx2, pv2)
      BY <3>5, <3>12, TakenOut
    <3>11. Id' = Id
      BY DEF Id
    <3> QED BY <2>11, <3>3, <3>4, <3>8, <3>10, <3>11 DEF NodeInv
  <2>13. Notes(i, 0, 0)
    <3>1. node'[i].count = 0 /\ node'[i].writer = 0
      BY <2>6 DEF NoNode
    <3>2. ASSUME NEW j \in Inode \ {i} PROVE node'[j].count = node[j].count /\ node'[j].writer = node[j].writer
      BY <2>8, <2>9
    <3> QED BY <3>1, <3>2 DEF Notes
  <2>14. NodesOK'
    BY <2>5, <2>10, <2>12 DEF NodesOK
  <2> QED BY <1>1, <1>3, <1>8, <2>13, <2>14
<1> QED BY <1>3, <1>7, <1>8
-----------------------------------------------------------------------------
(* Who uses an inode *)

LEMMA DevFacts ==
  ASSUME DevsOK
  PROVE  /\ OpenDevs \subseteq Addr /\ \A d \in OpenDevs : dev[d] \in Device
         /\ \A d \in Addr \ OpenDevs : dev[d] = NoDev
         /\ \A x \in Device : x # NoDev
BY DEF DevsOK, OpenDevs, Device, NoDev, Kinds

LEMMA UsersFinite == \A i : Users(i) \subseteq Addr /\ IsFiniteSet(Users(i)) /\ Cardinality(Users(i)) \in Nat
<1>1. \A i : Users(i) \subseteq Addr
  BY DEF Users, OpenDevs
<1> QED BY <1>1, Addresses, FS_Subset, FS_CardinalityType

\* Who has an inode open, and who of them writes.
Writers(i) == {d \in Users(i) : dev[d].rw}

LEMMA KnownFacts ==
  ASSUME NEW i, UsersKnown(i)
  PROVE  /\ node[i].count = Cardinality(Users(i)) /\ Writers(i) = {node[i].writer} \ {0}
         /\ Users(i) = {} <=> node[i].count = 0
BY UsersFinite, FS_EmptySet DEF UsersKnown, Writers

\* What the coming and the going of device d change of the users of inodes.
Comes(i, rw, d) ==
    /\ Users(i)' = Users(i) \cup {d} /\ d \notin Users(i)
    /\ Writers(i)' = Writers(i) \cup (IF rw THEN {d} ELSE {})
    /\ \A j \in Inode \ {i} : Users(j)' = Users(j) /\ Writers(j)' = Writers(j)

Goes(i, d) ==
    /\ Users(i)' = Users(i) \ {d} /\ d \in Users(i)
    /\ Writers(i)' = Writers(i) \ {d}
    /\ \A j \in Inode \ {i} : Users(j)' = Users(j) /\ Writers(j)' = Writers(j)

IsAt(d, o) == dev'[d] # NoDev /\ dev'[d].owner = o /\ \A x \in Addr \ {d} : dev'[x] = dev[x]

\* A device comes to an address that was free.
LEMMA Arrived ==
  ASSUME DevsOK, NEW i \in Inode, NEW rw \in BOOLEAN, NEW o \in Kinds, NEW d \in Addr, d \notin OpenDevs,
         dev' = [dev EXCEPT ![d] = [inode |-> i, rw |-> rw, owner |-> o]]
  PROVE  /\ DevsOK' /\ OpenDevs' = OpenDevs \cup {d} /\ Comes(i, rw, d)
         /\ IsAt(d, o)
<1>1. PICK v : v = [inode |-> i, rw |-> rw, owner |-> o]
  OBVIOUS
<1>2. v \in Device /\ v.inode = i /\ v.rw = rw /\ v.owner = o /\ v # NoDev
  BY <1>1, DevFacts DEF Device
<1>3. dev' = [dev EXCEPT ![d] = v]
  BY <1>1
<1>4. dev'[d] = v /\ \A x \in Addr \ {d} : dev'[x] = dev[x]
  BY <1>3 DEF DevsOK
<1>5. DevsOK'
  BY <1>2, <1>3 DEF DevsOK
<1>6. OpenDevs' = OpenDevs \cup {d}
  BY <1>2, <1>4 DEF OpenDevs
<1>7. ASSUME NEW x \in Addr, x # d PROVE \A j : (x \in Users(j)' <=> x \in Users(j)) /\ (x \in Writers(j)' <=> x \in Writers(j))
  BY <1>4, <1>6, <1>7 DEF Users, Writers
<1>8. \A j : /\ d \in Users(j)' <=> j = i
             /\ d \in Writers(j)' <=> j = i /\ rw
             /\ d \notin Users(j) /\ d \notin Writers(j)
  BY <1>2, <1>4, <1>6 DEF Users, Writers
<1>9. \A j : Users(j)' \subseteq Addr /\ Writers(j)' \subseteq Addr /\ Users(j) \subseteq Addr /\ Writers(j) \subseteq Addr
  BY DEF Users, Writers, OpenDevs
<1>10. Users(i)' = Users(i) \cup {d} /\ Writers(i)' = Writers(i) \cup (IF rw THEN {d} ELSE {})
  BY <1>7, <1>8, <1>9
<1>11. \A j \in Inode \ {i} : Users(j)' = Users(j) /\ Writers(j)' = Writers(j)
  BY <1>7, <1>8, <1>9
<1>12. Comes(i, rw, d)
  BY <1>8, <1>10, <1>11 DEF Comes
<1>13. IsAt(d, o)
  BY <1>2, <1>4 DEF IsAt
<1> QED BY <1>5, <1>6, <1>12, <1>13

\* The device at an address goes.
LEMMA Gone ==
  ASSUME DevsOK, NEW d \in OpenDevs, NEW i, i = dev[d].inode, dev' = [dev EXCEPT ![d] = NoDev]
  PROVE  /\ DevsOK' /\ OpenDevs' = OpenDevs \ {d} /\ i \in Inode /\ Goes(i, d)
         /\ dev'[d] = NoDev /\ \A x \in Addr \ {d} : dev'[x] = dev[x]
<1>1. dev'[d] = NoDev /\ (\A x \in Addr \ {d} : dev'[x] = dev[x]) /\ d \in Addr
  BY DevFacts DEF DevsOK
<1>2. DevsOK'
  BY DEF DevsOK
<1>3. OpenDevs' = OpenDevs \ {d}
  BY <1>1 DEF OpenDevs
<1>4. ASSUME NEW x \in Addr, x # d PROVE \A j : (x \in Users(j)' <=> x \in Users(j)) /\ (x \in Writers(j)' <=> x \in Writers(j))
  BY <1>1, <1>3, <1>4 DEF Users, Writers
<1>5. \A j : /\ d \notin Users(j)' /\ d \notin Writers(j)'
             /\ d \in Users(j) <=> j = i
             /\ d \in Writers(j) => j = i
  BY <1>3 DEF Users, Writers
<1>6. \A j : Users(j)' \subseteq Addr /\ Writers(j)' \subseteq Addr /\ Users(j) \subseteq Addr /\ Writers(j) \subseteq Addr
  BY DEF Users, Writers, OpenDevs
<1>7. Users(i)' = Users(i) \ {d} /\ Writers(i)' = Writers(i) \ {d}
  BY <1>4, <1>5, <1>6
<1>8. \A j \in Inode \ {i} : Users(j)' = Users(j) /\ Writers(j)' = Writers(j)
  BY <1>4, <1>5, <1>6
<1>9. i \in Inode
  BY DevFacts DEF Device
<1>10. Goes(i, d)
  BY <1>5, <1>7, <1>8 DEF Goes
<1> QED BY <1>1, <1>2, <1>3, <1>9, <1>10

\* The inode notes one user more; one who writes is let in only where nobody does.
LEMMA UseInodeStep ==
  ASSUME NodesOK, DevsOK, NEW i \in Inode, NEW d \in Addr, d \notin OpenDevs, NEW rw \in BOOLEAN,
         UsersKnown(i), UseInode(i, d, rw)
  PROVE  /\ NodesOK' /\ Notes(i, node[i].count + 1, IF rw THEN d ELSE node[i].writer)
         /\ rw => node[i].writer = 0
<1>0. node \in [Inode -> Node \cup {NoNode}] /\ node[i].count \in Nat /\ node[i].writer \in Addr \cup {0}
  BY NodeCount DEF NodesOK
<1>1. node[i].writer # d
  <2>1. d \notin Writers(i) /\ d # 0
    BY Addresses DEF Writers, Users
  <2> QED BY <2>1, KnownFacts
<1>2. CASE i \notin InUse
  <2>1. node[i].count = 0 /\ node[i].writer = 0
    BY <1>0, <1>2, NodeFacts DEF NoNode
  <2>2. PICK w : w = IF rw THEN d ELSE 0
    OBVIOUS
  <2>3. w \in Addr \cup {0}
    BY <2>2
  <2>4. ~IsOpened(i)
    BY <1>2, PassedIs
  <2>5. Insert(i, [NoNode EXCEPT !.count = 1, !.writer = w])
    BY <2>2, <2>4 DEF UseInode
  <2>6. NodesOK' /\ Notes(i, 1, w)
    BY <1>2, <2>3, <2>5, InsertStep
  <2> QED BY <2>1, <2>2, <2>6
<1>3. CASE i \in InUse
  <2>1. IsOpened(i)
    BY <1>3, PassedIs
  <2>2. PICK w : w = IF rw THEN d ELSE node[i].writer
    OBVIOUS
  <2>3. PICK c : c = node[i].count + 1
    OBVIOUS
  <2>4. w \in Addr \cup {0} /\ c \in Nat \ {0}
    BY <1>0, <2>2, <2>3
  <2>5. /\ rw => node[i].writer \in {0, d}
        /\ node' = [node EXCEPT
               ![i].count = IF rw /\ node[i].writer = d THEN @ ELSE @ + 1,
               ![i].writer = IF @ = 0 /\ rw THEN d ELSE @]
        /\ opened' = opened
    BY <2>1 DEF UseInode
  <2>6. rw => node[i].writer = 0
    BY <1>1, <2>5
  <2>7. node[i] \in Node
    BY <1>0, <1>3, NodeFacts
  <2>8. node' = [node EXCEPT ![i].count = c, ![i].writer = w]
    <3>1. PICK c2 : c2 = IF rw /\ node[i].writer = d THEN node[i].count ELSE node[i].count + 1
      OBVIOUS
    <3>2. PICK w2 : w2 = IF node[i].writer = 0 /\ rw THEN d ELSE node[i].writer
      OBVIOUS
    <3>3. c2 = c /\ w2 = w
      BY <1>1, <2>2, <2>3, <2>6, <3>1, <3>2
    <3>4. node' = [node EXCEPT ![i].count = c2, ![i].writer = w2]
      BY <1>0, <2>5, <2>7, <3>1, <3>2 DEF Node
    <3> QED BY <3>3, <3>4
  <2>9. NodesOK' /\ Notes(i, c, w)
    BY <1>3, <2>4, <2>5, <2>8, SameLinks
  <2> QED BY <2>2, <2>3, <2>6, <2>9
<1> QED BY <1>2, <1>3

LEMMA OpenKnown ==
  ASSUME NodesOK, DevsOK, NEW i \in Inode, NEW rw \in BOOLEAN, NEW o \in Kinds, NEW d \in Addr,
         d \notin OpenDevs, \A j \in Inode : UsersKnown(j), UseInode(i, d, rw),
         dev' = [dev EXCEPT ![d] = [inode |-> i, rw |-> rw, owner |-> o]]
  PROVE  NodesOK' /\ \A j \in Inode : UsersKnown(j)'
<1>1. /\ NodesOK' /\ Notes(i, node[i].count + 1, IF rw THEN d ELSE node[i].writer)
      /\ rw => node[i].writer = 0
  BY UseInodeStep
<1>2. /\ Users(i)' = Users(i) \cup {d} /\ d \notin Users(i)
      /\ Writers(i)' = Writers(i) \cup (IF rw THEN {d} ELSE {})
      /\ \A j \in Inode \ {i} : Users(j)' = Users(j) /\ Writers(j)' = Writers(j)
  <2>1. Comes(i, rw, d)
    BY Arrived
  <2> QED BY <2>1 DEF Comes
<1>3. node'[i].count = Cardinality(Users(i)')
  <2>1. Cardinality(Users(i) \cup {d}) = Cardinality(Users(i)) + 1
    BY <1>2, UsersFinite, FS_AddElement
  <2>2. node[i].count = Cardinality(Users(i)) /\ node'[i].count = node[i].count + 1
    BY <1>1, KnownFacts DEF Notes
  <2> QED BY <1>2, <2>1, <2>2
<1>4. Writers(i)' = {node'[i].writer} \ {0}
  <2>1. Writers(i) = {node[i].writer} \ {0} /\ node'[i].writer = IF rw THEN d ELSE node[i].writer
    BY <1>1, KnownFacts DEF Notes
  <2> QED BY <1>1, <1>2, <2>1, Addresses
<1>5. UsersKnown(i)'
  BY <1>3, <1>4 DEF UsersKnown, Writers
<1>6. ASSUME NEW j \in Inode \ {i} PROVE UsersKnown(j)'
  <2>1. node'[j].count = node[j].count /\ node'[j].writer = node[j].writer
    BY <1>1 DEF Notes
  <2>2. node[j].count = Cardinality(Users(j)) /\ Writers(j) = {node[j].writer} \ {0}
    BY KnownFacts
  <2> QED BY <1>2, <2>1, <2>2 DEF UsersKnown, Writers
<1> QED BY <1>1, <1>5, <1>6

LEMMA CloseKnown ==
  ASSUME NodesOK, DevsOK, NEW d \in OpenDevs, \A j \in Inode : UsersKnown(j),
         CloseInode(dev[d].inode, d), dev' = [dev EXCEPT ![d] = NoDev]
  PROVE  NodesOK' /\ \A j \in Inode : UsersKnown(j)'
<1>0. PICK i : i = dev[d].inode
  OBVIOUS
<1>1. /\ Users(i)' = Users(i) \ {d} /\ d \in Users(i) /\ i \in Inode
      /\ Writers(i)' = Writers(i) \ {d}
      /\ \A j \in Inode \ {i} : Users(j)' = Users(j) /\ Writers(j)' = Writers(j)
  <2>1. i \in Inode /\ Goes(i, d)
    BY <1>0, Gone
  <2> QED BY <2>1 DEF Goes
<1>2. /\ node[i].count = Cardinality(Users(i)) /\ Writers(i) = {node[i].writer} \ {0}
      /\ node[i].count # 0 /\ node[i].count \in Nat
  BY <1>1, KnownFacts, UsersFinite
<1>3. i \in InUse
  BY <1>1, <1>2, NodeCount DEF NodesOK
<1>4. /\ NodesOK'
      /\ Notes(i, node[i].count - 1, IF node[i].count = 1 \/ node[i].writer = d THEN 0 ELSE node[i].writer)
  BY <1>0, <1>3, CloseInodeStep
<1>5. Cardinality(Users(i) \ {d}) = Cardinality(Users(i)) - 1
  BY <1>1, UsersFinite, FS_RemoveElement
<1>6. node'[i].count = Cardinality(Users(i)')
  BY <1>1, <1>2, <1>4, <1>5 DEF Notes
<1>7. Writers(i)' = {node'[i].writer} \ {0}
  <2>1. node'[i].writer = IF node[i].count = 1 \/ node[i].writer = d THEN 0 ELSE node[i].writer
    BY <1>4 DEF Notes
  <2>2. CASE node[i].count = 1
    <3>1. Users(i) \ {d} = {}
      BY <1>2, <1>5, <2>2, UsersFinite, FS_EmptySet, FS_Subset
    <3>2. Writers(i) \subseteq Users(i)
      BY DEF Writers
    <3> QED BY <1>1, <2>1, <2>2, <3>1, <3>2
  <2>3. CASE node[i].count # 1
    BY <1>1, <1>2, <2>1, <2>3
  <2> QED BY <2>2, <2>3
<1>8. UsersKnown(i)'
  BY <1>6, <1>7 DEF UsersKnown, Writers
<1>9. ASSUME NEW j \in Inode \ {i} PROVE UsersKnown(j)'
  <2>1. node'[j].count = node[j].count /\ node'[j].writer = node[j].writer
    BY <1>4 DEF Notes
  <2>2. node[j].count = Cardinality(Users(j)) /\ Writers(j) = {node[j].writer} \ {0}
    BY KnownFacts
  <2> QED BY <1>1, <2>1, <2>2 DEF UsersKnown, Writers
<1> QED BY <1>4, <1>8, <1>9

\* Where no device is open no inode is in use.
LEMMA NobodyLeft ==
  ASSUME NodesOK, \A j \in Inode : UsersKnown(j), OpenDevs = {}
  PROVE  opened = 0 /\ InUse = {}
<1>1. \A j \in Inode : node[j].count = 0
  BY KnownFacts DEF Users
<1>2. InUse = {}
  BY <1>1, NodeCount DEF NodesOK, InUse
<1> QED BY <1>2, Neighbours
-----------------------------------------------------------------------------
(* The closers list *)

\* From l to m: entry a comes, or goes; the others are for what they were for.
ComesTo(l, m, a, t, d) ==
    /\ a \in Addr \ Live(l.entry) /\ Live(m.entry) = Live(l.entry) \cup {a}
    /\ m.entry[a].type = t /\ m.entry[a].item = d
    /\ \A b \in Live(l.entry) : m.entry[b].type = l.entry[b].type /\ m.entry[b].item = l.entry[b].item

GoesFrom(l, m, a) ==
    /\ a \in Live(l.entry) /\ Live(m.entry) = Live(l.entry) \ {a}
    /\ \A b \in Live(m.entry) : m.entry[b].type = l.entry[b].type /\ m.entry[b].item = l.entry[b].item

LEMMA EntryFacts ==
  ASSUME NEW c \in [Addr -> Entry \cup {NoEntry}]
  PROVE  /\ \A a \in Live(c) : a \in Addr /\ c[a] \in Entry
         /\ \A a \in Addr \ Live(c) : c[a] = NoEntry
         /\ DOMAIN NextOf(c) = Addr /\ DOMAIN PrevOf(c) = Addr
         /\ \A a \in Addr : NextOf(c)[a] = c[a].next /\ PrevOf(c)[a] = c[a].prev
         /\ Live(c) \subseteq Addr
         /\ \A x \in Entry : x # NoEntry
BY DEF Live, NextOf, PrevOf, Entry, NoEntry, Kinds

\* What is ranked differently, or linked differently, elsewhere only.
LEMMA SameChain ==
  ASSUME NEW E, NEW r, NEW h, NEW nx, NEW pv, Chained(E, r, h, nx, pv),
         NEW r2, NEW nx2, NEW pv2,
         \A a \in E : r2[a] = r[a] /\ nx2[a] = nx[a] /\ pv2[a] = pv[a]
  PROVE  Chained(E, r2, h, nx2, pv2)
<1>1. 0 \notin E /\ Ranked(E, r2) /\ IsHead(E, r2, h)
  BY DEF Chained, Ranked, IsHead
<1>2. ASSUME NEW a \in E PROVE Behind(E, r2, a, nx2[a]) /\ Before(E, r2, a, pv2[a])
  <2>1. PICK x : x = nx[a]
    OBVIOUS
  <2>2. PICK y : y = pv[a]
    OBVIOUS
  <2>3. Behind(E, r, a, x) /\ Before(E, r, a, y) /\ nx2[a] = x /\ pv2[a] = y
    BY <2>1, <2>2 DEF Chained
  <2>4. Behind(E, r2, a, x)
    BY <2>3 DEF Behind
  <2>5. Before(E, r2, a, y)
    BY <2>3 DEF Before
  <2> QED BY <2>3, <2>4, <2>5
<1> QED BY <1>1, <1>2 DEF Chained

\* The loops over the list see every entry.
LEMMA ListedIs ==
  ASSUME NEW l, ListOK(l), Listing(l.entry, l.head)
  PROVE  /\ Listed(l) = Live(l.entry)
         /\ Reach(NextOf(l.entry), l.head) = Live(l.entry)
         /\ l.head = 0 <=> Live(l.entry) = {}
         /\ l.head # 0 => l.head \in Live(l.entry)
         /\ \A a \in Live(l.entry) : l.entry[a].prev = 0 <=> a = l.head
<1>1. PICK c : c = l.entry
  OBVIOUS
<1>2. PICK h : h = l.head
  OBVIOUS
<1>3. c \in [Addr -> Entry \cup {NoEntry}] /\ Listing(c, h)
  BY <1>1, <1>2 DEF ListOK
<1>4. PICK E : E = Live(c)
  OBVIOUS
<1>5. PICK nx : nx = NextOf(c)
  OBVIOUS
<1>6. PICK pv : pv = PrevOf(c)
  OBVIOUS
<1>7. PICK r : Chained(E, r, h, nx, pv)
  BY <1>3, <1>4, <1>5, <1>6 DEF Listing
<1>8. /\ E \subseteq Addr /\ DOMAIN nx = Addr /\ DOMAIN pv = Addr
      /\ \A a \in E : pv[a] = c[a].prev
  BY <1>3, <1>4, <1>5, <1>6, EntryFacts
<1>9. 0 \notin E /\ IsHead(E, r, h)
  BY <1>7 DEF Chained
<1>10. Reach(nx, h) = E
  BY <1>7, <1>8, ReachAll
<1>11. Reach(pv, h) = E \cap {h} /\ (h = 0 => E = {})
  BY <1>7, <1>8, ReachBack
<1>12. h = 0 <=> E = {}
  BY <1>9 DEF IsHead
<1>13. h # 0 => h \in E
  BY <1>9 DEF IsHead
<1>14. \A a \in E : pv[a] = 0 <=> a = h
  BY <1>7, BothWays
<1>15. UNION {Reach(nx, a) : a \in Reach(pv, h)} = E
  <2>1. CASE E = {}
    BY <1>11, <2>1
  <2>2. CASE E # {}
    <3>1. Reach(pv, h) = {h}
      BY <1>11, <1>12, <1>13, <2>2
    <3> QED BY <1>10, <3>1
  <2> QED BY <2>1, <2>2
<1> QED BY <1>1, <1>2, <1>4, <1>5, <1>6, <1>8, <1>10, <1>12, <1>13, <1>14, <1>15 DEF Listed

\* A new entry comes at the end of the list.
LEMMA AddedIs ==
  ASSUME NEW l, ListOK(l), Listing(l.entry, l.head), CanTake(l.pool), NEW d \in Addr,
         NEW m, m = Added(l, d)
  PROVE  ListOK(m) /\ Listing(m.entry, m.head) /\ \E a : ComesTo(l, m, a, "dev", d)
<1>1. PICK c : c = l.entry
  OBVIOUS
<1>2. PICK h : h = l.head
  OBVIOUS
<1>3. PICK a : a = Taken(l.pool)
  OBVIOUS
<1>4. PICK q : q = Take(l.pool)
  OBVIOUS
<1>5. /\ c \in [Addr -> Entry \cup {NoEntry}] /\ Listing(c, h) /\ h \in Addr \cup {0}
      /\ PoolOK(l.pool) /\ l.pool.used = Live(c)
  BY <1>1, <1>2 DEF ListOK
<1>6. a \in Addr /\ a \notin Live(c) /\ PoolOK(q) /\ q.used = Live(c) \cup {a} /\ a # 0 /\ a \in Nat
  BY <1>3, <1>4, <1>5, TakeFacts, Addresses
<1>7. PICK nx : nx = NextOf(c)
  OBVIOUS
<1>8. PICK pv : pv = PrevOf(c)
  OBVIOUS
<1>9. PICK E : E = Live(c)
  OBVIOUS
<1>10. /\ E \subseteq Addr /\ 0 \notin E
       /\ \A b \in E : nx[b] = c[b].next /\ pv[b] = c[b].prev /\ c[b] \in Entry
       /\ \A b \in Addr \ E : c[b] = NoEntry
  BY <1>5, <1>7, <1>8, <1>9, EntryFacts, Addresses
<1>11. Reach(nx, h) = E /\ (h = 0 <=> E = {}) /\ (h # 0 => h \in E)
  BY <1>1, <1>2, <1>7, <1>9, ListedIs
<1>12. PICK n \in Nat, r \in [Addr -> Nat] : (\A b \in Addr : r[b] < n) /\ Chained(E, r, h, nx, pv)
  BY <1>5, <1>7, <1>8, <1>9 DEF Listing
<1>13. PICK tail : tail = {b \in Reach(nx, h) : c[b].next = 0}
  OBVIOUS
<1>14. PICK t : t = IF tail = {} THEN 0 ELSE Min(tail)
  OBVIOUS
<1>15. /\ t # 0 => t \in E /\ \A b \in E : r[b] <= r[t]
       /\ t = 0 <=> E = {}
       /\ \A b \in Addr : b \in tail <=> b = t
  <2>1. CASE E = {}
    BY <1>11, <1>13, <1>14, <2>1, Addresses
  <2>2. CASE E # {}
    <3>1. \A b \in E : r[b] <= n
      BY <1>10, <1>12
    <3>2. PICK x \in E : {b \in E : nx[b] = 0} = {x} /\ \A b \in E : r[b] <= r[x]
      BY <1>12, <2>2, <3>1, LastOne
    <3>3. tail = {x}
      BY <1>10, <1>11, <1>13, <3>2
    <3>4. t = x
      BY <1>10, <1>14, <3>2, <3>3, MinOfOne, Addresses
    <3> QED BY <1>10, <2>2, <3>2, <3>3, <3>4
  <2> QED BY <2>1, <2>2
<1>16. PICK new : new = [type |-> "dev", item |-> d, next |-> 0, prev |-> t]
  OBVIOUS
<1>17. PICK e : e = [b \in Addr |-> IF b = a THEN new
                                    ELSE IF b \in tail THEN [c[b] EXCEPT !.next = a] ELSE c[b]]
  OBVIOUS
<1>18. PICK g : g = IF h = 0 THEN a ELSE h
  OBVIOUS
<1>19. m = [head |-> g, pool |-> q, entry |-> e]
  BY <1>1, <1>2, <1>3, <1>4, <1>7, <1>13, <1>14, <1>16, <1>17, <1>18 DEF Added
<1>20. m.head = g /\ m.pool = q /\ m.entry = e /\ m = [head |-> m.head, entry |-> m.entry, pool |-> m.pool]
  BY <1>19
<1>21. new \in Entry
  BY <1>10, <1>15, <1>16 DEF Entry, Kinds
<1>22. e[a] = new
  BY <1>6, <1>17
<1>23. ASSUME NEW b \in E
       PROVE  /\ e[b] \in Entry /\ e[b].type = c[b].type /\ e[b].item = c[b].item
              /\ e[b].next = (IF b = t THEN a ELSE c[b].next) /\ e[b].prev = c[b].prev
  <2>1. c[b] \in Entry /\ b \in Addr /\ b # a
    BY <1>6, <1>9, <1>10
  <2>2. CASE b = t
    <3>1. e[b] = [c[b] EXCEPT !.next = a]
      BY <1>15, <1>17, <2>1, <2>2
    <3> QED BY <1>6, <2>1, <2>2, <3>1 DEF Entry
  <2>3. CASE b # t
    <3>1. e[b] = c[b]
      BY <1>15, <1>17, <2>1, <2>3
    <3> QED BY <2>1, <2>3, <3>1
  <2> QED BY <2>2, <2>3
<1>24. ASSUME NEW b \in Addr \ E, b # a PROVE e[b] = NoEntry
  <2>1. b # t
    BY <1>15, <1>24, Addresses
  <2> QED BY <1>10, <1>15, <1>17, <1>24, <2>1
<1>25. e \in [Addr -> Entry \cup {NoEntry}]
  <2>1. e = [b \in Addr |-> e[b]]
    BY <1>17
  <2>2. \A b \in Addr : e[b] \in Entry \cup {NoEntry}
    BY <1>21, <1>22, <1>23, <1>24
  <2> QED BY <2>1, <2>2
<1>26. Live(e) = E \cup {a}
  <2>1. \A x \in Entry : x # NoEntry
    BY <1>5, EntryFacts
  <2>2. ASSUME NEW b \in Addr PROVE e[b] # NoEntry <=> b \in E \cup {a}
    BY <1>21, <1>22, <1>23, <1>24, <2>1
  <2>3. E \cup {a} \subseteq Addr
    BY <1>6, <1>10
  <2> QED BY <2>2, <2>3 DEF Live
<1>27. g \in Addr \cup {0}
  BY <1>5, <1>6, <1>18
<1>28. ListOK(m)
  BY <1>6, <1>9, <1>20, <1>25, <1>26, <1>27 DEF ListOK
<1>29. ComesTo(l, m, a, "dev", d)
  <2>1. e[a].type = "dev" /\ e[a].item = d
    BY <1>16, <1>22
  <2> QED BY <1>1, <1>6, <1>9, <1>20, <1>23, <1>26, <2>1 DEF ComesTo
<1>30. Listing(e, g)
  <2>1. PICK r2 : r2 = [r EXCEPT ![a] = n]
    OBVIOUS
  <2>2. /\ r2 \in [Addr -> Nat] /\ r2[a] = n /\ \A b \in Addr : b # a => r2[b] = r[b]
        /\ \A b \in Addr : r2[b] < n + 1
    <3>1. r2 \in [Addr -> Nat] /\ r2[a] = n /\ \A b \in Addr : b # a => r2[b] = r[b]
      BY <1>6, <1>12, <2>1
    <3>2. ASSUME NEW b \in Addr PROVE r2[b] < n + 1
      <4>1. r[b] \in Nat /\ r[b] < n /\ (r2[b] = n \/ r2[b] = r[b])
        BY <1>12, <3>1
      <4> QED BY <4>1
    <3> QED BY <3>1, <3>2
  <2>3. PICK nx2 : nx2 = NextOf(e)
    OBVIOUS
  <2>4. PICK pv2 : pv2 = PrevOf(e)
    OBVIOUS
  <2>5. Chained(E, r2, h, nx, pv)
    <3>1. \A b \in E : r2[b] = r[b] /\ nx[b] = nx[b] /\ pv[b] = pv[b]
      BY <1>6, <1>9, <1>10, <2>2
    <3> QED BY <1>12, <3>1, SameChain
  <2>6. Ranked(E \cup {a}, r2)
    <3>1. r2[a] = n /\ \A b \in E : r2[b] = r[b] /\ r[b] \in Nat /\ r[b] < n
      BY <1>6, <1>9, <1>10, <1>12, <2>2
    <3>2. \A x, y \in E : r[x] = r[y] => x = y
      BY <1>12 DEF Chained, Ranked
    <3>3. \A x \in E \cup {a} : r2[x] \in Nat
      BY <3>1
    <3>4. \A x, y \in E \cup {a} : r2[x] = r2[y] => x = y
      BY <3>1, <3>2
    <3> QED BY <3>3, <3>4 DEF Ranked
  <2>7. \A b \in E : r2[b] < r2[a] /\ r2[b] = r[b]
    BY <1>6, <1>9, <1>10, <1>12, <2>2
  <2>8. Before(E, r2, a, t)
    <3>1. CASE t = 0
      BY <1>15, <3>1 DEF Before
    <3>2. CASE t # 0
      BY <1>15, <2>7, <3>2 DEF Before
    <3> QED BY <3>1, <3>2
  <2>9. Behind(E, r2, a, 0)
    <3>1. \A b \in E : r2[b] <= r2[a]
      <4>1. \A b \in E : r2[b] \in Nat /\ r2[a] \in Nat
        BY <1>6, <1>10, <2>2
      <4> QED BY <2>7, <4>1
    <3> QED BY <3>1 DEF Behind
  <2>10. \A b \in Addr : nx2[b] = e[b].next /\ pv2[b] = e[b].prev
    BY <1>25, <2>3, <2>4, EntryFacts
  <2>11. Joined(E, h, nx, pv, a, t, 0, g, nx2, pv2)
    <3>1. g = IF t = 0 THEN a ELSE h
      BY <1>11, <1>15, <1>18
    <3>2. nx2[a] = 0 /\ pv2[a] = t
      BY <1>6, <1>16, <1>22, <2>10
    <3>3. \A b \in E : nx2[b] = IF b = t THEN a ELSE nx[b]
      BY <1>10, <1>23, <2>10
    <3>4. \A b \in E : pv2[b] = IF b = 0 THEN a ELSE pv[b]
      BY <1>10, <1>23, <2>10
    <3> QED BY <3>1, <3>2, <3>3, <3>4 DEF Joined
  <2>12. a \notin E /\ a # 0
    BY <1>6, <1>9
  <2>13. Chained(E \cup {a}, r2, g, nx2, pv2)
    BY <2>5, <2>6, <2>8, <2>9, <2>11, <2>12, PutIn
  <2>14. n + 1 \in Nat
    OBVIOUS
  <2> QED BY <1>26, <2>2, <2>3, <2>4, <2>13, <2>14 DEF Listing
<1> QED BY <1>20, <1>28, <1>29, <1>30

\* An entry becomes one of another kind, where it is and for what it is.
LEMMA PromotedIs ==
  ASSUME NEW l, ListOK(l), Listing(l.entry, l.head), NEW t \in Kinds, NEW d,
         NEW a \in Live(l.entry), l.entry[a].type = "dev", l.entry[a].item = d,
         \A b \in Live(l.entry) : l.entry[b].item = d => b = a,
         NEW m, m = Promoted(l, t, d)
  PROVE  /\ ListOK(m) /\ Listing(m.entry, m.head) /\ Live(m.entry) = Live(l.entry)
         /\ m.entry[a].type = t /\ \A b \in Live(l.entry) : m.entry[b].item = l.entry[b].item
         /\ \A b \in Live(l.entry) \ {a} : m.entry[b].type = l.entry[b].type
<1>1. PICK c : c = l.entry
  OBVIOUS
<1>2. /\ c \in [Addr -> Entry \cup {NoEntry}] /\ Listing(c, l.head) /\ PoolOK(l.pool)
      /\ l.pool.used = Live(c) /\ l.head \in Addr \cup {0}
  BY <1>1 DEF ListOK
<1>3. Find(l, "dev", d) = {a}
  <2>1. Listed(l) = Live(c)
    BY <1>1, ListedIs
  <2> QED BY <1>1, <2>1 DEF Find
<1>4. a \in Addr /\ c[a] \in Entry
  BY <1>1, <1>2, EntryFacts
<1>5. PICK f : f = [c[a] EXCEPT !.type = t]
  OBVIOUS
<1>6. f \in Entry /\ f.type = t /\ f.item = c[a].item /\ f.next = c[a].next /\ f.prev = c[a].prev
  BY <1>4, <1>5 DEF Entry
<1>7. PICK e : e = [b \in Addr |-> IF b \in Find(l, "dev", d) THEN [c[b] EXCEPT !.type = t] ELSE c[b]]
  OBVIOUS
<1>8. m = [l EXCEPT !.entry = e]
  BY <1>1, <1>7 DEF Promoted
<1>9. m.head = l.head /\ m.pool = l.pool /\ m.entry = e /\ m = [head |-> m.head, entry |-> m.entry, pool |-> m.pool]
  BY <1>8 DEF ListOK
<1>10. e[a] = f /\ \A b \in Addr \ {a} : e[b] = c[b]
  BY <1>3, <1>4, <1>5, <1>7
<1>11. e \in [Addr -> Entry \cup {NoEntry}]
  <2>1. e = [b \in Addr |-> e[b]]
    BY <1>7
  <2>2. \A b \in Addr : e[b] \in Entry \cup {NoEntry}
    BY <1>2, <1>6, <1>10
  <2> QED BY <2>1, <2>2
<1>12. Live(e) = Live(c)
  <2>1. \A x \in Entry : x # NoEntry
    BY <1>2, EntryFacts
  <2> QED BY <1>4, <1>6, <1>10, <2>1 DEF Live
<1>13. NextOf(e) = NextOf(c) /\ PrevOf(e) = PrevOf(c)
  BY <1>2, <1>4, <1>6, <1>10, <1>11 DEF NextOf, PrevOf
<1>14. Listing(e, l.head)
  BY <1>2, <1>12, <1>13 DEF Listing
<1>15. ListOK(m)
  BY <1>2, <1>9, <1>11, <1>12 DEF ListOK
<1>16. \A b \in Live(c) : b \in Addr /\ e[b].item = c[b].item /\ (b # a => e[b].type = c[b].type)
  BY <1>2, <1>6, <1>10, EntryFacts
<1> QED BY <1>1, <1>6, <1>9, <1>10, <1>12, <1>14, <1>15, <1>16

\* An entry is unlinked and freed.
LEMMA DroppedIs ==
  ASSUME NEW l, ListOK(l), NEW h, Listing(l.entry, h), NEW a \in Live(l.entry), NEW m, m = Dropped(l, a)
  PROVE  /\ ListOK(m) /\ m.head = l.head /\ GoesFrom(l, m, a)
         /\ Listing(m.entry, IF a = h THEN l.entry[a].next ELSE h)
         /\ l.entry[a].next \in Addr \cup {0}
<1>1. PICK c : c = l.entry
  OBVIOUS
<1>2. PICK E : E = Live(c)
  OBVIOUS
<1>3. /\ c \in [Addr -> Entry \cup {NoEntry}] /\ Listing(c, h) /\ PoolOK(l.pool)
      /\ l.pool.used = E /\ l.head \in Addr \cup {0} /\ a \in E
  BY <1>1, <1>2 DEF ListOK
<1>4. PICK nx : nx = NextOf(c)
  OBVIOUS
<1>5. PICK pv : pv = PrevOf(c)
  OBVIOUS
<1>6. /\ \A b \in E : b \in Addr /\ c[b] \in Entry /\ nx[b] = c[b].next /\ pv[b] = c[b].prev
      /\ \A b \in Addr \ E : c[b] = NoEntry
      /\ \A x \in Entry : x # NoEntry
  BY <1>2, <1>3, <1>4, <1>5, EntryFacts
<1>7. PICK n \in Nat, r \in [Addr -> Nat] : (\A b \in Addr : r[b] < n) /\ Chained(E, r, h, nx, pv)
  BY <1>2, <1>3, <1>4, <1>5 DEF Listing
<1>8. PICK x : x = nx[a]
  OBVIOUS
<1>9. PICK y : y = pv[a]
  OBVIOUS
<1>10. /\ x = c[a].next /\ y = c[a].prev /\ x \in Addr \cup {0} /\ y \in Addr \cup {0}
       /\ (x # 0 => x \in E) /\ (y # 0 => y \in E)
  <2>1. x = c[a].next /\ y = c[a].prev /\ c[a] \in Entry
    BY <1>3, <1>6, <1>8, <1>9
  <2>2. x \in Addr \cup {0} /\ y \in Addr \cup {0}
    BY <2>1 DEF Entry
  <2>3. (x # 0 => x \in E) /\ (y # 0 => y \in E)
    BY <1>3, <1>7, <1>8, <1>9, BothWays
  <2> QED BY <2>1, <2>2, <2>3
<1>11. PICK g : g = [Bypassed(c, a) EXCEPT ![a] = NoEntry]
  OBVIOUS
<1>12. PICK q : q = Give(l.pool, a)
  OBVIOUS
<1>13. PoolOK(q) /\ q.used = E \ {a}
  BY <1>3, <1>6, <1>12, GiveFacts
<1>14. m = [l EXCEPT !.entry = g, !.pool = q]
  BY <1>1, <1>11, <1>12 DEF Dropped, ListOK
<1>15. m.head = l.head /\ m.pool = q /\ m.entry = g /\ m = [head |-> m.head, entry |-> m.entry, pool |-> m.pool]
  BY <1>14 DEF ListOK
<1>16. g[a] = NoEntry /\ DOMAIN g = Addr
       /\ \A b \in Addr \ {a} : g[b] = [c[b] EXCEPT !.next = IF y = b THEN x ELSE @, !.prev = IF x = b THEN y ELSE @]
  BY <1>3, <1>6, <1>10, <1>11 DEF Bypassed
<1>17. ASSUME NEW b \in E \ {a}
       PROVE  /\ g[b] \in Entry /\ g[b].type = c[b].type /\ g[b].item = c[b].item
              /\ g[b].next = (IF b = y THEN x ELSE c[b].next) /\ g[b].prev = (IF b = x THEN y ELSE c[b].prev)
  <2>1. PICK u : u = IF b = y THEN x ELSE c[b].next
    OBVIOUS
  <2>2. PICK v : v = IF b = x THEN y ELSE c[b].prev
    OBVIOUS
  <2>3. c[b] \in Entry /\ b \in Addr \ {a}
    BY <1>6
  <2>4. u \in Addr \cup {0} /\ v \in Addr \cup {0}
    BY <1>10, <2>1, <2>2, <2>3 DEF Entry
  <2>5. g[b] = [c[b] EXCEPT !.next = u, !.prev = v]
    BY <1>16, <2>1, <2>2, <2>3 DEF Entry
  <2>6. g[b] \in Entry /\ g[b].type = c[b].type /\ g[b].item = c[b].item /\ g[b].next = u /\ g[b].prev = v
    BY <2>3, <2>4, <2>5 DEF Entry
  <2> QED BY <2>1, <2>2, <2>6
<1>18. ASSUME NEW b \in Addr \ E PROVE g[b] = NoEntry
  <2>1. b # a /\ b # x /\ b # y /\ c[b] = NoEntry
    BY <1>3, <1>6, <1>10, <1>18, Addresses
  <2>2. g[b] = [NoEntry EXCEPT !.next = @, !.prev = @]
    BY <1>16, <2>1
  <2> QED BY <2>2 DEF NoEntry
<1>19. g \in [Addr -> Entry \cup {NoEntry}]
  <2>1. g = [b \in Addr |-> g[b]]
    BY <1>11, <1>16 DEF Bypassed
  <2>2. \A b \in Addr : g[b] \in Entry \cup {NoEntry}
    BY <1>16, <1>17, <1>18
  <2> QED BY <2>1, <2>2
<1>20. Live(g) = E \ {a}
  <2>1. ASSUME NEW b \in Addr PROVE g[b] # NoEntry <=> b \in E \ {a}
    BY <1>6, <1>16, <1>17, <1>18
  <2> QED BY <1>6, <2>1 DEF Live
<1>21. ListOK(m)
  BY <1>3, <1>13, <1>15, <1>19, <1>20 DEF ListOK
<1>22. GoesFrom(l, m, a)
  BY <1>1, <1>2, <1>3, <1>15, <1>17, <1>20 DEF GoesFrom
<1>23. PICK k : k = IF a = h THEN x ELSE h
  OBVIOUS
<1>24. Listing(g, k)
  <2>1. PICK nx2 : nx2 = NextOf(g)
    OBVIOUS
  <2>2. PICK pv2 : pv2 = PrevOf(g)
    OBVIOUS
  <2>3. \A b \in Addr : nx2[b] = g[b].next /\ pv2[b] = g[b].prev
    BY <1>19, <2>1, <2>2, EntryFacts
  <2>4. Parted(E, h, nx, pv, a, k, nx2, pv2)
    <3>1. k = IF a = h THEN nx[a] ELSE h
      BY <1>8, <1>23
    <3>2. \A b \in E \ {a} : nx2[b] = IF b = pv[a] THEN nx[a] ELSE nx[b]
      BY <1>6, <1>8, <1>9, <1>17, <2>3
    <3>3. \A b \in E \ {a} : pv2[b] = IF b = nx[a] THEN pv[a] ELSE pv[b]
      BY <1>6, <1>8, <1>9, <1>17, <2>3
    <3> QED BY <3>1, <3>2, <3>3 DEF Parted
  <2>5. Chained(E \ {a}, r, k, nx2, pv2)
    BY <1>3, <1>7, <2>4, TakenOut
  <2> QED BY <1>7, <1>20, <2>1, <2>2, <2>5 DEF Listing
<1> QED BY <1>1, <1>10, <1>15, <1>21, <1>22, <1>23, <1>24

\* The entry that is looked for goes.
LEMMA DelistedIs ==
  ASSUME NEW l, ListOK(l), Listing(l.entry, l.head), NEW t, NEW d,
         NEW a \in Live(l.entry), l.entry[a].type = t, l.entry[a].item = d,
         \A b \in Live(l.entry) : l.entry[b].item = d => b = a,
         NEW m, m = Delisted(l, t, d)
  PROVE  ListOK(m) /\ Listing(m.entry, m.head) /\ GoesFrom(l, m, a)
<1>1. Find(l, t, d) = {a}
  <2>1. Listed(l) = Live(l.entry)
    BY ListedIs
  <2> QED BY <2>1 DEF Find
<1>2. Min({a}) = a
  <2>1. a \in Nat
    BY Addresses DEF Live
  <2> QED BY <2>1, MinOfOne
<1>3. PICK k : k = Dropped(l, a)
  OBVIOUS
<1>4. /\ ListOK(k) /\ k.head = l.head /\ GoesFrom(l, k, a)
      /\ Listing(k.entry, IF a = l.head THEN l.entry[a].next ELSE l.head)
      /\ l.entry[a].next \in Addr \cup {0}
  BY <1>3, DroppedIs
<1>5. l.entry[a].prev = 0 <=> a = l.head
  BY ListedIs
<1>6. PICK h : h = IF a = l.head THEN l.entry[a].next ELSE l.head
  OBVIOUS
<1>7. m = [k EXCEPT !.head = h]
  <2>1. m = [k EXCEPT !.head = IF @ # a THEN @ ELSE IF l.entry[a].prev # 0 THEN l.entry[a].prev ELSE l.entry[a].next]
    BY <1>1, <1>2, <1>3 DEF Delisted
  <2>2. k = [head |-> k.head, entry |-> k.entry, pool |-> k.pool]
    BY <1>4 DEF ListOK
  <2>3. h = IF k.head # a THEN k.head ELSE IF l.entry[a].prev # 0 THEN l.entry[a].prev ELSE l.entry[a].next
    BY <1>4, <1>5, <1>6
  <2> QED BY <2>1, <2>2, <2>3
<1>8. m.head = h /\ m.entry = k.entry /\ m.pool = k.pool /\ m = [head |-> m.head, entry |-> m.entry, pool |-> m.pool]
  BY <1>4, <1>7 DEF ListOK
<1>9. h \in Addr \cup {0}
  BY <1>4, <1>6 DEF ListOK
<1>10. ListOK(m)
  BY <1>4, <1>8, <1>9 DEF ListOK
<1> QED BY <1>4, <1>6, <1>8, <1>10 DEF GoesFrom

\* Nothing is there to be found.
LEMMA DelistedNone ==
  ASSUME NEW l, ListOK(l), Listing(l.entry, l.head), NEW t, NEW d,
         \A b \in Live(l.entry) : l.entry[b].item # d
  PROVE  Delisted(l, t, d) = l
<1>1. Find(l, t, d) = {}
  BY ListedIs DEF Find
<1> QED BY <1>1 DEF Delisted

\* A device has come, and an entry for it.
LEMMA MatchedMore ==
  ASSUME NEW l, NEW m, NEW a, NEW t, NEW d \in Addr, ComesTo(l, m, a, t, d), NEW devs, NEW devs2,
         Matched(l.entry, devs), devs[d] = NoDev, devs2[d] # NoDev, devs2[d].owner = t,
         \A x \in Addr \ {d} : devs2[x] = devs[x], \A b \in Live(l.entry) : l.entry[b].item \in Addr
  PROVE  Matched(m.entry, devs2) /\ \A b \in Live(m.entry) : m.entry[b].item = d => b = a
<1>1. \A b \in Live(l.entry) : /\ l.entry[b].item # d /\ m.entry[b].item = l.entry[b].item
                               /\ m.entry[b].type = l.entry[b].type /\ l.entry[b].item \in Addr
                               /\ devs2[l.entry[b].item] = devs[l.entry[b].item]
  BY DEF Matched, ComesTo
<1>2. \A b \in Live(m.entry) : b \in Live(l.entry) \/ b = a
  BY DEF ComesTo
<1>3. \A b \in Live(m.entry) : devs2[m.entry[b].item] # NoDev /\ m.entry[b].type = devs2[m.entry[b].item].owner
  BY <1>1, <1>2 DEF Matched, ComesTo
<1>4. \A b, c \in Live(m.entry) : m.entry[b].item = m.entry[c].item => b = c
  BY <1>1, <1>2 DEF Matched, ComesTo
<1>5. \A x \in Addr : devs2[x] # NoDev => \E b \in Live(m.entry) : m.entry[b].item = x
  BY <1>1 DEF Matched, ComesTo
<1> QED BY <1>1, <1>2, <1>3, <1>4, <1>5 DEF Matched

\* A device has gone, and its entry.
LEMMA MatchedLess ==
  ASSUME NEW l, NEW m, NEW a, GoesFrom(l, m, a), NEW d, l.entry[a].item = d, NEW devs, NEW devs2,
         Matched(l.entry, devs), devs2[d] = NoDev,
         \A x \in Addr \ {d} : devs2[x] = devs[x], \A b \in Live(l.entry) : l.entry[b].item \in Addr
  PROVE  Matched(m.entry, devs2) /\ \A b \in Live(m.entry) : m.entry[b].item # d
<1>1. \A b \in Live(m.entry) : /\ b \in Live(l.entry) /\ b # a /\ m.entry[b].item = l.entry[b].item
                               /\ m.entry[b].type = l.entry[b].type /\ l.entry[b].item \in Addr
  BY DEF GoesFrom
<1>2. \A b \in Live(m.entry) : m.entry[b].item # d
  BY <1>1 DEF Matched, GoesFrom
<1>3. \A b \in Live(m.entry) : devs2[m.entry[b].item] # NoDev /\ m.entry[b].type = devs2[m.entry[b].item].owner
  BY <1>1, <1>2 DEF Matched
<1>4. \A b, c \in Live(m.entry) : m.entry[b].item = m.entry[c].item => b = c
  BY <1>1 DEF Matched
<1>5. ASSUME NEW x \in Addr, devs2[x] # NoDev PROVE \E b \in Live(m.entry) : m.entry[b].item = x
  <2>1. x # d /\ devs[x] # NoDev
    BY <1>5
  <2>2. PICK b \in Live(l.entry) : l.entry[b].item = x
    BY <2>1 DEF Matched
  <2>3. b \in Live(m.entry)
    BY <2>1, <2>2 DEF GoesFrom
  <2> QED BY <1>1, <2>2, <2>3
<1> QED BY <1>2, <1>3, <1>4, <1>5 DEF Matched

-----------------------------------------------------------------------------
(* The steps *)

LEMMA ItemFacts ==
  ASSUME NEW l, ListOK(l)
  PROVE  \A b \in Live(l.entry) : l.entry[b].item \in Addr /\ l.entry[b].type \in Kinds /\ b \in Addr
<1>1. \A b \in Live(l.entry) : l.entry[b] \in Entry /\ b \in Addr
  BY EntryFacts DEF ListOK
<1> QED BY <1>1 DEF Entry

LEMMA OpenStep ==
  ASSUME HandlesInv, NEW o \in Kinds, NEW i \in Inode, NEW rw \in BOOLEAN, NEW d \in Addr,
         OpenAs(o, i, rw, d),
         closers' = IF o = "dev" THEN Added(closers, d) ELSE Promoted(Added(closers, d), o, d)
  PROVE  HandlesInv'
<1>0. /\ DevsOK /\ DevSlots /\ NodesOK /\ ListOK(closers) /\ doomed \in Addr \cup {0}
      /\ fs = "open" /\ fs' = "open" /\ doomed' = doomed
      /\ Listing(closers.entry, closers.head) /\ Matched(closers.entry, dev)
      /\ \A j \in Inode : UsersKnown(j)
  BY DEF HandlesInv, OpenAs, UseInv, CloserInv, Tidy, Head
<1>1. /\ CanTake(devPool) /\ CanTake(closers.pool) /\ d = Taken(devPool) /\ devPool' = Take(devPool)
      /\ UseInode(i, d, rw) /\ dev' = [dev EXCEPT ![d] = [inode |-> i, rw |-> rw, owner |-> o]]
  BY DEF OpenAs
<1>2. d \notin OpenDevs /\ PoolOK(devPool') /\ devPool'.used = OpenDevs \cup {d}
  BY <1>0, <1>1, TakeFacts DEF DevSlots
<1>3. /\ DevsOK' /\ OpenDevs' = OpenDevs \cup {d}
      /\ dev'[d] # NoDev /\ dev'[d].owner = o /\ \A x \in Addr \ {d} : dev'[x] = dev[x]
  <2>1. dev' = [dev EXCEPT ![d] = [inode |-> i, rw |-> rw, owner |-> o]]
    BY <1>1
  <2>2. d \notin OpenDevs /\ DevsOK
    BY <1>0, <1>2
  <2>3. DevsOK' /\ OpenDevs' = OpenDevs \cup {d} /\ IsAt(d, o)
    BY <2>1, <2>2, Arrived
  <2> QED BY <2>3 DEF IsAt
<1>4. NodesOK' /\ \A j \in Inode : UsersKnown(j)'
  BY <1>0, <1>1, <1>2, OpenKnown
<1>5. DevSlots'
  BY <1>2, <1>3 DEF DevSlots
<1>6. dev[d] = NoDev
  BY <1>0, <1>2, DevFacts
<1>7. PICK devs : devs = dev'
  OBVIOUS
<1>8. PICK l : l = Added(closers, d)
  OBVIOUS
<1>9. PICK a : ListOK(l) /\ Listing(l.entry, l.head) /\ ComesTo(closers, l, a, "dev", d)
  BY <1>0, <1>1, <1>8, AddedIs
<1>10. \A b \in Live(closers.entry) : closers.entry[b].item \in Addr
  BY <1>0, ItemFacts
<1>11. PICK m : m = closers'
  OBVIOUS
<1>12. ListOK(m) /\ Listing(m.entry, m.head) /\ ComesTo(closers, m, a, o, d)
  <2>1. CASE o = "dev"
    <3>1. m = l
      BY <1>8, <1>11, <2>1
    <3> QED BY <1>9, <2>1, <3>1
  <2>2. CASE o # "dev"
    <3>1. m = Promoted(l, o, d)
      BY <1>8, <1>11, <2>2
    <3>2. a \in Live(l.entry) /\ l.entry[a].type = "dev" /\ l.entry[a].item = d
      BY <1>9 DEF ComesTo
    <3>3. \A b \in Live(l.entry) : l.entry[b].item = d => b = a
      <4>1. \A b \in Live(closers.entry) : closers.entry[b].item # d
        BY <1>0, <1>6 DEF Matched
      <4> QED BY <1>9, <4>1 DEF ComesTo
    <3>4. /\ ListOK(m) /\ Listing(m.entry, m.head) /\ Live(m.entry) = Live(l.entry)
          /\ m.entry[a].type = o /\ \A b \in Live(l.entry) : m.entry[b].item = l.entry[b].item
          /\ \A b \in Live(l.entry) \ {a} : m.entry[b].type = l.entry[b].type
      BY <1>9, <3>1, <3>2, <3>3, PromotedIs
    <3>5. ComesTo(closers, m, a, o, d)
      BY <1>9, <3>2, <3>4 DEF ComesTo
    <3> QED BY <3>4, <3>5
  <2> QED BY <2>1, <2>2
<1>13. Matched(m.entry, devs)
  BY <1>0, <1>3, <1>6, <1>7, <1>10, <1>12, MatchedMore
<1>14. ListOK(closers)'
  BY <1>11, <1>12
<1>15. CloserInv'
  BY <1>0, <1>7, <1>11, <1>12, <1>13 DEF CloserInv, Head
<1>16. UseInv'
  BY <1>0, <1>4 DEF UseInv
<1> QED BY <1>0, <1>3, <1>4, <1>5, <1>14, <1>15, <1>16 DEF HandlesInv

\* The device at d goes: its slot, and its use of an inode.
LEMMA FreeDevStep ==
  ASSUME DevsOK, DevSlots, NodesOK, \A j \in Inode : UsersKnown(j), NEW d \in OpenDevs, FreeDev(d)
  PROVE  /\ DevsOK' /\ DevSlots' /\ NodesOK' /\ \A j \in Inode : UsersKnown(j)'
         /\ dev'[d] = NoDev /\ \A x \in Addr \ {d} : dev'[x] = dev[x]
<1>1. CloseInode(dev[d].inode, d) /\ dev' = [dev EXCEPT ![d] = NoDev] /\ devPool' = Give(devPool, d)
  BY DEF FreeDev
<1>2. NodesOK' /\ \A j \in Inode : UsersKnown(j)'
  BY <1>1, CloseKnown
<1>3. DevsOK' /\ OpenDevs' = OpenDevs \ {d} /\ dev'[d] = NoDev /\ \A x \in Addr \ {d} : dev'[x] = dev[x]
  BY <1>1, Gone
<1>4. d \in Addr
  BY DevFacts
<1>5. PoolOK(devPool') /\ devPool'.used = OpenDevs \ {d}
  BY <1>1, <1>4, GiveFacts DEF DevSlots
<1>6. DevSlots'
  BY <1>3, <1>5 DEF DevSlots
<1> QED BY <1>2, <1>3, <1>6

LEMMA CloseStep ==
  ASSUME HandlesInv, NEW o \in Kinds, NEW d \in Addr, CloseAs(o, d),
         closers' = IF o = "dev" THEN Delisted(closers, "dev", d)
                    ELSE Delisted(Delisted(closers, o, d), "dev", d)
  PROVE  HandlesInv'
<1>0. /\ DevsOK /\ DevSlots /\ NodesOK /\ ListOK(closers) /\ doomed \in Addr \cup {0}
      /\ fs = "open" /\ fs' = "open" /\ doomed' = doomed
      /\ Listing(closers.entry, closers.head) /\ Matched(closers.entry, dev)
      /\ \A j \in Inode : UsersKnown(j)
  BY DEF HandlesInv, CloseAs, UseInv, CloserInv, Tidy, Head
<1>1. dev[d].owner = o /\ FreeDev(d)
  BY DEF CloseAs
<1>2. dev[d] # NoDev /\ d \in OpenDevs
  BY <1>1 DEF OpenDevs, Kinds, NoDev
<1>3. /\ DevsOK' /\ DevSlots' /\ NodesOK' /\ \A j \in Inode : UsersKnown(j)'
      /\ dev'[d] = NoDev /\ \A x \in Addr \ {d} : dev'[x] = dev[x]
  BY <1>0, <1>1, <1>2, FreeDevStep
<1>4. PICK a \in Live(closers.entry) : closers.entry[a].item = d
  BY <1>0, <1>2 DEF Matched
<1>5. /\ closers.entry[a].type = o
      /\ \A b \in Live(closers.entry) : closers.entry[b].item = d => b = a
  BY <1>0, <1>1, <1>4 DEF Matched
<1>6. PICK l : l = Delisted(closers, o, d)
  OBVIOUS
<1>7. ListOK(l) /\ Listing(l.entry, l.head) /\ GoesFrom(closers, l, a)
  BY <1>0, <1>4, <1>5, <1>6, DelistedIs
<1>8. PICK devs : devs = dev'
  OBVIOUS
<1>9. \A b \in Live(closers.entry) : closers.entry[b].item \in Addr
  BY <1>0, ItemFacts
<1>10. Matched(l.entry, devs) /\ \A b \in Live(l.entry) : l.entry[b].item # d
  BY <1>0, <1>3, <1>4, <1>7, <1>8, <1>9, MatchedLess
<1>11. closers' = l
  <2>1. CASE o = "dev"
    BY <1>6, <2>1
  <2>2. CASE o # "dev"
    <3>1. Delisted(l, "dev", d) = l
      BY <1>7, <1>10, DelistedNone
    <3> QED BY <1>6, <2>2, <3>1
  <2> QED BY <2>1, <2>2
<1>12. ListOK(closers)'
  BY <1>7, <1>11
<1>13. CloserInv'
  BY <1>0, <1>7, <1>8, <1>10, <1>11 DEF CloserInv, Head
<1>14. UseInv'
  BY <1>0, <1>3 DEF UseInv
<1> QED BY <1>0, <1>3, <1>12, <1>13, <1>14 DEF HandlesInv

LEMMA RefusedStep == ASSUME HandlesInv, OpenRefused PROVE HandlesInv'
<1>1. /\ CanTake(devPool) /\ devPool' = Give(Take(devPool), Taken(devPool))
      /\ UNCHANGED <<dev, closers, node, opened, fs, doomed>>
  BY DEF OpenRefused
<1>2. PoolOK(devPool) /\ devPool.used = OpenDevs
  BY DEF HandlesInv, DevSlots
<1>3. PoolOK(devPool') /\ devPool'.used = OpenDevs
  BY <1>1, <1>2, TakeGive
<1>4. OpenDevs' = OpenDevs
  BY <1>1 DEF OpenDevs
<1>5. DevSlots'
  BY <1>3, <1>4 DEF DevSlots
<1>6. /\ DevsOK' /\ ListOK(closers)' /\ NodesOK'
      /\ fs' \in {"open", "closing", "closed", "leaving", "left"} /\ doomed' \in Addr \cup {0}
  BY <1>1 DEF HandlesInv, DevsOK, ListOK, NodesOK, NodeInv, InUse, Id
<1>7. UseInv' /\ CloserInv'
  BY <1>1, <1>4 DEF HandlesInv, UseInv, CloserInv, Tidy, Head, UsersKnown, Users
<1> QED BY <1>5, <1>6, <1>7 DEF HandlesInv

\* What concerns the devices and the inodes stays as it is.
LEMMA SameDevs ==
  ASSUME HandlesInv, UNCHANGED <<dev, devPool, node, opened>>
  PROVE  /\ DevsOK' /\ DevSlots' /\ NodesOK' /\ OpenDevs' = OpenDevs
         /\ \A j \in Inode : UsersKnown(j) => UsersKnown(j)'
<1>1. OpenDevs' = OpenDevs
  BY DEF OpenDevs
<1>2. DevsOK' /\ DevSlots' /\ NodesOK'
  BY <1>1 DEF HandlesInv, DevsOK, DevSlots, NodesOK, NodeInv, InUse, Id
<1>3. \A j \in Inode : UsersKnown(j) => UsersKnown(j)'
  BY <1>1 DEF UsersKnown, Users
<1> QED BY <1>1, <1>2, <1>3

LEMMA FinalizeStep == ASSUME HandlesInv, Finalize PROVE HandlesInv'
<1>0. /\ ListOK(closers) /\ Listing(closers.entry, closers.head) /\ Matched(closers.entry, dev)
      /\ \A j \in Inode : UsersKnown(j)
  BY DEF HandlesInv, Finalize, UseInv, CloserInv, Tidy, Head
<1>1. /\ fs' = "closing" /\ UNCHANGED <<dev, devPool, node, opened>>
      /\ doomed' = IF closers.head = 0 THEN 0 ELSE Min(First(closers))
      /\ closers' = [closers EXCEPT !.head = 0]
  BY DEF Finalize
<1>2. doomed' = closers.head
  <2>1. CASE closers.head = 0
    BY <1>1, <2>1
  <2>2. CASE closers.head # 0
    <3>1. /\ closers.head \in Live(closers.entry)
          /\ Listed(closers) = Live(closers.entry)
          /\ \A a \in Live(closers.entry) : closers.entry[a].prev = 0 <=> a = closers.head
      BY <1>0, <2>2, ListedIs
    <3>2. First(closers) = {closers.head}
      BY <3>1 DEF First
    <3>3. closers.head \in Nat
      BY <3>1, Addresses DEF Live
    <3> QED BY <1>1, <2>2, <3>2, <3>3, MinOfOne
  <2> QED BY <2>1, <2>2
<1>3. PICK m : m = closers'
  OBVIOUS
<1>4. m.head = 0 /\ m.entry = closers.entry /\ m.pool = closers.pool
      /\ m = [head |-> m.head, entry |-> m.entry, pool |-> m.pool]
  BY <1>0, <1>1, <1>3 DEF ListOK
<1>5. ListOK(m)
  BY <1>0, <1>4 DEF ListOK
<1>6. DevsOK' /\ DevSlots' /\ NodesOK' /\ \A j \in Inode : UsersKnown(j)'
  BY <1>0, <1>1, SameDevs
<1>7. UseInv'
  BY <1>1, <1>6 DEF UseInv
<1>8. PICK h : h = doomed'
  OBVIOUS
<1>9. Listing(m.entry, h) /\ Matched(m.entry, dev)
  BY <1>0, <1>2, <1>4, <1>8
<1>10. CloserInv'
  BY <1>1, <1>3, <1>4, <1>8, <1>9 DEF CloserInv, Head
<1>11. doomed' \in Addr \cup {0}
  BY <1>0, <1>2 DEF ListOK
<1>12. ListOK(closers)'
  BY <1>3, <1>5
<1> QED BY <1>1, <1>6, <1>7, <1>10, <1>11, <1>12 DEF HandlesInv

LEMMA CloseNextStep == ASSUME HandlesInv, CloseNext PROVE HandlesInv'
<1>0. /\ DevsOK /\ DevSlots /\ NodesOK /\ ListOK(closers)
      /\ closers.head = 0 /\ Listing(closers.entry, doomed) /\ Matched(closers.entry, dev)
      /\ \A j \in Inode : UsersKnown(j)
  BY DEF HandlesInv, CloseNext, UseInv, CloserInv, Tidy, Head
<1>1. /\ fs = "closing" /\ fs' = "closing" /\ doomed # 0
      /\ doomed' = closers.entry[doomed].next
      /\ FreeDev(closers.entry[doomed].item)
      /\ closers' = Dropped(closers, doomed)
  BY DEF CloseNext
<1>2. PICK a : a = doomed
  OBVIOUS
<1>3. a \in Live(closers.entry)
  <2>1. PICK r : Chained(Live(closers.entry), r, a, NextOf(closers.entry), PrevOf(closers.entry))
    BY <1>0, <1>2 DEF Listing
  <2> QED BY <1>1, <1>2, <2>1 DEF Chained, IsHead
<1>4. PICK d : d = closers.entry[a].item
  OBVIOUS
<1>5. d \in Addr /\ \A b \in Live(closers.entry) : closers.entry[b].item \in Addr
  BY <1>0, <1>3, <1>4, ItemFacts
<1>6. d \in OpenDevs
  BY <1>0, <1>3, <1>4, <1>5 DEF Matched, OpenDevs
<1>7. FreeDev(d)
  BY <1>1, <1>2, <1>4
<1>8. /\ DevsOK' /\ DevSlots' /\ NodesOK' /\ \A j \in Inode : UsersKnown(j)'
      /\ dev'[d] = NoDev /\ \A x \in Addr \ {d} : dev'[x] = dev[x]
  BY <1>0, <1>6, <1>7, FreeDevStep
<1>9. PICK m : m = closers'
  OBVIOUS
<1>10. PICK h : h = closers.entry[a].next
  OBVIOUS
<1>11. ListOK(m) /\ m.head = 0 /\ GoesFrom(closers, m, a) /\ Listing(m.entry, h) /\ h \in Addr \cup {0}
  <2>1. Listing(closers.entry, a) /\ m = Dropped(closers, a)
    BY <1>0, <1>1, <1>2, <1>9
  <2> QED BY <1>0, <1>3, <1>10, <2>1, DroppedIs
<1>12. PICK devs : devs = dev'
  OBVIOUS
<1>13. Matched(m.entry, devs)
  BY <1>0, <1>4, <1>5, <1>8, <1>11, <1>12, MatchedLess
<1>14. doomed' = h
  BY <1>1, <1>2, <1>10
<1>15. CloserInv'
  BY <1>1, <1>9, <1>11, <1>12, <1>13, <1>14 DEF CloserInv, Head
<1>16. UseInv'
  BY <1>1, <1>8 DEF UseInv
<1>17. ListOK(closers)'
  BY <1>9, <1>11
<1> QED BY <1>1, <1>8, <1>11, <1>14, <1>15, <1>16, <1>17 DEF HandlesInv

LEMMA LeaveStep == ASSUME HandlesInv, FinalizeNoAutoClose PROVE HandlesInv'
<1>0. ListOK(closers) /\ Listing(closers.entry, closers.head) /\ doomed \in Addr \cup {0}
  BY DEF HandlesInv, FinalizeNoAutoClose, CloserInv, Tidy, Head
<1>1. /\ fs' = "leaving" /\ UNCHANGED <<dev, devPool, node, opened, doomed>>
      /\ closers' = IF closers.head = 0 THEN closers ELSE [Dropped(closers, closers.head) EXCEPT !.head = 0]
  BY DEF FinalizeNoAutoClose
<1>2. PICK m : m = closers'
  OBVIOUS
<1>3. ListOK(m) /\ m.head = 0
  <2>1. CASE closers.head = 0
    BY <1>0, <1>1, <1>2, <2>1
  <2>2. CASE closers.head # 0
    <3>1. PICK a : a = closers.head
      OBVIOUS
    <3>2. PICK k : k = Dropped(closers, a)
      OBVIOUS
    <3>3. a \in Live(closers.entry)
      BY <1>0, <2>2, <3>1, ListedIs
    <3>4. ListOK(k)
      BY <1>0, <3>2, <3>3, DroppedIs
    <3>5. m = [k EXCEPT !.head = 0]
      BY <1>1, <1>2, <2>2, <3>1, <3>2
    <3>6. /\ m.head = 0 /\ m.entry = k.entry /\ m.pool = k.pool
          /\ m = [head |-> m.head, entry |-> m.entry, pool |-> m.pool]
      BY <3>4, <3>5 DEF ListOK
    <3> QED BY <3>4, <3>6 DEF ListOK
  <2> QED BY <2>1, <2>2
<1>4. DevsOK' /\ DevSlots' /\ NodesOK'
  BY <1>1, SameDevs
<1>5. UseInv' /\ CloserInv'
  BY <1>1, <1>2, <1>3 DEF UseInv, CloserInv, Tidy
<1>6. ListOK(closers)'
  BY <1>2, <1>3
<1> QED BY <1>0, <1>1, <1>4, <1>5, <1>6 DEF HandlesInv

\* When everything on the list is closed no device is open.
LEMMA AllClosed ==
  ASSUME HandlesInv, fs = "closing", doomed = 0
  PROVE  Live(closers.entry) = {} /\ OpenDevs = {} /\ opened = 0
<1>1. /\ Listing(closers.entry, 0) /\ Matched(closers.entry, dev)
      /\ NodesOK /\ \A j \in Inode : UsersKnown(j)
  BY DEF HandlesInv, UseInv, CloserInv, Tidy, Head
<1>2. PICK r : Chained(Live(closers.entry), r, 0, NextOf(closers.entry), PrevOf(closers.entry))
  BY <1>1 DEF Listing
<1>3. Live(closers.entry) = {}
  BY <1>2 DEF Chained, IsHead
<1>4. OpenDevs = {}
  BY <1>1, <1>3 DEF Matched, OpenDevs
<1> QED BY <1>1, <1>3, <1>4, NobodyLeft

LEMMA CloseOpenedStep == ASSUME HandlesInv, CloseOpened PROVE HandlesInv'
<1>1. /\ fs \in {"closing", "leaving"} /\ doomed = 0 /\ opened # 0
      /\ CloseInode(opened, node[opened].writer)
      /\ UNCHANGED <<dev, devPool, closers, fs, doomed>>
  BY DEF CloseOpened
<1>2. fs = "leaving" /\ fs' = "leaving"
  BY <1>1, AllClosed
<1>3. NodesOK /\ opened \in InUse
  BY <1>1, Neighbours DEF HandlesInv
<1>4. NodesOK'
  <2>1. PICK i : i = opened
    OBVIOUS
  <2>2. PICK d : d = node[opened].writer
    OBVIOUS
  <2>3. i \in InUse /\ CloseInode(i, d)
    BY <1>1, <1>3, <2>1, <2>2
  <2> QED BY <1>3, <2>3, CloseInodeStep
<1>5. OpenDevs' = OpenDevs
  BY <1>1 DEF OpenDevs
<1>6. /\ DevsOK' /\ ListOK(closers)' /\ DevSlots'
      /\ fs' \in {"open", "closing", "closed", "leaving", "left"} /\ doomed' \in Addr \cup {0}
  BY <1>1, <1>5 DEF HandlesInv, DevsOK, ListOK, DevSlots
<1>7. UseInv' /\ CloserInv'
  BY <1>1, <1>2 DEF HandlesInv, UseInv, CloserInv, Tidy
<1> QED BY <1>4, <1>6, <1>7 DEF HandlesInv

LEMMA FinalizedStep == ASSUME HandlesInv, Finalized PROVE HandlesInv'
<1>1. /\ fs \in {"closing", "leaving"} /\ doomed = 0 /\ opened = 0
      /\ fs' = IF fs = "closing" THEN "closed" ELSE "left"
      /\ UNCHANGED <<dev, devPool, closers, node, opened, doomed>>
  BY DEF Finalized
<1>2. /\ DevsOK' /\ DevSlots' /\ NodesOK' /\ OpenDevs' = OpenDevs
      /\ \A j \in Inode : UsersKnown(j) => UsersKnown(j)'
  BY <1>1, SameDevs
<1>3. ListOK(closers)' /\ doomed' \in Addr \cup {0}
  BY <1>1 DEF HandlesInv, ListOK
<1>4. CASE fs = "closing"
  <2>1. OpenDevs = {} /\ closers.head = 0 /\ \A j \in Inode : UsersKnown(j)
    BY <1>1, <1>4, AllClosed DEF HandlesInv, UseInv, CloserInv, Tidy
  <2>2. Listing(closers.entry, 0) /\ Matched(closers.entry, dev)
    BY <1>1, <1>4 DEF HandlesInv, CloserInv, Tidy, Head
  <2>3. fs' = "closed"
    BY <1>1, <1>4
  <2>4. UseInv'
    BY <1>2, <2>1, <2>3 DEF UseInv
  <2>5. CloserInv'
    BY <1>1, <1>2, <2>1, <2>2, <2>3 DEF CloserInv, Head
  <2> QED BY <1>2, <1>3, <2>3, <2>4, <2>5 DEF HandlesInv
<1>5. CASE fs = "leaving"
  <2>1. fs' = "left" /\ closers.head = 0
    BY <1>1, <1>5 DEF HandlesInv, CloserInv
  <2>2. UseInv' /\ CloserInv'
    BY <1>1, <2>1 DEF UseInv, CloserInv, Tidy
  <2> QED BY <1>2, <1>3, <2>1, <2>2 DEF HandlesInv
<1> QED BY <1>1, <1>4, <1>5

LEMMA ReopenStep == ASSUME HandlesInv, Reopen PROVE HandlesInv'
<1>1. /\ fs = "closed" /\ fs' = "open" /\ UNCHANGED <<dev, devPool, closers, node, opened, doomed>>
  BY DEF Reopen
<1>2. /\ DevsOK' /\ DevSlots' /\ NodesOK' /\ OpenDevs' = OpenDevs
      /\ \A j \in Inode : UsersKnown(j) => UsersKnown(j)'
  BY <1>1, SameDevs
<1>3. ListOK(closers)' /\ doomed' \in Addr \cup {0}
  BY <1>1 DEF HandlesInv, ListOK
<1>4. UseInv'
  BY <1>1, <1>2 DEF HandlesInv, UseInv, Tidy
<1>5. CloserInv'
  BY <1>1 DEF HandlesInv, CloserInv, Tidy, Head
<1> QED BY <1>1, <1>2, <1>3, <1>4, <1>5 DEF HandlesInv

-----------------------------------------------------------------------------
(* The theorems *)

LEMMA InitHolds == ASSUME HandlesInit PROVE HandlesInv
<1>1. /\ dev = [a \in Addr |-> NoDev] /\ devPool = NoPool
      /\ closers = [head |-> 0, entry |-> [a \in Addr |-> NoEntry], pool |-> NoPool]
      /\ node = [i \in Inode |-> NoNode] /\ opened = 0 /\ fs = "open" /\ doomed = 0
  BY DEF HandlesInit
<1>2. OpenDevs = {} /\ InUse = {} /\ DevsOK
  BY <1>1 DEF OpenDevs, InUse, DevsOK
<1>3. PoolOK(NoPool) /\ NoPool.used = {}
  <2>1. MaxHandles \in Nat \ {0}
    BY HandlesAssumption
  <2>2. NoPool \in Pool
    BY <2>1 DEF NoPool, Pool
  <2>3. \A a \in 1 .. Slots : ~(a < NoPool.next)
    BY DEF NoPool
  <2> QED BY <2>2, <2>3 DEF PoolOK, NoPool
<1>4. Live(closers.entry) = {}
  BY <1>1 DEF Live
<1>5. ListOK(closers)
  BY <1>1, <1>3, <1>4 DEF ListOK
<1>6. \A r, nx, pv : Chained({}, r, 0, nx, pv)
  BY DEF Chained, Ranked, IsHead
<1>7. NodesOK
  BY <1>1, <1>2, <1>6 DEF NodesOK, NodeInv
<1>8. \A i \in Inode : UsersKnown(i)
  <2>1. \A i \in Inode : Users(i) = {} /\ node[i].count = 0 /\ node[i].writer = 0
    BY <1>1, <1>2 DEF Users, NoNode
  <2> QED BY <2>1, FS_EmptySet DEF UsersKnown
<1>9. Listing(closers.entry, 0)
  <2>1. PICK r : r = [a \in Addr |-> 0]
    OBVIOUS
  <2>2. r \in [Addr -> Nat] /\ \A a \in Addr : r[a] < 1
    BY <2>1
  <2>3. Chained(Live(closers.entry), r, 0, NextOf(closers.entry), PrevOf(closers.entry))
    BY <1>4, <1>6
  <2> QED BY <2>2, <2>3 DEF Listing
<1>10. Matched(closers.entry, dev)
  BY <1>1, <1>4 DEF Matched
<1>11. CloserInv
  BY <1>1, <1>9, <1>10 DEF CloserInv, Head
<1>12. UseInv
  BY <1>1, <1>8 DEF UseInv
<1> QED BY <1>1, <1>2, <1>3, <1>5, <1>7, <1>11, <1>12 DEF HandlesInv, DevSlots

LEMMA NextHolds == ASSUME HandlesInv, [HandlesNext]_handlesVars PROVE HandlesInv'
<1>1. CASE OpenRefused
  BY <1>1, RefusedStep
<1>2. CASE OpenDev
  <2>1. PICK i \in Inode, rw \in BOOLEAN, d \in Addr : OpenAs("dev", i, rw, d) /\ closers' = Added(closers, d)
    BY <1>2 DEF OpenDev
  <2> QED BY <2>1, OpenStep DEF Kinds
<1>3. CASE OpenFile
  <2>1. PICK i \in Inode, rw \in BOOLEAN, d \in Addr :
          OpenAs("file", i, rw, d) /\ closers' = Promoted(Added(closers, d), "file", d)
    BY <1>3 DEF OpenFile
  <2> QED BY <2>1, OpenStep DEF Kinds
<1>4. CASE OpenStream
  <2>1. PICK i \in Inode, rw \in BOOLEAN, d \in Addr :
          OpenAs("stream", i, rw, d) /\ closers' = Promoted(Added(closers, d), "stream", d)
    BY <1>4 DEF OpenStream
  <2> QED BY <2>1, OpenStep DEF Kinds
<1>5. CASE CloseDev
  <2>1. PICK d \in Addr : CloseAs("dev", d) /\ closers' = Delisted(closers, "dev", d)
    BY <1>5 DEF CloseDev
  <2> QED BY <2>1, CloseStep DEF Kinds
<1>6. CASE CloseFile
  <2>1. PICK d \in Addr : CloseAs("file", d) /\ closers' = Delisted(Delisted(closers, "file", d), "dev", d)
    BY <1>6 DEF CloseFile
  <2> QED BY <2>1, CloseStep DEF Kinds
<1>7. CASE CloseStream
  <2>1. PICK d \in Addr : CloseAs("stream", d) /\ closers' = Delisted(Delisted(closers, "stream", d), "dev", d)
    BY <1>7 DEF CloseStream, StreamGone
  <2> QED BY <2>1, CloseStep DEF Kinds
<1>8. CASE Finalize
  BY <1>8, FinalizeStep
<1>9. CASE CloseNext
  BY <1>9, CloseNextStep
<1>10. CASE FinalizeNoAutoClose
  BY <1>10, LeaveStep
<1>11. CASE CloseOpened
  BY <1>11, CloseOpenedStep
<1>12. CASE Finalized
  BY <1>12, FinalizedStep
<1>13. CASE Reopen
  BY <1>13, ReopenStep
<1>14. CASE UNCHANGED handlesVars
  <2>1. UNCHANGED <<dev, devPool, closers, node, opened, fs, doomed>>
    BY <1>14 DEF handlesVars
  <2>2. DevsOK' /\ DevSlots' /\ NodesOK' /\ OpenDevs' = OpenDevs /\ \A j \in Inode : UsersKnown(j) => UsersKnown(j)'
    BY <2>1, SameDevs
  <2>3. UseInv'
    BY <2>1, <2>2 DEF HandlesInv, UseInv, Tidy
  <2>4. ListOK(closers)' /\ CloserInv'
    BY <2>1, <2>2 DEF HandlesInv, ListOK, CloserInv, Tidy, Head
  <2> QED BY <2>1, <2>2, <2>3, <2>4 DEF HandlesInv
<1> QED BY <1>1, <1>2, <1>3, <1>4, <1>5, <1>6, <1>7, <1>8, <1>9, <1>10, <1>11, <1>12, <1>13, <1>14 DEF HandlesNext

\* The inductive invariant: both lists are linked in the order of their ranks,
\* hold what is open, and an inode notes its users and its writer, through
\* whefs_dev_for_inode(), whefs_dev_close() and whefs_fs_finalize().
THEOREM HandlesInvariant == HandlesSpec => []HandlesInv
<1>1. HandlesInit => HandlesInv
  BY InitHolds
<1>2. HandlesInv /\ [HandlesNext]_handlesVars => HandlesInv'
  BY NextHolds
<1> QED BY <1>1, <1>2, PTL DEF HandlesSpec

\* The opened list of whefs_inode_open() and whefs_inode_close() holds each
\* inode with open handles once and in order, with their number and the writer.
THEOREM OpenedIsSorted == HandlesSpec => []OpenedSorted
<1>1. ASSUME HandlesInv PROVE OpenedSorted
  <2>0. NodesOK /\ UseInv /\ CloserInv
    BY <1>1 DEF HandlesInv
  <2>1. PICK chain : chain = Reach(NextOf(node), opened)
    OBVIOUS
  <2>2. chain = InUse
    <3>1. PICK nx : nx = NextOf(node)
      OBVIOUS
    <3>2. PICK pv : pv = PrevOf(node)
      OBVIOUS
    <3>3. Chained(InUse, Id, opened, nx, pv) /\ InUse \subseteq DOMAIN nx
      BY <2>0, <3>1, <3>2, NodeFacts DEF NodesOK, NodeInv
    <3> QED BY <2>1, <3>1, <3>3, ReachAll
  <2>3. InUse \subseteq Inode
    BY <2>0, NodeFacts DEF NodesOK
  <2>4. ASSUME fs \in {"open", "closing"}
        PROVE  /\ chain = {i \in Inode : Users(i) # {}}
               /\ opened # 0 => node[opened].prev = 0
               /\ \A i \in chain :
                     /\ node[i].next # 0 => node[i].next > i /\ node[node[i].next].prev = i
                     /\ node[i].count = Cardinality(Users(i))
                     /\ {d \in Users(i) : dev[d].rw} = {node[i].writer} \ {0}
    <3>1. \A i \in Inode : UsersKnown(i)
      BY <2>0, <2>4 DEF UseInv, Tidy
    <3>2. \A i \in Inode : i \in InUse <=> Users(i) # {}
      BY <2>0, <3>1, KnownFacts, NodeCount DEF NodesOK
    <3>3. opened # 0 => node[opened].prev = 0
      BY <2>0, Neighbours
    <3>4. ASSUME NEW i \in chain, node[i].next # 0 PROVE node[i].next > i /\ node[node[i].next].prev = i
      <4>1. PICK x : x = node[i].next
        OBVIOUS
      <4>2. x \in InUse /\ i < x /\ node[x].prev = i
        BY <2>0, <2>2, <3>4, <4>1, Neighbours
      <4>3. i \in Nat /\ x \in Nat
        BY <2>2, <2>3, <4>2, Inodes
      <4> QED BY <4>1, <4>2, <4>3
    <3> QED BY <2>2, <2>3, <3>1, <3>2, <3>3, <3>4 DEF UsersKnown
  <2>5. ASSUME fs \in {"closed", "left"} PROVE opened = 0
    <3>1. CASE fs = "closed"
      BY <2>0, <3>1, NobodyLeft DEF UseInv, CloserInv, Tidy
    <3>2. CASE fs = "left"
      BY <2>0, <3>2 DEF UseInv
    <3> QED BY <2>5, <3>1, <3>2
  <2> QED BY <2>1, <2>4, <2>5 DEF OpenedSorted
<1> QED BY <1>1, HandlesInvariant, PTL

\* What whefs_fs_finalize() goes through with whefs_fs_closer_list_close() is
\* every open handle once, by the kind it is to be closed as.
THEOREM ClosersAreExact == HandlesSpec => []ClosersExact
<1>1. ASSUME HandlesInv PROVE ClosersExact
  <2>0. ListOK(closers) /\ CloserInv
    BY <1>1 DEF HandlesInv
  <2>1. PICK E : E = Live(closers.entry)
    OBVIOUS
  <2>2. \A a \in E : closers.entry[a].item \in Addr /\ a \in Addr
    BY <2>0, <2>1, ItemFacts
  <2>3. ASSUME fs \in {"open", "closing"}
        PROVE  /\ Cardinality(Pending) = Cardinality(OpenDevs)
               /\ \A d \in OpenDevs : \E a \in Pending :
                     closers.entry[a].type = dev[d].owner /\ closers.entry[a].item = d
    <3>1. Matched(closers.entry, dev) /\ Listing(closers.entry, Head)
      BY <2>0, <2>3 DEF CloserInv, Tidy
    <3>2. Pending = E
      <4>1. CASE fs = "open"
        BY <2>0, <2>1, <3>1, <4>1, ListedIs DEF Pending, Head
      <4>2. CASE fs = "closing"
        <5>1. PICK nx : nx = NextOf(closers.entry)
          OBVIOUS
        <5>2. PICK pv : pv = PrevOf(closers.entry)
          OBVIOUS
        <5>3. PICK r : Chained(E, r, doomed, nx, pv)
          BY <2>1, <3>1, <4>2, <5>1, <5>2 DEF Listing, Head
        <5>4. E \subseteq DOMAIN nx
          BY <2>0, <2>1, <5>1, EntryFacts DEF ListOK
        <5>5. Reach(nx, doomed) = E
          BY <5>3, <5>4, ReachAll
        <5> QED BY <4>2, <5>1, <5>5 DEF Pending
      <4> QED BY <2>3, <4>1, <4>2
    <3>3. Cardinality(E) = Cardinality(OpenDevs)
      <4>1. PICK f : f = [a \in E |-> closers.entry[a].item]
        OBVIOUS
      <4>2. \A a \in E : f[a] = closers.entry[a].item /\ f[a] \in OpenDevs
        BY <2>1, <2>2, <3>1, <4>1 DEF Matched, OpenDevs
      <4>3. f \in [E -> OpenDevs]
        BY <4>1, <4>2
      <4>4. \A a, b \in E : f[a] = f[b] => a = b
        BY <2>1, <3>1, <4>2 DEF Matched
      <4>5. \A d \in OpenDevs : \E a \in E : f[a] = d
        BY <2>1, <3>1, <4>2 DEF Matched, OpenDevs
      <4>6. ExistsBijection(E, OpenDevs)
        <5>1. f \in Injection(E, OpenDevs)
          BY <4>3, <4>4 DEF Injection, IsInjective
        <5>2. f \in Surjection(E, OpenDevs)
          BY <4>3, <4>5 DEF Surjection
        <5> QED BY <5>1, <5>2 DEF ExistsBijection, Bijection
      <4>7. IsFiniteSet(E)
        BY <2>2, Addresses, FS_Subset
      <4> QED BY <4>6, <4>7, FS_Bijection
    <3>4. ASSUME NEW d \in OpenDevs
          PROVE  \E a \in E : closers.entry[a].type = dev[d].owner /\ closers.entry[a].item = d
      BY <2>1, <3>1 DEF Matched, OpenDevs
    <3> QED BY <3>2, <3>3, <3>4
  <2>4. ASSUME fs = "closed" PROVE OpenDevs = {} /\ \A a \in Addr : closers.entry[a] = NoEntry
    <3>1. OpenDevs = {} /\ Matched(closers.entry, dev)
      BY <2>0, <2>4 DEF CloserInv, Tidy
    <3>2. E = {}
      BY <2>1, <2>2, <3>1 DEF Matched, OpenDevs
    <3> QED BY <2>1, <3>1, <3>2 DEF Live
  <2> QED BY <2>3, <2>4 DEF ClosersExact
<1> QED BY <1>1, HandlesInvariant, PTL

\* The static slots of whio_dev_alloc() and whefs_fs_closer_list_alloc() are
\* those of the open objects, and none is free below the hint.
THEOREM SlotsAreKept == HandlesSpec => []SlotsKept
<1>1. ASSUME HandlesInv PROVE SlotsKept
  <2>1. /\ devPool.used = OpenDevs /\ PoolOK(devPool)
        /\ closers.pool.used = Live(closers.entry) /\ PoolOK(closers.pool)
    BY <1>1 DEF HandlesInv, DevSlots, ListOK
  <2>2. \A pool \in {devPool, closers.pool}, a \in 1 .. Slots : a < pool.next => a \in pool.used
    BY <2>1 DEF PoolOK
  <2> QED BY <2>1, <2>2 DEF SlotsKept, Live
<1> QED BY <1>1, HandlesInvariant, PTL
=============================================================================
