--------------------------- MODULE DevicesProofs ----------------------------
(***************************************************************************)
(* For every memory, map and file device, of any size, with any sub-device  *)
(* and any block device over it: the devices stay well formed, the blocks   *)
(* hold what was written to them, and the interface of Device is kept.      *)
(***************************************************************************)
EXTENDS Devices, TLAPS

-----------------------------------------------------------------------------
(* Sequences of bytes *)

LEMMA ByteZero == 0 \in Byte
  BY DevicesAssumption

LEMMA LeastMost ==
    ASSUME NEW a \in Nat, NEW b \in Nat
    PROVE  /\ Least(a, b) \in Nat /\ Most(a, b) \in Nat
           /\ Least(a, b) <= a /\ Least(a, b) <= b /\ a <= Most(a, b) /\ b <= Most(a, b)
           /\ Least(a, b) \in {a, b} /\ Most(a, b) \in {a, b}
  BY DEF Least, Most

LEMMA ZerosAreBytes ==
    ASSUME NEW n \in Nat
    PROVE  Zeros(n) \in Seq(Byte) /\ Len(Zeros(n)) = n
  BY ByteZero DEF Zeros

\* The first n elements of a sequence.
LEMMA FirstBytes ==
    ASSUME NEW s \in Seq(Byte), NEW n \in 0..Len(s)
    PROVE  /\ SubSeq(s, 1, n) \in Seq(Byte) /\ Len(SubSeq(s, 1, n)) = n
           /\ \A i \in 1..n : SubSeq(s, 1, n)[i] = s[i]
  OBVIOUS

\* The n elements of a sequence after the first p.
LEMMA Slice ==
    ASSUME NEW s \in Seq(Byte), NEW p \in Nat, NEW n \in Nat, p + n <= Len(s)
    PROVE  /\ SubSeq(s, p + 1, p + n) \in Seq(Byte) /\ Len(SubSeq(s, p + 1, p + n)) = n
           /\ \A i \in 1..n : SubSeq(s, p + 1, p + n)[i] = s[p + i]
  OBVIOUS

LEMMA Joined ==
    ASSUME NEW s \in Seq(Byte), NEW t \in Seq(Byte)
    PROVE  /\ s \o t \in Seq(Byte) /\ Len(s \o t) = Len(s) + Len(t)
           /\ \A i \in 1..Len(s) : (s \o t)[i] = s[i]
  OBVIOUS

LEMMA Same ==
    ASSUME NEW s \in Seq(Byte), NEW t \in Seq(Byte), Len(s) = Len(t),
           \A i \in 1..Len(s) : s[i] = t[i]
    PROVE  s = t
  OBVIOUS

LEMMA EmptySeq == ASSUME NEW s \in Seq(Byte) PROVE s = <<>> <=> Len(s) = 0
  OBVIOUS

\* memcpy() changes what it covers and nothing else.
LEMMA StoredLemma ==
    ASSUME NEW buf \in Seq(Byte), NEW w \in Seq(Byte), NEW p \in Nat, p + Len(w) <= Len(buf)
    PROVE  /\ Stored(buf, p, w) \in Seq(Byte) /\ Len(Stored(buf, p, w)) = Len(buf)
           /\ \A i \in 1..Len(buf) : i \notin p + 1..p + Len(w) => Stored(buf, p, w)[i] = buf[i]
           /\ \A i \in 1..Len(w) : Stored(buf, p, w)[p + i] = w[i]
  <1> DEFINE g == Stored(buf, p, w)
  <1>1. DOMAIN buf = 1..Len(buf) /\ Len(buf) \in Nat /\ Len(w) \in Nat
    OBVIOUS
  <1>2. g = [i \in 1..Len(buf) |-> IF i \in p + 1..p + Len(w) THEN w[i - p] ELSE buf[i]]
    BY <1>1 DEF Stored
  <1>3. \A i \in 1..Len(buf) : g[i] = IF i \in p + 1..p + Len(w) THEN w[i - p] ELSE buf[i]
    BY <1>2
  <1>4. \A i \in 1..Len(buf) : g[i] \in Byte
    BY <1>1, <1>3
  <1>5. g \in Seq(Byte) /\ Len(g) = Len(buf)
    BY <1>1, <1>2, <1>4
  <1>6. \A i \in 1..Len(w) : p + i \in 1..Len(buf) /\ p + i \in p + 1..p + Len(w) /\ (p + i) - p = i
    BY <1>1
  <1> HIDE DEF g
  <1> QED BY <1>3, <1>5, <1>6 DEF g

-----------------------------------------------------------------------------
(* One device: what a call leaves of it *)

DeviceType == [kind : Kinds, buf : Seq(Byte), size : Nat, pos : Nat]

\* A device has the memory its size promises; a file has nothing but its bytes.
DeviceOK(d) ==
    /\ d \in DeviceType
    /\ d.size <= Len(d.buf)
    /\ d.kind = "file" => d.size = Len(d.buf)

\* Where both devices have bytes they have the same, and the cursor is where it was.
Keeps(d, e) ==
    /\ e.pos = d.pos
    /\ \A i \in 1..d.size : i <= e.size => e.buf[i] = d.buf[i]

\* Memory that holds n bytes and begins as that of d does.
Continues(d, b, n) ==
    /\ b \in Seq(Byte)
    /\ n <= Len(b)
    /\ \A i \in 1..d.size : i <= n => b[i] = d.buf[i]

\* A device with another memory and size, whose first bytes are the old ones.
LEMMA Change ==
    ASSUME NEW d, DeviceOK(d), NEW e, NEW b, NEW n \in Nat, Continues(d, b, n),
           e = [d EXCEPT !.size = n, !.buf = b], d.kind = "file" => n = Len(b)
    PROVE  DeviceOK(e) /\ Keeps(d, e) /\ e.size = n /\ e.buf = b /\ e.kind = d.kind
  <1>1. d \in DeviceType /\ b \in Seq(Byte)
    BY DEF DeviceOK, Continues
  <1>2. e.size = n /\ e.buf = b /\ e.kind = d.kind /\ e.pos = d.pos /\ e \in DeviceType
    BY <1>1 DEF DeviceType
  <1> QED BY <1>2 DEF DeviceOK, Keeps, Continues

\* Memory that is lengthened with zeros.
LEMMA Lengthened ==
    ASSUME NEW d, DeviceOK(d), NEW m \in Nat, NEW b, b = d.buf \o Zeros(m)
    PROVE  b \in Seq(Byte) /\ Len(b) = Len(d.buf) + m /\ \A i \in 1..d.size : b[i] = d.buf[i]
  <1>1. PICK x \in Seq(Byte) : x = d.buf
    BY DEF DeviceOK, DeviceType
  <1>2. PICK z \in Seq(Byte) : z = Zeros(m) /\ Len(z) = m
    BY ZerosAreBytes
  <1>3. b = x \o z
    BY <1>1, <1>2
  <1>4. b \in Seq(Byte) /\ Len(b) = Len(x) + m /\ \A i \in 1..Len(x) : b[i] = x[i]
    BY <1>2, <1>3, Joined
  <1>5. d.size \in Nat /\ d.size <= Len(x)
    BY <1>1 DEF DeviceOK, DeviceType
  <1> QED BY <1>1, <1>4, <1>5

LEMMA GrownLemma ==
    ASSUME NEW d, DeviceOK(d), NEW n \in Nat
    PROVE  Grown(d, n) \in Nat /\ n <= Grown(d, n)
  <1>1. PICK l \in Nat : l = Len(d.buf)
    BY DEF DeviceOK, DeviceType
  <1>2. PICK g \in Nat : g = (l * 151) \div 100
    OBVIOUS
  <1>3. Grown(d, n) = IF d.kind = "growing" THEN Most(n, g) ELSE n
    BY <1>1, <1>2 DEF Grown
  <1> QED BY <1>3, LeastMost

LEMMA TruncBufLemma ==
    ASSUME NEW d, DeviceOK(d), d.kind # "file", NEW n \in Nat
    PROVE  DeviceOK(TruncBuf(d, n)) /\ Keeps(d, TruncBuf(d, n)) /\ TruncBuf(d, n).size = n
           /\ TruncBuf(d, n).kind = d.kind
  <1>0. d \in DeviceType /\ d.buf \in Seq(Byte) /\ Len(d.buf) \in Nat /\ d.size \in Nat /\ d.size <= Len(d.buf)
    BY DEF DeviceOK, DeviceType
  <1>1. CASE n = 0
    <2>1. PICK b : b = (IF d.kind = "growing" THEN <<>> ELSE d.buf)
      OBVIOUS
    <2>2. TruncBuf(d, n) = [d EXCEPT !.size = n, !.buf = b]
      BY <1>0, <1>1, <2>1 DEF TruncBuf, DeviceType
    <2>3. Continues(d, b, n)
      BY <1>0, <1>1, <2>1 DEF Continues
    <2> QED BY <2>2, <2>3, Change
  <1>2. CASE n > Len(d.buf)
    <2>1. PICK g \in Nat : g = Grown(d, n) /\ n <= g
      BY GrownLemma
    <2>2. PICK m \in Nat : m = Grown(d, n) - Len(d.buf) /\ Len(d.buf) + m >= n
      BY <1>0, <1>2, <2>1
    <2>3. PICK b : b = d.buf \o Zeros(m)
      OBVIOUS
    <2>4. TruncBuf(d, n) = [d EXCEPT !.size = n, !.buf = b]
      BY <1>0, <1>2, <2>2, <2>3 DEF TruncBuf, DeviceType
    <2>5. Continues(d, b, n)
      BY <2>2, <2>3, Lengthened DEF Continues
    <2> QED BY <2>4, <2>5, Change
  <1>3. CASE n # 0 /\ ~(n > Len(d.buf))
    <2>1. PICK b : b = (IF d.kind = "growing" /\ 3 * n < 2 * Len(d.buf) THEN SubSeq(d.buf, 1, n) ELSE d.buf)
      OBVIOUS
    <2>2. TruncBuf(d, n) = [d EXCEPT !.size = n, !.buf = b]
      BY <1>0, <1>3, <2>1 DEF TruncBuf, DeviceType
    <2>3. n \in 0..Len(d.buf)
      BY <1>0, <1>3
    <2>4. SubSeq(d.buf, 1, n) \in Seq(Byte) /\ Len(SubSeq(d.buf, 1, n)) = n
          /\ \A i \in 1..n : SubSeq(d.buf, 1, n)[i] = d.buf[i]
      BY <1>0, <2>3, FirstBytes
    <2>5. Continues(d, b, n)
      BY <1>0, <2>1, <2>3, <2>4 DEF Continues
    <2> QED BY <2>2, <2>5, Change
  <1> QED BY <1>1, <1>2, <1>3

LEMMA TruncMapLemma ==
    ASSUME NEW d, DeviceOK(d), d.kind # "file", NEW n \in Nat
    PROVE  DeviceOK(TruncMap(d, n)) /\ Keeps(d, TruncMap(d, n)) /\ TruncMap(d, n).size \in {n, d.size}
           /\ TruncMap(d, n).kind = d.kind
  BY DEF TruncMap, DeviceOK, DeviceType, Keeps

LEMMA TruncFileLemma ==
    ASSUME NEW d, DeviceOK(d), NEW n \in Nat
    PROVE  DeviceOK(TruncFile(d, n)) /\ Keeps(d, TruncFile(d, n)) /\ TruncFile(d, n).size = n
           /\ TruncFile(d, n).kind = d.kind /\ Len(TruncFile(d, n).buf) = n
  <1>0. d \in DeviceType /\ d.buf \in Seq(Byte) /\ Len(d.buf) \in Nat /\ d.size \in Nat /\ d.size <= Len(d.buf)
        /\ d.pos \in Nat
    BY DEF DeviceOK, DeviceType
  <1>1. PICK t : t = d.buf \o Zeros(n)
    OBVIOUS
  <1>2. t \in Seq(Byte) /\ Len(t) = Len(d.buf) + n /\ \A i \in 1..d.size : t[i] = d.buf[i]
    BY <1>1, Lengthened
  <1>3. PICK b : b = SubSeq(t, 1, n)
    OBVIOUS
  <1>4. b \in Seq(Byte) /\ Len(b) = n /\ \A i \in 1..n : b[i] = t[i]
    <2>1. n \in 0..Len(t)
      BY <1>0, <1>2
    <2> QED BY <1>2, <1>3, <2>1, FirstBytes
  <1>5. TruncFile(d, n) = [d EXCEPT !.size = n, !.buf = b]
    BY <1>0, <1>1, <1>3 DEF TruncFile, DeviceType
  <1>6. Continues(d, b, n)
    <2>1. ASSUME NEW i \in 1..d.size, i <= n PROVE b[i] = d.buf[i]
      <3>1. i \in 1..n
        BY <1>0, <2>1
      <3> QED BY <1>2, <1>4, <3>1
    <2>2. n <= Len(b)
      BY <1>4
    <2> QED BY <1>4, <2>1, <2>2 DEF Continues
  <1>7. PICK e : e = TruncFile(d, n)
    OBVIOUS
  <1>8. e = [d EXCEPT !.size = n, !.buf = b] /\ (d.kind = "file" => n = Len(b))
    BY <1>4, <1>5, <1>7
  <1>9. DeviceOK(e) /\ Keeps(d, e) /\ e.size = n /\ e.buf = b /\ e.kind = d.kind
    BY <1>6, <1>8, Change
  <1> QED BY <1>4, <1>7, <1>9

\* Whatever the kind: a truncation moves the end or does nothing, and keeps the
\* bytes before both ends.
LEMMA TruncLemma ==
    ASSUME NEW d, DeviceOK(d), NEW n \in Nat
    PROVE  DeviceOK(Trunc(d, n)) /\ Keeps(d, Trunc(d, n)) /\ Trunc(d, n).size \in {n, d.size}
  <1>1. d.kind \in Kinds
    BY DEF DeviceOK, DeviceType
  <1> QED BY <1>1, TruncBufLemma, TruncMapLemma, TruncFileLemma DEF Trunc, Kinds

LEMMA SeekLemma ==
    ASSUME NEW d, DeviceOK(d), NEW p \in Nat
    PROVE  /\ DeviceOK(Seek(d, p)) /\ Seek(d, p).pos = p
           /\ Seek(d, p).buf = d.buf /\ Seek(d, p).size = d.size /\ Seek(d, p).kind = d.kind
  BY DEF Seek, DeviceOK, DeviceType

-----------------------------------------------------------------------------
(* Writing *)

\* e is what is left of d when m was written at the cursor of d: the end moves
\* as far as it must, and no other byte changes.
Wrote(d, e, m) ==
    /\ DeviceOK(e) /\ m \in Seq(Byte)
    /\ e.pos = d.pos + Len(m)
    /\ d.size <= e.size
    /\ Len(m) > 0 => e.size = Most(d.size, d.pos + Len(m))
    /\ \A i \in 1..d.size : i \notin d.pos + 1..d.pos + Len(m) => e.buf[i] = d.buf[i]
    /\ \A i \in 1..Len(m) : e.buf[d.pos + i] = m[i]

\* The same where the end does not move.
Overwrote(d, e, w) ==
    /\ DeviceOK(e) /\ e.size = d.size /\ e.pos = d.pos + Len(w)
    /\ \A i \in 1..d.size : i \notin d.pos + 1..d.pos + Len(w) => e.buf[i] = d.buf[i]
    /\ \A i \in 1..Len(w) : e.buf[d.pos + i] = w[i]

LEMMA MovedLemma ==
    ASSUME NEW d, DeviceOK(d), NEW w \in Seq(Byte), d.pos + Len(w) <= d.size
    PROVE  Overwrote(d, Moved(d, w), w)
  <1> DEFINE e == Moved(d, w)
  <1>0. d \in DeviceType /\ d.size \in Nat /\ d.size <= Len(d.buf) /\ d.pos \in Nat /\ Len(w) \in Nat
    BY DEF DeviceOK, DeviceType
  <1>1. PICK x \in Seq(Byte) : x = d.buf
    BY <1>0 DEF DeviceType
  <1>2. PICK b : b = Stored(x, d.pos, w)
    OBVIOUS
  <1>3. d.pos + Len(w) <= Len(x) /\ Len(x) \in Nat
    BY <1>0, <1>1
  <1>4. /\ b \in Seq(Byte) /\ Len(b) = Len(x)
        /\ \A i \in 1..Len(x) : i \notin d.pos + 1..d.pos + Len(w) => b[i] = x[i]
        /\ \A i \in 1..Len(w) : b[d.pos + i] = w[i]
    BY <1>0, <1>2, <1>3, StoredLemma
  <1>5. PICK p \in Nat : p = d.pos + Len(w)
    BY <1>0
  <1>6. e.buf = b /\ e.pos = d.pos + Len(w) /\ e.size = d.size /\ e.kind = d.kind /\ e \in DeviceType
    <2>1. e = [d EXCEPT !.buf = b, !.pos = p]
      BY <1>0, <1>1, <1>2, <1>5 DEF Moved, DeviceType
    <2> HIDE DEF e
    <2> QED BY <1>0, <1>4, <1>5, <2>1 DEF DeviceType
  <1> HIDE DEF e
  <1>7. DeviceOK(e)
    BY <1>1, <1>4, <1>6 DEF DeviceOK
  <1>8. Overwrote(d, e, w)
    BY <1>0, <1>1, <1>3, <1>4, <1>6, <1>7 DEF Overwrote
  <1> QED BY <1>8 DEF e

\* The end moves first, then the bytes are stored.
LEMMA PutLemma ==
    ASSUME NEW d, DeviceOK(d), NEW r, DeviceOK(r), Keeps(d, r), d.size <= r.size,
           NEW w \in Seq(Byte), d.pos + Len(w) <= r.size,
           Len(w) > 0 => r.size = Most(d.size, d.pos + Len(w)),
           NEW e, e = Moved(r, w)
    PROVE  Wrote(d, e, w) /\ e.size = r.size
  <1>0. d.size \in Nat /\ r.size \in Nat /\ d.pos \in Nat /\ r.pos = d.pos
    BY DEF DeviceOK, DeviceType, Keeps
  <1>1. Overwrote(r, e, w)
    <2>1. r.pos + Len(w) <= r.size
      BY <1>0
    <2> QED BY <2>1, MovedLemma
  <1>2. \A i \in 1..d.size : i \in 1..r.size /\ r.buf[i] = d.buf[i]
    BY <1>0 DEF Keeps
  <1>3. /\ DeviceOK(e) /\ e.size = r.size /\ e.pos = d.pos + Len(w)
        /\ \A i \in 1..r.size : i \notin d.pos + 1..d.pos + Len(w) => e.buf[i] = r.buf[i]
        /\ \A i \in 1..Len(w) : e.buf[d.pos + i] = w[i]
    BY <1>0, <1>1 DEF Overwrote
  <1>4. \A i \in 1..d.size : i \notin d.pos + 1..d.pos + Len(w) => e.buf[i] = d.buf[i]
    BY <1>2, <1>3
  <1> QED BY <1>0, <1>3, <1>4 DEF Wrote

LEMMA NothingWritten ==
    ASSUME NEW d, DeviceOK(d), NEW r, DeviceOK(r), Keeps(d, r), d.size <= r.size
    PROVE  Wrote(d, r, <<>>)
  <1>1. /\ <<>> \in Seq(Byte) /\ Len(<<>>) = 0 /\ d.size \in Nat /\ r.size \in Nat
        /\ d.pos \in Nat /\ r.pos = d.pos
    BY DEF DeviceOK, DeviceType, Keeps
  <1>2. \A i \in 1..d.size : r.buf[i] = d.buf[i]
    BY <1>1 DEF Keeps
  <1>3. r.pos = d.pos + Len(<<>>)
    BY <1>1
  <1> QED BY <1>1, <1>2, <1>3 DEF Wrote

LEMMA Itself == ASSUME NEW d PROVE Keeps(d, d)
  BY DEF Keeps

LEMMA RoomLemma ==
    ASSUME NEW d, DeviceOK(d), d.kind # "file", NEW n \in Nat, NEW r, r = Room(d, n)
    PROVE  /\ DeviceOK(r) /\ Keeps(d, r)
           /\ \/ r.size = d.size /\ d.pos + n < d.size
              \/ d.size <= r.size /\ r.size <= d.pos + n
  <1>0. d \in DeviceType /\ d.size \in Nat /\ d.size <= Len(d.buf) /\ d.pos \in Nat /\ Len(d.buf) \in Nat
    BY DEF DeviceOK, DeviceType
  <1>1. PICK q \in Nat : q = d.pos + n
    BY <1>0
  <1>2. CASE q < d.size
    <2>0. d.pos + n < d.size
      BY <1>1, <1>2
    <2>1. r = d
      BY <2>0 DEF Room
    <2> QED BY <1>1, <1>2, <2>1, Itself
  <1>3. CASE ~(q < d.size) /\ d.kind = "growing"
    <2>1. r = TruncBuf(d, q)
      BY <1>1, <1>3 DEF Room
    <2> QED BY <1>0, <1>1, <1>3, <2>1, TruncBufLemma
  <1>4. CASE ~(q < d.size) /\ d.kind # "growing"
    <2>1. PICK m \in Nat : m = Least(q, Len(d.buf)) /\ m <= q /\ m <= Len(d.buf) /\ m \in {q, Len(d.buf)}
      BY <1>0, LeastMost
    <2>2. r = [d EXCEPT !.size = m, !.buf = d.buf]
      BY <1>0, <1>1, <1>4, <2>1 DEF Room, DeviceType
    <2>3. Continues(d, d.buf, m)
      BY <1>0, <2>1 DEF Continues, DeviceType
    <2>4. DeviceOK(r) /\ Keeps(d, r) /\ r.size = m
      BY <2>2, <2>3, Change
    <2> QED BY <1>0, <1>1, <1>4, <2>1, <2>4
  <1> QED BY <1>2, <1>3, <1>4

\* The bytes of w that fit below an end.
LEMMA Fitting ==
    ASSUME NEW w \in Seq(Byte), NEW room \in Nat, NEW put, put = SubSeq(w, 1, Least(Len(w), room))
    PROVE  put \in Seq(Byte) /\ Len(put) <= Len(w) /\ Len(put) <= room /\ Len(put) \in {Len(w), room}
  <1>1. PICK l \in Nat : l = Least(Len(w), room) /\ l <= Len(w) /\ l <= room /\ l \in {Len(w), room}
    <2>1. PICK n \in Nat : n = Len(w)
      OBVIOUS
    <2> QED BY <2>1, LeastMost
  <1>2. put \in Seq(Byte) /\ Len(put) = l
    BY <1>1, FirstBytes
  <1> QED BY <1>1, <1>2

\* What a write of any device may do.
Written(d, w, x) ==
    /\ Wrote(d, x.dev, x.moved)
    /\ Len(x.moved) <= Len(w)
    /\ x.dev.size <= Most(d.size, d.pos + Len(w))

LEMMA WriteBufLemma ==
    ASSUME NEW d, DeviceOK(d), d.kind # "file", NEW w \in Seq(Byte), NEW x, x = WriteBuf(d, w)
    PROVE  Written(d, w, x)
  <1>0. d.size \in Nat /\ d.pos \in Nat /\ Len(w) \in Nat
    BY DEF DeviceOK, DeviceType
  <1>1. PICK r : r = Room(d, Len(w))
    OBVIOUS
  <1>2. /\ DeviceOK(r) /\ Keeps(d, r)
        /\ \/ r.size = d.size /\ d.pos + Len(w) < d.size
           \/ d.size <= r.size /\ r.size <= d.pos + Len(w)
    BY <1>0, <1>1, RoomLemma
  <1>3. r.size \in Nat /\ r.pos = d.pos /\ d.size <= r.size
    BY <1>0, <1>2 DEF DeviceOK, DeviceType, Keeps
  <1>4. r.size <= Most(d.size, d.pos + Len(w))
    BY <1>0, <1>2, <1>3 DEF Most
  <1>5. CASE r.pos >= r.size
    <2>1. x = [dev |-> r, moved |-> <<>>]
      BY <1>1, <1>5 DEF WriteBuf
    <2>2. x.dev = r /\ x.moved = <<>>
      BY <2>1
    <2>3. Wrote(d, r, <<>>) /\ Len(<<>>) = 0
      BY <1>2, <1>3, NothingWritten
    <2> QED BY <1>0, <1>4, <2>2, <2>3 DEF Written
  <1>6. CASE ~(r.pos >= r.size)
    <2>1. PICK room \in Nat : room = r.size - r.pos
      BY <1>0, <1>3, <1>6
    <2>2. PICK put : put = SubSeq(w, 1, Least(Len(w), room))
      OBVIOUS
    <2>3. PICK e : e = Moved(r, put)
      OBVIOUS
    <2>4. x = [dev |-> e, moved |-> put]
      BY <1>1, <1>6, <2>1, <2>2, <2>3 DEF WriteBuf
    <2>5. x.dev = e /\ x.moved = put
      BY <2>4
    <2>6. put \in Seq(Byte) /\ Len(put) <= Len(w) /\ Len(put) <= room /\ Len(put) \in {Len(w), room}
      BY <2>2, Fitting
    <2>7. d.pos + Len(put) <= r.size /\ r.size = Most(d.size, d.pos + Len(put))
      BY <1>0, <1>2, <1>3, <1>6, <2>1, <2>6 DEF Most
    <2>8. Wrote(d, e, put) /\ e.size = r.size
      BY <1>2, <1>3, <2>3, <2>6, <2>7, PutLemma
    <2> QED BY <1>4, <2>5, <2>6, <2>8 DEF Written
  <1> QED BY <1>5, <1>6

LEMMA WriteMapLemma ==
    ASSUME NEW d, DeviceOK(d), d.kind # "file", NEW w \in Seq(Byte), NEW x, x = WriteMap(d, w)
    PROVE  Written(d, w, x)
  <1>0. d.size \in Nat /\ d.pos \in Nat /\ Len(w) \in Nat
    BY DEF DeviceOK, DeviceType
  <1>1. Keeps(d, d) /\ d.size <= d.size /\ d.size <= Most(d.size, d.pos + Len(w))
    BY <1>0, Itself DEF Most
  <1>2. CASE d.kind = "romap" \/ d.pos >= d.size
    <2>1. x = [dev |-> d, moved |-> <<>>]
      BY <1>2 DEF WriteMap
    <2>2. x.dev = d /\ x.moved = <<>>
      BY <2>1
    <2>3. Wrote(d, d, <<>>) /\ Len(<<>>) = 0
      BY <1>1, NothingWritten
    <2> QED BY <1>0, <1>1, <2>2, <2>3 DEF Written
  <1>3. CASE ~(d.kind = "romap" \/ d.pos >= d.size)
    <2>1. PICK room \in Nat : room = d.size - d.pos
      BY <1>0, <1>3
    <2>2. PICK put : put = SubSeq(w, 1, Least(Len(w), room))
      OBVIOUS
    <2>3. PICK e : e = Moved(d, put)
      OBVIOUS
    <2>4. x = [dev |-> e, moved |-> put]
      BY <1>3, <2>1, <2>2, <2>3 DEF WriteMap
    <2>5. x.dev = e /\ x.moved = put
      BY <2>4
    <2>6. put \in Seq(Byte) /\ Len(put) <= Len(w) /\ Len(put) <= room /\ Len(put) \in {Len(w), room}
      BY <2>2, Fitting
    <2>7. d.pos + Len(put) <= d.size /\ d.size = Most(d.size, d.pos + Len(put))
      BY <1>0, <1>3, <2>1, <2>6 DEF Most
    <2>8. Wrote(d, e, put) /\ e.size = d.size
      BY <1>1, <2>3, <2>6, <2>7, PutLemma
    <2> QED BY <1>1, <2>5, <2>6, <2>8 DEF Written
  <1> QED BY <1>2, <1>3

LEMMA WriteFileLemma ==
    ASSUME NEW d, DeviceOK(d), NEW w \in Seq(Byte), NEW x, x = WriteFile(d, w)
    PROVE  Written(d, w, x)
  <1>0. d.size \in Nat /\ d.pos \in Nat /\ Len(w) \in Nat
    BY DEF DeviceOK, DeviceType
  <1>1. PICK q \in Nat : q = d.pos + Len(w)
    BY <1>0
  <1>2. PICK n : n = Most(d.size, q)
    OBVIOUS
  <1>3. n \in Nat /\ d.size <= n /\ q <= n
    BY <1>0, <1>2, LeastMost
  <1>4. n \in Nat /\ n = Most(d.size, d.pos + Len(w)) /\ d.size <= n /\ d.pos + Len(w) <= n
    <2>1. n = Most(d.size, d.pos + Len(w))
      BY <1>1, <1>2
    <2>2. d.pos + Len(w) <= n
      BY <1>1, <1>3
    <2> QED BY <1>3, <2>1, <2>2
  <1>5. PICK r : r = TruncFile(d, n)
    OBVIOUS
  <1>6. PICK e : e = Moved(r, w)
    OBVIOUS
  <1>7. x = [dev |-> e, moved |-> w]
    BY <1>4, <1>5, <1>6 DEF WriteFile
  <1>8. x.dev = e /\ x.moved = w
    BY <1>7
  <1>9. DeviceOK(r) /\ Keeps(d, r) /\ r.size = n
    BY <1>4, <1>5, TruncFileLemma
  <1>10. Wrote(d, e, w) /\ e.size = n
    BY <1>4, <1>6, <1>9, PutLemma
  <1> QED BY <1>0, <1>4, <1>8, <1>10 DEF Written

\* Whatever the kind: a write changes the bytes it reports and no other ones.
LEMMA WriteLemma ==
    ASSUME NEW d, DeviceOK(d), NEW w \in Seq(Byte)
    PROVE  Written(d, w, Write(d, w))
  <1>1. d.kind \in Kinds
    BY DEF DeviceOK, DeviceType
  <1> QED BY <1>1, WriteBufLemma, WriteMapLemma, WriteFileLemma DEF Write, Kinds

-----------------------------------------------------------------------------
(* Reading *)

\* e is what is left of d when m was read from n bytes at its cursor.
Got(d, n, e, m) ==
    /\ e = [d EXCEPT !.pos = d.pos + Len(m)]
    /\ DeviceOK(e) /\ m \in Seq(Byte)
    /\ Len(m) <= n
    /\ Len(m) > 0 => d.pos + Len(m) <= d.size
    /\ \A i \in 1..Len(m) : m[i] = d.buf[d.pos + i]

LEMMA ReadLemma ==
    ASSUME NEW d, DeviceOK(d), NEW n \in Nat
    PROVE  Got(d, n, Read(d, n).dev, Read(d, n).moved)
  <1>0. /\ d \in DeviceType /\ d.size \in Nat /\ d.pos \in Nat /\ d.size <= Len(d.buf)
        /\ d.buf \in Seq(Byte) /\ Len(d.buf) \in Nat
    BY DEF DeviceOK, DeviceType
  <1>1. PICK end \in Nat : end = Least(d.pos + n, d.size) /\ end <= d.pos + n /\ end <= d.size
    <2>1. PICK q \in Nat : q = d.pos + n
      BY <1>0
    <2> QED BY <1>0, <2>1, LeastMost
  <1>2. PICK m : m = SubSeq(d.buf, d.pos + 1, end)
    OBVIOUS
  <1>3. m \in Seq(Byte) /\ Len(m) <= n /\ (Len(m) > 0 => d.pos + Len(m) = end)
        /\ \A i \in 1..Len(m) : m[i] = d.buf[d.pos + i]
    <2>1. CASE end <= d.pos
      <3>1. PICK p \in Nat : p = d.pos
        BY <1>0
      <3>2. end < p + 1
        BY <1>1, <2>1, <3>1
      <3>3. m = SubSeq(d.buf, p + 1, end)
        BY <1>2, <3>1
      <3>4. m = <<>>
        BY <1>1, <3>2, <3>3
      <3> QED BY <3>4
    <2>2. CASE ~(end <= d.pos)
      <3>0. PICK p \in Nat : p = d.pos
        BY <1>0
      <3>1. PICK l \in Nat : l = end - p
        BY <1>0, <1>1, <2>2, <3>0
      <3>2. p + l = end /\ p + l <= Len(d.buf)
        <4>1. PICK z \in Nat : z = d.size
          BY <1>0
        <4>2. PICK k \in Nat : k = Len(d.buf)
          BY <1>0
        <4>3. end <= z /\ z <= k
          BY <1>0, <1>1, <4>1, <4>2
        <4>4. p + l = end /\ p + l <= k
          BY <1>1, <3>1, <4>3
        <4> QED BY <4>2, <4>4
      <3>3. m = SubSeq(d.buf, p + 1, p + l)
        <4>1. m = SubSeq(d.buf, p + 1, end)
          BY <1>2, <3>0
        <4>2. end = p + l
          BY <3>2
        <4> QED BY <4>1, <4>2
      <3>4. m \in Seq(Byte) /\ Len(m) = l /\ \A i \in 1..l : m[i] = d.buf[p + i]
        BY <1>0, <3>2, <3>3, Slice
      <3> QED BY <1>0, <1>1, <3>0, <3>2, <3>4
    <2> QED BY <2>1, <2>2
  <1>4. PICK x : x = Read(d, n)
    OBVIOUS
  <1>5. x.dev = [d EXCEPT !.pos = d.pos + Len(m)] /\ x.moved = m
    BY <1>0, <1>1, <1>2, <1>4 DEF Read, DeviceType
  <1>6. DeviceOK(x.dev)
    <2>1. PICK p \in Nat : p = d.pos + Len(m)
      BY <1>0, <1>3
    <2>2. x.dev = [d EXCEPT !.pos = p]
      BY <1>5, <2>1
    <2> QED BY <1>0, <2>2 DEF DeviceOK, DeviceType
  <1> QED BY <1>1, <1>3, <1>4, <1>5, <1>6 DEF Got

-----------------------------------------------------------------------------
(* Sub-devices *)

FenceType == [lower : Nat, upper : Nat, pos : Nat]

\* e and t are what is left of d and of its sub-device s when m was written
\* through s: inside the bounds, at the cursor of s, which follows.
WroteThrough(d, s, e, t, m) ==
    /\ t = [s EXCEPT !.pos = s.pos + Len(m)]
    /\ DeviceOK(e) /\ e.pos = d.pos
    /\ m # <<>> => s.lower <= s.pos /\ s.pos + Len(m) <= s.upper
    /\ e.size <= Most(d.size, s.upper)
    /\ Wrote(Seek(d, s.pos), Seek(e, s.pos + Len(m)), m)

\* The same of a read: the device is as it was.
GotThrough(d, s, e, t, m) ==
    /\ t = [s EXCEPT !.pos = s.pos + Len(m)]
    /\ e = d /\ m \in Seq(Byte)
    /\ m # <<>> => s.lower <= s.pos /\ s.pos + Len(m) <= s.upper /\ s.pos + Len(m) <= d.size
    /\ \A i \in 1..Len(m) : m[i] = d.buf[s.pos + i]

LEMMA Unmoved ==
    ASSUME NEW s \in FenceType
    PROVE  s = [s EXCEPT !.pos = s.pos + Len(<<>>)]
  BY DEF FenceType

\* A cursor that is put back.
LEMMA SeekTwice ==
    ASSUME NEW d \in DeviceType, NEW p \in Nat, NEW q \in Nat
    PROVE  Seek(Seek(d, p), q) = Seek(d, q) /\ Seek(d, d.pos) = d
  BY DEF Seek, DeviceType

LEMMA SubReadLemma ==
    ASSUME NEW d, DeviceOK(d), NEW s \in FenceType, NEW n \in Nat, NEW x, x = SubRead(d, s, n)
    PROVE  GotThrough(d, s, x.dev, x.sub, x.moved)
  <1>0. d \in DeviceType /\ d.pos \in Nat /\ d.size \in Nat /\ s.pos \in Nat /\ s.lower \in Nat /\ s.upper \in Nat
    BY DEF DeviceOK, DeviceType, FenceType
  <1>1. CASE ~Readable(s)
    <2>1. x = [dev |-> d, sub |-> s, moved |-> <<>>]
      BY <1>1 DEF SubRead
    <2>2. x.dev = d /\ x.sub = s /\ x.moved = <<>>
      BY <2>1
    <2>3. <<>> \in Seq(Byte) /\ Len(<<>>) = 0
      OBVIOUS
    <2> QED BY <2>2, <2>3, Unmoved DEF GotThrough
  <1>2. CASE Readable(s)
    <2>1. PICK k \in Nat : k = Clipped(s, n) /\ s.pos + k <= s.upper
      <3>1. PICK room \in Nat : room = s.upper - s.pos
        BY <1>0, <1>2 DEF Readable
      <3>2. PICK k \in Nat : k = Least(n, room) /\ k <= room
        BY LeastMost
      <3> QED BY <1>0, <3>1, <3>2 DEF Clipped
    <2>2. PICK c : c = Seek(d, s.pos)
      OBVIOUS
    <2>3. DeviceOK(c) /\ c.pos = s.pos /\ c.buf = d.buf /\ c.size = d.size
      BY <1>0, <2>2, SeekLemma
    <2>4. PICK r : r = Read(c, k)
      OBVIOUS
    <2>5. Got(c, k, r.dev, r.moved)
      BY <2>3, <2>4, ReadLemma
    <2>6. x = Restored(d, s, r)
      BY <1>2, <2>1, <2>2, <2>4 DEF SubRead
    <2>7. PICK m \in Seq(Byte) : m = r.moved /\ Len(m) <= k
      BY <2>5 DEF Got
    <2>8. x.dev = Seek(r.dev, d.pos) /\ x.sub = [s EXCEPT !.pos = s.pos + Len(m)] /\ x.moved = m
      BY <2>6, <2>7 DEF Restored, FenceType
    <2>9. x.dev = d
      <3>1. PICK p \in Nat : p = c.pos + Len(m)
        BY <1>0, <2>3
      <3>2. r.dev = Seek(c, p)
        BY <2>5, <2>7, <3>1 DEF Got, Seek
      <3> QED BY <1>0, <2>2, <2>8, <3>2, SeekTwice
    <2>10. m # <<>> => s.lower <= s.pos /\ s.pos + Len(m) <= s.upper /\ s.pos + Len(m) <= d.size
      BY <1>0, <1>2, <2>1, <2>3, <2>5, <2>7, EmptySeq DEF Readable, Got
    <2>11. \A i \in 1..Len(m) : m[i] = d.buf[s.pos + i]
      BY <2>3, <2>5, <2>7 DEF Got
    <2> QED BY <2>7, <2>8, <2>9, <2>10, <2>11 DEF GotThrough
  <1> QED BY <1>1, <1>2

LEMMA SubWriteLemma ==
    ASSUME NEW d, DeviceOK(d), NEW s \in FenceType, NEW w \in Seq(Byte), NEW x, x = SubWrite(d, s, w)
    PROVE  WroteThrough(d, s, x.dev, x.sub, x.moved) /\ Len(x.moved) <= Len(w)
  <1>0. d \in DeviceType /\ d.pos \in Nat /\ d.size \in Nat /\ s.pos \in Nat /\ s.lower \in Nat /\ s.upper \in Nat
    BY DEF DeviceOK, DeviceType, FenceType
  <1>2. PICK c : c = Seek(d, s.pos)
    OBVIOUS
  <1>3. DeviceOK(c) /\ c.pos = s.pos /\ c.buf = d.buf /\ c.size = d.size
    BY <1>0, <1>2, SeekLemma
  <1>4. CASE ~Readable(s)
    <2>1. x = [dev |-> d, sub |-> s, moved |-> <<>>]
      BY <1>4 DEF SubWrite
    <2>2. x.dev = d /\ x.sub = s /\ x.moved = <<>>
      BY <2>1
    <2>3. Wrote(c, c, <<>>)
      BY <1>0, <1>3, Itself, NothingWritten
    <2>4. s.pos + Len(<<>>) = s.pos /\ d.size <= Most(d.size, s.upper)
      BY <1>0 DEF Most
    <2>5. Wrote(Seek(d, s.pos), Seek(d, s.pos + Len(<<>>)), <<>>)
      BY <1>2, <2>3, <2>4
    <2>6. Len(<<>>) <= Len(w)
      OBVIOUS
    <2> QED BY <2>2, <2>4, <2>5, <2>6, Unmoved DEF WroteThrough
  <1>5. CASE Readable(s)
    <2>1. PICK room \in Nat : room = s.upper - s.pos
      BY <1>0, <1>5 DEF Readable
    <2>2. PICK v : v = SubSeq(w, 1, Least(Len(w), room))
      OBVIOUS
    <2>3. v \in Seq(Byte) /\ Len(v) <= room /\ Len(v) <= Len(w)
      BY <2>2, Fitting
    <2>4. PICK r : r = Write(c, v)
      OBVIOUS
    <2>5. Written(c, v, r)
      BY <1>3, <2>3, <2>4, WriteLemma
    <2>6. x = Restored(d, s, r)
      BY <1>2, <1>5, <2>1, <2>2, <2>4 DEF SubWrite, Clipped
    <2>7. PICK m \in Seq(Byte) : m = r.moved /\ Len(m) <= Len(v)
      BY <2>5 DEF Written, Wrote
    <2>8. x.dev = Seek(r.dev, d.pos) /\ x.sub = [s EXCEPT !.pos = s.pos + Len(m)] /\ x.moved = m
      BY <2>6, <2>7 DEF Restored, FenceType
    <2>9. DeviceOK(r.dev) /\ r.dev.pos = s.pos + Len(m) /\ Wrote(c, r.dev, m)
      BY <1>3, <2>5, <2>7 DEF Written, Wrote
    <2>10. DeviceOK(x.dev) /\ x.dev.pos = d.pos /\ x.dev.size = r.dev.size
      <3>1. PICK y : y = r.dev
        OBVIOUS
      <3>2. PICK p \in Nat : p = d.pos
        BY <1>0
      <3>3. DeviceOK(y) /\ x.dev = Seek(y, p)
        BY <2>8, <2>9, <3>1, <3>2
      <3>4. DeviceOK(Seek(y, p)) /\ Seek(y, p).pos = p /\ Seek(y, p).size = y.size
        BY <3>3, SeekLemma
      <3> QED BY <3>1, <3>2, <3>3, <3>4
    <2>11. Seek(x.dev, s.pos + Len(m)) = r.dev
      <3>1. PICK p \in Nat : p = s.pos + Len(m)
        BY <1>0
      <3>2. PICK q \in Nat : q = d.pos
        BY <1>0
      <3>3. PICK y : y = r.dev
        OBVIOUS
      <3>4. PICK z : z = x.dev
        OBVIOUS
      <3>5. DeviceOK(y) /\ y.pos = p /\ z = Seek(y, q)
        BY <2>8, <2>9, <3>1, <3>2, <3>3, <3>4
      <3>6. y \in DeviceType
        BY <3>5 DEF DeviceOK
      <3>7. Seek(Seek(y, q), p) = Seek(y, p) /\ Seek(y, y.pos) = y
        BY <3>6, SeekTwice
      <3>8. Seek(z, p) = y
        BY <3>5, <3>7
      <3> QED BY <3>1, <3>3, <3>4, <3>8
    <2>12. m # <<>> => s.lower <= s.pos /\ s.pos + Len(m) <= s.upper
      <3>1. s.lower <= s.pos /\ s.pos \in Nat /\ s.upper \in Nat
        BY <1>0, <1>5 DEF Readable, FenceType
      <3>2. PICK k \in Nat : k = Len(m) /\ k <= room
        BY <2>1, <2>3, <2>7
      <3>3. s.pos + k <= s.upper
        BY <2>1, <3>1, <3>2
      <3> QED BY <3>1, <3>2, <3>3
    <2>13. x.dev.size <= Most(d.size, s.upper)
      <3>1. r.dev.size <= Most(c.size, c.pos + Len(v))
        BY <2>5 DEF Written
      <3>2. c.pos + Len(v) <= s.upper /\ Len(v) \in Nat /\ r.dev.size \in Nat
        <4>1. PICK k \in Nat : k = Len(v) /\ k <= room
          BY <2>1, <2>3
        <4>2. c.pos = s.pos /\ s.pos \in Nat /\ s.upper \in Nat
          BY <1>0, <1>3 DEF FenceType
        <4>3. s.pos + k <= s.upper
          BY <2>1, <4>1, <4>2
        <4>4. r.dev.size \in Nat
          BY <2>9 DEF DeviceOK, DeviceType
        <4> QED BY <4>1, <4>2, <4>3, <4>4
      <3> QED BY <1>0, <1>3, <2>10, <3>1, <3>2 DEF Most
    <2>14. Len(m) <= Len(w)
      BY <2>3, <2>7
    <2> QED BY <1>2, <2>8, <2>9, <2>10, <2>11, <2>12, <2>13, <2>14 DEF WroteThrough
  <1> QED BY <1>4, <1>5

-----------------------------------------------------------------------------
(* The invariant *)

\* The bounds of the block device are those it was made with: only its cursor moves.
FenceOK == fence \in [lower : {BlocksAt}, upper : {BlocksAt + BlockCount * BlockSize}, pos : Nat]

\* Where views end, no device goes further.
ShapeInv ==
    /\ DeviceOK(dev) /\ dev.size <= Farthest
    /\ sub \in FenceType /\ <<sub.lower, sub.upper>> \in Bounds
    /\ FenceOK /\ fence.pos \in fence.lower..fence.upper
    /\ moved \in Seq(Byte)
    /\ block \in [BlockId -> Seq(Byte)]

LEMMA Limits ==
    /\ MaxSize \in Nat /\ MaxRead \in Nat /\ BlockSize \in Nat \ {0} /\ BlockCount \in Nat \ {0} /\ BlocksAt \in Nat
    /\ BlockCount * BlockSize \in Nat /\ Farthest \in Nat
    /\ MaxSize <= Farthest /\ BlocksAt + BlockCount * BlockSize <= Farthest
    /\ BlocksAt <= Farthest
  <1>1. /\ MaxSize \in Nat /\ MaxRead \in Nat /\ BlockSize \in Nat \ {0} /\ BlockCount \in Nat \ {0}
        /\ BlocksAt \in Nat
    BY DevicesAssumption
  <1>2. PICK t : t = BlockCount * BlockSize
    OBVIOUS
  <1>3. t \in Nat
    BY <1>1, <1>2
  <1>4. Farthest = MaxSize + BlocksAt + t
    BY <1>2 DEF Farthest
  <1> QED BY <1>1, <1>2, <1>3, <1>4

LEMMA BoundsLemma ==
    ASSUME NEW b \in Bounds
    PROVE  b[1] \in Nat /\ b[2] \in Nat /\ b[1] <= MaxSize /\ b[2] <= MaxSize /\ b = <<b[1], b[2]>>
  <1>1. b \in (0..MaxSize) \X (0..MaxSize) /\ MaxSize \in Nat
    BY DevicesAssumption
  <1> QED BY <1>1

LEMMA ProductOrder ==
    ASSUME NEW a \in Nat, NEW b \in Nat, NEW c \in Nat, a <= b
    PROVE  a * c <= b * c /\ a * c \in Nat /\ b * c \in Nat
  <1>1. PICK k \in Nat : b = a + k
    <2>1. b - a \in Nat /\ b = a + (b - a)
      OBVIOUS
    <2> QED BY <2>1
  <1>2. b * c = a * c + k * c /\ k * c \in Nat /\ a * c \in Nat
    BY <1>1
  <1> QED BY <1>2

\* Where a block lies.
Start(id) == BlocksAt + id * BlockSize

LEMMA BlockPlace ==
    ASSUME NEW id \in BlockId
    PROVE  /\ Start(id) \in Nat /\ BlocksAt <= Start(id)
           /\ Start(id) + BlockSize = BlocksAt + (id + 1) * BlockSize
           /\ Start(id) + BlockSize <= BlocksAt + BlockCount * BlockSize
  <1>1. id \in Nat /\ id + 1 <= BlockCount /\ id + 1 \in Nat /\ BlockCount \in Nat /\ BlockSize \in Nat /\ BlocksAt \in Nat
    BY Limits DEF BlockId
  <1>2. (id + 1) * BlockSize = id * BlockSize + BlockSize
    BY <1>1
  <1>3. (id + 1) * BlockSize <= BlockCount * BlockSize
    BY <1>1, ProductOrder
  <1>4. PICK p \in Nat : p = id * BlockSize
    BY <1>1
  <1>5. PICK t \in Nat : t = BlockCount * BlockSize
    BY Limits
  <1> QED BY <1>1, <1>2, <1>3, <1>4, <1>5 DEF Start

\* Two blocks lie apart.
LEMMA BlocksApart ==
    ASSUME NEW a \in BlockId, NEW b \in BlockId, a # b
    PROVE  Start(a) + BlockSize <= Start(b) \/ Start(b) + BlockSize <= Start(a)
  <1>1. ASSUME NEW x \in BlockId, NEW y \in BlockId, x < y PROVE Start(x) + BlockSize <= Start(y)
    <2>1. x + 1 \in Nat /\ y \in Nat /\ x + 1 <= y /\ BlockSize \in Nat /\ BlocksAt \in Nat
      BY <1>1, Limits DEF BlockId
    <2>2. (x + 1) * BlockSize <= y * BlockSize /\ (x + 1) * BlockSize \in Nat /\ y * BlockSize \in Nat
      BY <2>1, ProductOrder
    <2>3. Start(x) + BlockSize = BlocksAt + (x + 1) * BlockSize
      BY BlockPlace
    <2> QED BY <2>1, <2>2, <2>3 DEF Start
  <1>2. a < b \/ b < a
    BY DEF BlockId
  <1> QED BY <1>1, <1>2

\* The fence at a block.
LEMMA AtBlockLemma ==
    ASSUME FenceOK, NEW id \in BlockId, NEW f, f = AtBlock(id)
    PROVE  /\ f \in FenceType /\ f.pos = Start(id) /\ f.lower = BlocksAt
           /\ f.upper = BlocksAt + BlockCount * BlockSize
           /\ \A n \in Nat : [f EXCEPT !.pos = n] = [fence EXCEPT !.pos = n]
  <1>1. PICK p \in Nat : p = id * BlockSize
    BY Limits DEF BlockId
  <1>2. PICK t \in Nat : t = BlockCount * BlockSize
    BY Limits
  <1>3. fence \in [lower : {BlocksAt}, upper : {BlocksAt + t}, pos : Nat] /\ BlocksAt \in Nat
    BY <1>2, Limits DEF FenceOK
  <1>4. PICK q \in Nat : q = BlocksAt + p
    BY <1>1, <1>3
  <1>5. fence.lower + BlockOffset(id) = q
    BY <1>1, <1>3, <1>4 DEF BlockOffset
  <1>6. f = [fence EXCEPT !.pos = q]
    BY <1>5 DEF AtBlock
  <1>7. f \in FenceType /\ f.pos = q /\ f.lower = BlocksAt /\ f.upper = BlocksAt + t
    BY <1>2, <1>3, <1>6 DEF FenceType
  <1>8. ASSUME NEW n \in Nat PROVE [f EXCEPT !.pos = n] = [fence EXCEPT !.pos = n]
    BY <1>3, <1>6
  <1> QED BY <1>1, <1>2, <1>4, <1>7, <1>8 DEF Start

LEMMA ShapeInit == Init => ShapeInv
<1> SUFFICES ASSUME Init PROVE ShapeInv
  OBVIOUS
<1>1. PICK k \in Kinds, n \in {0, MaxSize} :
         /\ k = "file" => n = 0
         /\ dev = [kind |-> k, buf |-> Zeros(n), size |-> n, pos |-> 0]
  BY DEF Init, Zeros
<1>2. n \in Nat /\ n <= Farthest
  BY <1>1, Limits
<1>3. Zeros(n) \in Seq(Byte) /\ Len(Zeros(n)) = n
  BY <1>2, ZerosAreBytes
<1>4. DeviceOK(dev) /\ dev.size = n
  BY <1>1, <1>2, <1>3 DEF DeviceOK, DeviceType
<1>5. sub \in FenceType /\ <<sub.lower, sub.upper>> \in Bounds
  BY BoundsLemma DEF Init, FenceType
<1>6. FenceOK /\ fence.pos \in fence.lower..fence.upper
  <2>1. PICK t \in Nat : t = BlockCount * BlockSize
    BY Limits
  <2>2. fence = [lower |-> BlocksAt, upper |-> BlocksAt + t, pos |-> BlocksAt] /\ BlocksAt \in Nat
    BY <2>1, Limits DEF Init, Fence
  <2> QED BY <2>1, <2>2 DEF FenceOK
<1>7. moved \in Seq(Byte) /\ block \in [BlockId -> Seq(Byte)]
  BY DEF Init
<1> QED BY <1>2, <1>4, <1>5, <1>6, <1>7 DEF ShapeInv

LEMMA SubBounds ==
    ASSUME ShapeInv
    PROVE  sub \in FenceType /\ sub.upper \in Nat /\ sub.upper <= Farthest /\ sub.lower <= Farthest
  <1>1. <<sub.lower, sub.upper>>[2] <= MaxSize /\ <<sub.lower, sub.upper>>[1] <= MaxSize /\ sub \in FenceType
    BY BoundsLemma DEF ShapeInv
  <1> QED BY <1>1, Limits DEF FenceType

LEMMA DataLemma == ASSUME NEW w \in Data PROVE w \in Seq(Byte) /\ w # <<>>
  BY DevicesAssumption

\* What each call does to the device, in the words of the predicates above.
LEMMA DevWriteDoes ==
    ASSUME ShapeInv, DevWrite
    PROVE  /\ \E w \in Data : Written(dev, w, [dev |-> dev', moved |-> moved']) /\ dev.pos + Len(w) <= MaxSize
           /\ block' = Unknown /\ UNCHANGED <<sub, fence>>
  <1>1. PICK w \in Data : /\ dev.pos + Len(w) <= MaxSize
                          /\ dev' = Write(dev, w).dev /\ moved' = Write(dev, w).moved /\ block' = Unknown
                          /\ UNCHANGED <<sub, fence>>
    BY DEF DevWrite
  <1>2. PICK x : x = Write(dev, w)
    OBVIOUS
  <1>3. Written(dev, w, x)
    BY <1>2, WriteLemma, DataLemma DEF ShapeInv
  <1>4. Written(dev, w, [dev |-> dev', moved |-> moved'])
    BY <1>1, <1>2, <1>3 DEF Written
  <1> QED BY <1>1, <1>4

LEMMA DevReadDoes ==
    ASSUME ShapeInv, DevRead
    PROVE  (\E n \in Nat : Got(dev, n, dev', moved')) /\ UNCHANGED <<sub, fence, block>>
  <1>1. PICK n \in 1..MaxRead : /\ dev' = Read(dev, n).dev /\ moved' = Read(dev, n).moved
                                /\ UNCHANGED <<sub, fence, block>>
    BY DEF DevRead
  <1>2. n \in Nat
    OBVIOUS
  <1>3. Got(dev, n, dev', moved')
    BY <1>1, <1>2, ReadLemma DEF ShapeInv
  <1> QED BY <1>1, <1>2, <1>3

LEMMA SubDevWriteDoes ==
    ASSUME ShapeInv, SubDevWrite
    PROVE  WroteThrough(dev, sub, dev', sub', moved') /\ block' = Unknown /\ UNCHANGED fence
  <1>1. PICK w \in Data : /\ dev' = SubWrite(dev, sub, w).dev /\ sub' = SubWrite(dev, sub, w).sub
                          /\ moved' = SubWrite(dev, sub, w).moved /\ block' = Unknown /\ UNCHANGED fence
    BY DEF SubDevWrite
  <1>2. PICK x : x = SubWrite(dev, sub, w)
    OBVIOUS
  <1>3. WroteThrough(dev, sub, x.dev, x.sub, x.moved)
    BY <1>2, SubWriteLemma, DataLemma DEF ShapeInv
  <1> QED BY <1>1, <1>2, <1>3

LEMMA SubDevReadDoes ==
    ASSUME ShapeInv, SubDevRead
    PROVE  GotThrough(dev, sub, dev', sub', moved') /\ UNCHANGED <<fence, block>>
  <1>1. PICK n \in 1..MaxRead : /\ dev' = SubRead(dev, sub, n).dev /\ sub' = SubRead(dev, sub, n).sub
                                /\ moved' = SubRead(dev, sub, n).moved /\ UNCHANGED <<fence, block>>
    BY DEF SubDevRead
  <1>2. PICK x : x = SubRead(dev, sub, n)
    OBVIOUS
  <1>3. n \in Nat
    OBVIOUS
  <1>4. GotThrough(dev, sub, x.dev, x.sub, x.moved)
    BY <1>2, <1>3, SubReadLemma DEF ShapeInv
  <1> QED BY <1>1, <1>2, <1>4

LEMMA BlockWriteDoes ==
    ASSUME ShapeInv, BlockWrite
    PROVE  \E id \in BlockId : \E w \in Seq(Byte) :
              /\ Len(w) = BlockSize /\ Len(moved') <= BlockSize
              /\ WroteThrough(Seek(dev, AtBlock(id).pos), AtBlock(id), dev', fence', moved')
              /\ block' = [block EXCEPT ![id] = IF moved' = w THEN w ELSE <<>>]
              /\ UNCHANGED sub
  <1>1. PICK id \in BlockId, w \in [1..BlockSize -> Byte] :
           LET f == AtBlock(id)
               r == SubWrite(Seek(dev, f.pos), f, w)
           IN
           /\ dev' = r.dev /\ fence' = r.sub /\ moved' = r.moved
           /\ block' = [block EXCEPT ![id] = IF r.moved = w THEN w ELSE <<>>]
           /\ UNCHANGED sub
    BY DEF BlockWrite
  <1>2. PICK f : f = AtBlock(id)
    OBVIOUS
  <1>3. f \in FenceType /\ f.pos \in Nat
    BY <1>2, AtBlockLemma DEF ShapeInv, FenceType
  <1>4. PICK c : c = Seek(dev, f.pos)
    OBVIOUS
  <1>5. DeviceOK(c)
    BY <1>3, <1>4, SeekLemma DEF ShapeInv
  <1>6. PICK x : x = SubWrite(c, f, w)
    OBVIOUS
  <1>7. w \in Seq(Byte) /\ Len(w) = BlockSize
    BY Limits
  <1>8. WroteThrough(c, f, x.dev, x.sub, x.moved) /\ Len(x.moved) <= BlockSize
    BY <1>3, <1>5, <1>6, <1>7, SubWriteLemma
  <1> QED BY <1>1, <1>2, <1>4, <1>6, <1>7, <1>8

LEMMA BlockReadDoes ==
    ASSUME ShapeInv, BlockRead
    PROVE  \E id \in BlockId :
              /\ GotThrough(Seek(dev, AtBlock(id).pos), AtBlock(id), dev', fence', moved')
              /\ UNCHANGED <<sub, block>>
  <1>1. PICK id \in BlockId :
           LET f == AtBlock(id)
               r == SubRead(Seek(dev, f.pos), f, BlockSize)
           IN
           /\ dev' = r.dev /\ fence' = r.sub /\ moved' = r.moved
           /\ UNCHANGED <<sub, block>>
    BY DEF BlockRead
  <1>2. PICK f : f = AtBlock(id)
    OBVIOUS
  <1>3. f \in FenceType /\ f.pos \in Nat
    BY <1>2, AtBlockLemma DEF ShapeInv, FenceType
  <1>4. PICK c : c = Seek(dev, f.pos)
    OBVIOUS
  <1>5. DeviceOK(c)
    BY <1>3, <1>4, SeekLemma DEF ShapeInv
  <1>6. PICK x : x = SubRead(c, f, BlockSize)
    OBVIOUS
  <1>7. GotThrough(c, f, x.dev, x.sub, x.moved)
    BY <1>3, <1>5, <1>6, SubReadLemma, Limits
  <1> QED BY <1>1, <1>2, <1>4, <1>6, <1>7

-----------------------------------------------------------------------------
(* The shape is kept *)

LEMMA DevWriteShape == ASSUME ShapeInv, DevWrite PROVE ShapeInv'
<1>1. PICK w \in Data : Written(dev, w, [dev |-> dev', moved |-> moved']) /\ dev.pos + Len(w) <= MaxSize
  BY DevWriteDoes
<1>2. block' = Unknown /\ UNCHANGED <<sub, fence>>
  BY DevWriteDoes
<1>3. DeviceOK(dev') /\ moved' \in Seq(Byte) /\ dev'.size <= Most(dev.size, dev.pos + Len(w))
  BY <1>1 DEF Written, Wrote
<1>4. dev.size \in Nat /\ dev.size <= Farthest /\ dev.pos \in Nat /\ Len(w) \in Nat /\ dev'.size \in Nat
  BY <1>3, DataLemma DEF ShapeInv, DeviceOK, DeviceType
<1>5. dev'.size <= Farthest
  BY <1>1, <1>3, <1>4, Limits DEF Most
<1>6. block' \in [BlockId -> Seq(Byte)]
  BY <1>2 DEF Unknown
<1> QED BY <1>2, <1>3, <1>5, <1>6 DEF ShapeInv, FenceOK

LEMMA DevReadShape == ASSUME ShapeInv, DevRead PROVE ShapeInv'
<1>1. PICK n \in Nat : Got(dev, n, dev', moved')
  BY DevReadDoes
<1>2. UNCHANGED <<sub, fence, block>>
  BY DevReadDoes
<1>3. DeviceOK(dev') /\ moved' \in Seq(Byte) /\ dev'.size = dev.size
  BY <1>1 DEF Got, ShapeInv, DeviceOK, DeviceType
<1> QED BY <1>2, <1>3 DEF ShapeInv, FenceOK

LEMMA DevTruncateShape == ASSUME ShapeInv, DevTruncate PROVE ShapeInv'
<1>1. PICK n \in 0..MaxSize : dev' = Trunc(dev, n) /\ moved' = <<>> /\ block' = Unknown /\ UNCHANGED <<sub, fence>>
  BY DEF DevTruncate
<1>2. n \in Nat /\ n <= Farthest
  BY Limits
<1>3. DeviceOK(dev') /\ dev'.size \in {n, dev.size}
  BY <1>1, <1>2, TruncLemma DEF ShapeInv
<1>4. block' \in [BlockId -> Seq(Byte)]
  BY <1>1 DEF Unknown
<1>5. moved' \in Seq(Byte)
  BY <1>1
<1>6. dev'.size <= Farthest
  BY <1>2, <1>3 DEF ShapeInv
<1> QED BY <1>1, <1>3, <1>4, <1>5, <1>6 DEF ShapeInv, FenceOK

\* A seek of the device and of the sub-device, and new bounds.
LEMMA CursorShape == ASSUME ShapeInv, DevSeek \/ SubDevSeek \/ SubDevRebound PROVE ShapeInv'
<1>0. moved' \in Seq(Byte)
  <2>1. moved' = <<>>
    BY DEF DevSeek, SubDevSeek, SubDevRebound
  <2> QED BY <2>1
<1>1. CASE DevSeek
  <2>1. PICK p \in Position : dev' = Seek(dev, p) /\ UNCHANGED <<sub, fence, block>>
    BY <1>1 DEF DevSeek
  <2>2. DeviceOK(dev') /\ dev'.size = dev.size
    <3>1. p \in Nat
      BY DEF Position
    <3> QED BY <2>1, <3>1, SeekLemma DEF ShapeInv
  <2> QED BY <1>0, <2>1, <2>2 DEF ShapeInv, FenceOK
<1>2. CASE SubDevSeek
  <2>1. PICK p \in Position : dev' = Seek(dev, p) /\ sub' = [sub EXCEPT !.pos = p] /\ UNCHANGED <<fence, block>>
    BY <1>2 DEF SubDevSeek
  <2>2. DeviceOK(dev') /\ dev'.size = dev.size
    <3>1. p \in Nat
      BY DEF Position
    <3> QED BY <2>1, <3>1, SeekLemma DEF ShapeInv
  <2>3. sub' \in FenceType /\ sub'.lower = sub.lower /\ sub'.upper = sub.upper
    BY <2>1 DEF ShapeInv, FenceType, Position
  <2> QED BY <1>0, <2>1, <2>2, <2>3 DEF ShapeInv, FenceOK
<1>3. CASE SubDevRebound
  <2>1. PICK b \in Bounds : sub' = [lower |-> b[1], upper |-> b[2], pos |-> b[1]] /\ UNCHANGED <<dev, fence, block>>
    BY <1>3 DEF SubDevRebound
  <2>2. sub' \in FenceType /\ <<sub'.lower, sub'.upper>> \in Bounds
    BY <2>1, BoundsLemma DEF FenceType
  <2> QED BY <1>0, <2>1, <2>2 DEF ShapeInv, FenceOK
<1> QED BY <1>1, <1>2, <1>3

\* What goes through a sub-device keeps all shapes.
LEMMA ThroughShape ==
    ASSUME NEW d, DeviceOK(d), d.size <= Farthest, NEW s \in FenceType, s.upper <= Farthest,
           NEW e, NEW t, NEW m, WroteThrough(d, s, e, t, m) \/ GotThrough(d, s, e, t, m)
    PROVE  /\ DeviceOK(e) /\ e.size <= Farthest /\ e.pos = d.pos
           /\ m \in Seq(Byte)
           /\ t \in FenceType /\ t.lower = s.lower /\ t.upper = s.upper /\ t.pos = s.pos + Len(m)
           /\ s.pos <= s.upper => t.pos <= s.upper
  <1>0. d.size \in Nat /\ s.upper \in Nat /\ s.pos \in Nat
    BY DEF DeviceOK, DeviceType, FenceType
  <1>1. m \in Seq(Byte) /\ t = [s EXCEPT !.pos = s.pos + Len(m)] /\ DeviceOK(e) /\ e.pos = d.pos
    BY DEF WroteThrough, GotThrough, Wrote
  <1>2. PICK p \in Nat : p = s.pos + Len(m)
    BY <1>0, <1>1
  <1>3. t \in FenceType /\ t.lower = s.lower /\ t.upper = s.upper /\ t.pos = p
    <2>1. t = [s EXCEPT !.pos = p]
      BY <1>1, <1>2
    <2> QED BY <2>1 DEF FenceType
  <1>4. e.size <= Farthest
    <2>1. CASE GotThrough(d, s, e, t, m)
      BY <2>1 DEF GotThrough
    <2>2. CASE WroteThrough(d, s, e, t, m)
      <3>1. e.size \in Nat
        BY <1>1 DEF DeviceOK, DeviceType
      <3>2. Most(d.size, s.upper) <= Farthest
        BY DEF Most
      <3>3. e.size <= Most(d.size, s.upper)
        BY <2>2 DEF WroteThrough
      <3>4. PICK k \in Nat : k = Most(d.size, s.upper)
        BY <1>0, LeastMost
      <3>5. Farthest \in Nat
        BY Limits
      <3> QED BY <3>1, <3>2, <3>3, <3>4, <3>5
    <2> QED BY <2>1, <2>2
  <1>5. s.pos <= s.upper => p <= s.upper
    <2>1. CASE m = <<>>
      BY <1>0, <1>2, <2>1
    <2>2. CASE m # <<>>
      BY <1>2, <2>2 DEF WroteThrough, GotThrough
    <2> QED BY <2>1, <2>2
  <1> QED BY <1>1, <1>2, <1>3, <1>4, <1>5

LEMMA SubDevShape == ASSUME ShapeInv, SubDevWrite \/ SubDevRead PROVE ShapeInv'
<1>1. WroteThrough(dev, sub, dev', sub', moved') \/ GotThrough(dev, sub, dev', sub', moved')
  BY SubDevWriteDoes, SubDevReadDoes
<1>2. UNCHANGED fence /\ block' \in [BlockId -> Seq(Byte)]
  <2>1. UNCHANGED fence /\ (block' = block \/ block' = Unknown)
    BY SubDevWriteDoes, SubDevReadDoes
  <2>2. Unknown \in [BlockId -> Seq(Byte)]
    BY DEF Unknown
  <2> QED BY <2>1, <2>2 DEF ShapeInv
<1>3. sub \in FenceType /\ sub.upper <= Farthest
  BY SubBounds
<1>4. /\ DeviceOK(dev') /\ dev'.size <= Farthest /\ moved' \in Seq(Byte)
      /\ sub' \in FenceType /\ sub'.lower = sub.lower /\ sub'.upper = sub.upper
  BY <1>1, <1>3, ThroughShape DEF ShapeInv
<1> QED BY <1>2, <1>4 DEF ShapeInv, FenceOK

LEMMA BlockShape == ASSUME ShapeInv, BlockWrite \/ BlockRead PROVE ShapeInv'
<1>1. PICK id \in BlockId :
         \/ WroteThrough(Seek(dev, AtBlock(id).pos), AtBlock(id), dev', fence', moved')
         \/ GotThrough(Seek(dev, AtBlock(id).pos), AtBlock(id), dev', fence', moved')
  BY BlockWriteDoes, BlockReadDoes
<1>2. UNCHANGED sub /\ block' \in [BlockId -> Seq(Byte)]
  <2>1. CASE BlockRead
    BY <2>1, BlockReadDoes DEF ShapeInv
  <2>2. CASE BlockWrite
    <3>1. PICK i \in BlockId : \E w \in Seq(Byte) :
             block' = [block EXCEPT ![i] = IF moved' = w THEN w ELSE <<>>] /\ UNCHANGED sub
      BY <2>2, BlockWriteDoes
    <3>2. PICK w \in Seq(Byte) :
             block' = [block EXCEPT ![i] = IF moved' = w THEN w ELSE <<>>] /\ UNCHANGED sub
      BY <3>1
    <3>3. (IF moved' = w THEN w ELSE <<>>) \in Seq(Byte)
      OBVIOUS
    <3> QED BY <3>2, <3>3 DEF ShapeInv
  <2> QED BY <2>1, <2>2
<1>3. PICK f : f = AtBlock(id)
  OBVIOUS
<1>4. /\ f \in FenceType /\ f.pos = Start(id) /\ f.lower = BlocksAt /\ f.upper = BlocksAt + BlockCount * BlockSize
      /\ \A n \in Nat : [f EXCEPT !.pos = n] = [fence EXCEPT !.pos = n]
  BY <1>3, AtBlockLemma DEF ShapeInv
<1>5. f.pos \in Nat /\ f.upper <= Farthest /\ f.pos <= f.upper /\ f.lower <= f.pos
  <2>1. PICK t \in Nat : t = BlockCount * BlockSize
    BY Limits
  <2> QED BY <1>4, <2>1, Limits, BlockPlace
<1>6. PICK c : c = Seek(dev, f.pos)
  OBVIOUS
<1>7. DeviceOK(c) /\ c.size <= Farthest
  BY <1>5, <1>6, SeekLemma DEF ShapeInv
<1>8. /\ DeviceOK(dev') /\ dev'.size <= Farthest /\ moved' \in Seq(Byte)
      /\ fence' \in FenceType /\ fence'.lower = f.lower /\ fence'.upper = f.upper
      /\ fence'.pos = f.pos + Len(moved') /\ fence'.pos <= f.upper
  BY <1>1, <1>3, <1>4, <1>5, <1>6, <1>7, ThroughShape
<1>9. FenceOK' /\ fence'.pos \in fence'.lower..fence'.upper
  <2>1. PICK t \in Nat : t = BlockCount * BlockSize
    BY Limits
  <2>2. fence' \in [lower : {BlocksAt}, upper : {BlocksAt + t}, pos : Nat]
    BY <1>4, <1>8, <2>1 DEF FenceType
  <2>3. fence'.pos \in fence'.lower..fence'.upper
    BY <1>4, <1>5, <1>8, <2>1, Limits
  <2> QED BY <2>1, <2>2, <2>3 DEF FenceOK
<1> QED BY <1>2, <1>8, <1>9 DEF ShapeInv

LEMMA ShapeNext == ASSUME ShapeInv, [Next]_vars PROVE ShapeInv'
<1>1. CASE UNCHANGED vars
  BY <1>1 DEF vars, ShapeInv, FenceOK
<1> QED BY <1>1, DevWriteShape, DevReadShape, DevTruncateShape, CursorShape, SubDevShape, BlockShape DEF Next

\* Types, the memory each device has and the bounds of its views.
THEOREM ShapeTheorem == Spec => []ShapeInv
BY ShapeInit, ShapeNext, PTL DEF Spec

\* Growing, shrinking and refused writes in any order leave a memory device the
\* memory its size promises, and a file no other bytes than its own
\* (whio_dev_membuf_trunc(), whio_dev_membuf_write(), whio_dev_memmap_write()).
THEOREM DevicesOKAlways == Spec => []DevicesOK
<1>1. ShapeInv => DevicesOK
  BY DEF ShapeInv, DevicesOK, DeviceOK, DeviceType, FenceType
<1> QED BY <1>1, ShapeTheorem, PTL

-----------------------------------------------------------------------------
(* Blocks *)

\* The bytes of a block.
InBlock(d, id, b) ==
    /\ Start(id) + BlockSize <= d.size
    /\ Len(b) = BlockSize
    /\ \A i \in 1..BlockSize : d.buf[Start(id) + i] = b[i]

BlocksInv == \A id \in BlockId : block[id] # <<>> => InBlock(dev, id, block[id])

\* A device that holds as many bytes and has the same ones in the block.
LEMMA BlockStays ==
    ASSUME NEW d, DeviceOK(d), NEW e, NEW id \in BlockId, NEW b, InBlock(d, id, b),
           d.size <= e.size, e.size \in Nat,
           \A i \in 1..d.size : Start(id) < i /\ i <= Start(id) + BlockSize => e.buf[i] = d.buf[i]
    PROVE  InBlock(e, id, b)
  <1>1. d.size \in Nat /\ Start(id) \in Nat /\ BlockSize \in Nat /\ Start(id) + BlockSize <= d.size
    BY BlockPlace, Limits DEF DeviceOK, DeviceType, InBlock
  <1>2. ASSUME NEW i \in 1..BlockSize PROVE e.buf[Start(id) + i] = b[i]
    <2>1. PICK k \in 1..d.size : k = Start(id) + i /\ Start(id) < k /\ k <= Start(id) + BlockSize
      BY <1>1
    <2>2. d.buf[k] = b[i]
      BY <2>1 DEF InBlock
    <2> QED BY <2>1, <2>2
  <1> QED BY <1>1, <1>2 DEF InBlock

\* Calls that write nothing.
LEMMA ReadsKeepBlocks ==
    ASSUME ShapeInv, BlocksInv, dev'.buf = dev.buf, dev'.size = dev.size, UNCHANGED block
    PROVE  BlocksInv'
  BY DEF BlocksInv, InBlock

\* Calls that pass by the block device.
LEMMA OthersForgetBlocks == ASSUME block' = Unknown PROVE BlocksInv'
  BY DEF BlocksInv, Unknown

\* A block that is written, and the others.
LEMMA BlockWriteKeeps == ASSUME ShapeInv, BlocksInv, BlockWrite PROVE BlocksInv'
<1>0. ShapeInv' /\ DeviceOK(dev')
  BY BlockShape DEF ShapeInv
<1>1. PICK id \in BlockId : \E w \in Seq(Byte) :
         /\ Len(w) = BlockSize /\ Len(moved') <= BlockSize
         /\ WroteThrough(Seek(dev, AtBlock(id).pos), AtBlock(id), dev', fence', moved')
         /\ block' = [block EXCEPT ![id] = IF moved' = w THEN w ELSE <<>>]
         /\ UNCHANGED sub
  BY BlockWriteDoes
<1>2. PICK w \in Seq(Byte) :
         /\ Len(w) = BlockSize /\ Len(moved') <= BlockSize
         /\ WroteThrough(Seek(dev, AtBlock(id).pos), AtBlock(id), dev', fence', moved')
         /\ block' = [block EXCEPT ![id] = IF moved' = w THEN w ELSE <<>>]
  BY <1>1
<1>3. PICK f : f = AtBlock(id)
  OBVIOUS
<1>4. f.pos = Start(id) /\ Start(id) \in Nat /\ BlockSize \in Nat
  BY <1>3, AtBlockLemma, BlockPlace, Limits DEF ShapeInv
<1>5. PICK p \in Nat : p = Start(id)
  BY <1>4
<1>6. PICK c : c = Seek(dev, p)
  OBVIOUS
<1>7. DeviceOK(c) /\ c.buf = dev.buf /\ c.size = dev.size /\ c.pos = p
  BY <1>6, SeekLemma DEF ShapeInv
<1>8. WroteThrough(c, f, dev', fence', moved')
  BY <1>2, <1>3, <1>4, <1>5, <1>6
<1>9. PICK m : m = moved'
  OBVIOUS
<1>10. m \in Seq(Byte) /\ Len(m) \in Nat
  BY <1>0, <1>9 DEF ShapeInv
<1>11. PICK q \in Nat : q = p + Len(m)
  BY <1>10
<1>12. PICK e : e = Seek(dev', q)
  OBVIOUS
<1>13. DeviceOK(e) /\ e.buf = dev'.buf /\ e.size = dev'.size
  BY <1>0, <1>12, SeekLemma
<1>14. Wrote(c, e, m)
  <2>1. f.pos = p
    BY <1>4, <1>5
  <2>2. Wrote(Seek(c, p), Seek(dev', q), m)
    BY <1>8, <1>9, <1>11, <2>1 DEF WroteThrough
  <2>3. Seek(c, p) = c
    BY <1>6, SeekTwice DEF ShapeInv, DeviceOK
  <2> QED BY <1>12, <2>2, <2>3
<1>15. /\ dev.size <= dev'.size /\ dev.size \in Nat /\ dev'.size \in Nat
       /\ Len(m) > 0 => dev'.size = Most(dev.size, q)
       /\ \A i \in 1..dev.size : i \notin p + 1..q => dev'.buf[i] = dev.buf[i]
       /\ \A i \in 1..Len(m) : dev'.buf[p + i] = m[i]
  BY <1>7, <1>11, <1>13, <1>14 DEF Wrote, DeviceOK, DeviceType
<1>16. q <= p + BlockSize
  BY <1>2, <1>4, <1>9, <1>10, <1>11
<1>17. ASSUME NEW a \in BlockId, a # id, block[a] # <<>> PROVE InBlock(dev', a, block[a])
  <2>1. Start(a) + BlockSize <= p \/ p + BlockSize <= Start(a)
    BY <1>5, <1>17, BlocksApart
  <2>2. Start(a) \in Nat
    BY BlockPlace
  <2>3. \A i \in 1..dev.size : Start(a) < i /\ i <= Start(a) + BlockSize => i \notin p + 1..q
    BY <1>4, <1>15, <1>16, <2>1, <2>2
  <2>4. InBlock(dev, a, block[a])
    BY <1>17 DEF BlocksInv
  <2>5. \A i \in 1..dev.size : Start(a) < i /\ i <= Start(a) + BlockSize => dev'.buf[i] = dev.buf[i]
    BY <1>15, <2>3
  <2> QED BY <1>15, <2>4, <2>5, BlockStays DEF ShapeInv
<1>18. ASSUME m = w PROVE InBlock(dev', id, w)
  <2>1. Len(m) = BlockSize /\ BlockSize > 0 /\ q = p + BlockSize
    BY <1>2, <1>11, <1>18, Limits
  <2>2. dev'.size = Most(dev.size, q)
    BY <1>15, <2>1
  <2>3. Start(id) + BlockSize <= dev'.size
    BY <1>5, <1>15, <2>1, <2>2 DEF Most
  <2> QED BY <1>2, <1>5, <1>15, <1>18, <2>1, <2>3 DEF InBlock
<1>19. block' = [block EXCEPT ![id] = IF m = w THEN w ELSE <<>>] /\ block \in [BlockId -> Seq(Byte)]
  BY <1>2, <1>9 DEF ShapeInv
<1> SUFFICES ASSUME NEW a \in BlockId, block'[a] # <<>> PROVE InBlock(dev', a, block'[a])
  BY DEF BlocksInv
<1>20. CASE a = id
  <2>1. m = w /\ block'[a] = w
    BY <1>19, <1>20
  <2> QED BY <1>18, <1>20, <2>1
<1>21. CASE a # id
  <2>1. block'[a] = block[a]
    BY <1>19, <1>21
  <2> QED BY <1>17, <1>21, <2>1
<1> QED BY <1>20, <1>21

LEMMA BlockReadKeeps == ASSUME ShapeInv, BlocksInv, BlockRead PROVE BlocksInv'
<1>1. PICK id \in BlockId :
         /\ GotThrough(Seek(dev, AtBlock(id).pos), AtBlock(id), dev', fence', moved')
         /\ UNCHANGED <<sub, block>>
  BY BlockReadDoes
<1>2. PICK f : f = AtBlock(id)
  OBVIOUS
<1>3. f.pos \in Nat
  BY <1>2, AtBlockLemma, BlockPlace DEF ShapeInv
<1>4. dev' = Seek(dev, f.pos)
  BY <1>1, <1>2 DEF GotThrough
<1>5. dev'.buf = dev.buf /\ dev'.size = dev.size
  BY <1>3, <1>4, SeekLemma DEF ShapeInv
<1> QED BY <1>1, <1>5, ReadsKeepBlocks

LEMMA BlocksNext == ASSUME ShapeInv, BlocksInv, [Next]_vars PROVE BlocksInv'
<1>1. CASE UNCHANGED vars
  BY <1>1, ReadsKeepBlocks DEF vars
<1>2. CASE DevWrite \/ DevTruncate \/ SubDevWrite
  BY <1>2, OthersForgetBlocks, DevWriteDoes, SubDevWriteDoes DEF DevTruncate
<1>3. CASE DevRead
  <2>1. PICK n \in Nat : Got(dev, n, dev', moved')
    BY <1>3, DevReadDoes
  <2>2. dev'.buf = dev.buf /\ dev'.size = dev.size
    BY <2>1 DEF Got, ShapeInv, DeviceOK, DeviceType
  <2> QED BY <1>3, <2>2, DevReadDoes, ReadsKeepBlocks
<1>4. CASE DevSeek \/ SubDevSeek
  <2>1. PICK p \in Position : dev' = Seek(dev, p) /\ UNCHANGED block
    BY <1>4 DEF DevSeek, SubDevSeek
  <2>2. p \in Nat
    BY DEF Position
  <2>3. dev'.buf = dev.buf /\ dev'.size = dev.size
    BY <2>1, <2>2, SeekLemma DEF ShapeInv
  <2> QED BY <2>1, <2>3, ReadsKeepBlocks
<1>5. CASE SubDevRead
  BY <1>5, SubDevReadDoes, ReadsKeepBlocks DEF GotThrough
<1>6. CASE SubDevRebound
  BY <1>6, ReadsKeepBlocks DEF SubDevRebound
<1> QED BY <1>1, <1>2, <1>3, <1>4, <1>5, <1>6, BlockWriteKeeps, BlockReadKeeps DEF Next

LEMMA BlocksInit == Init => BlocksInv
  BY DEF Init, BlocksInv

\* The bytes of every block, whatever other calls come between (whio_blockdev_write()).
THEOREM BlocksTheorem == Spec => [](ShapeInv /\ BlocksInv)
BY ShapeInit, ShapeNext, BlocksInit, BlocksNext, PTL DEF Spec

\* A block that whio_blockdev_write() reported as written holds what was written
\* until it is written again or somebody passes by the block device.
THEOREM BlocksKeptAlways == Spec => []BlocksKept
<1>1. ShapeInv /\ BlocksInv => BlocksKept
  <2> SUFFICES ASSUME ShapeInv, BlocksInv, NEW id \in BlockId, block[id] # <<>>
               PROVE  /\ dev.size >= BlocksAt + (id + 1) * BlockSize
                      /\ SubSeq(Bytes(dev), BlocksAt + id * BlockSize + 1, BlocksAt + (id + 1) * BlockSize) = block[id]
    BY DEF BlocksKept
  <2>1. InBlock(dev, id, block[id]) /\ block[id] \in Seq(Byte)
    BY DEF BlocksInv, ShapeInv
  <2>2. PICK p \in Nat : p = Start(id)
    BY BlockPlace
  <2>3. BlocksAt + id * BlockSize = p /\ BlocksAt + (id + 1) * BlockSize = p + BlockSize /\ BlockSize \in Nat
    BY <2>2, BlockPlace, Limits DEF Start
  <2>4. PICK t : t = Bytes(dev)
    OBVIOUS
  <2>5. /\ dev.buf \in Seq(Byte) /\ dev.size \in Nat /\ dev.size <= Len(dev.buf)
        /\ dev.size \in 0..Len(dev.buf)
    BY DEF ShapeInv, DeviceOK, DeviceType
  <2>6. t \in Seq(Byte) /\ Len(t) = dev.size /\ \A i \in 1..dev.size : t[i] = dev.buf[i]
    BY <2>4, <2>5, FirstBytes DEF Bytes
  <2>7. PICK u : u = SubSeq(t, p + 1, p + BlockSize)
    OBVIOUS
  <2>8. p + BlockSize <= dev.size
    BY <2>1, <2>2 DEF InBlock
  <2>9. u \in Seq(Byte) /\ Len(u) = BlockSize /\ \A i \in 1..BlockSize : u[i] = t[p + i]
    BY <2>3, <2>6, <2>7, <2>8, Slice
  <2>10. \A i \in 1..BlockSize : p + i \in 1..dev.size
    BY <2>3, <2>5, <2>8
  <2>11. u = block[id]
    <3>1. Len(block[id]) = BlockSize /\ \A i \in 1..BlockSize : u[i] = block[id][i]
      BY <2>1, <2>2, <2>6, <2>9, <2>10 DEF InBlock
    <3> QED BY <2>1, <2>9, <3>1, Same
  <2> QED BY <2>3, <2>4, <2>5, <2>7, <2>8, <2>11
<1> QED BY <1>1, BlocksTheorem, PTL

-----------------------------------------------------------------------------
(* The interface *)

LEMMA BytesLemma ==
    ASSUME NEW d, DeviceOK(d)
    PROVE  Bytes(d) \in Seq(Byte) /\ Len(Bytes(d)) = d.size /\ \A i \in 1..d.size : Bytes(d)[i] = d.buf[i]
  <1>1. d.buf \in Seq(Byte) /\ d.size \in 0..Len(d.buf)
    BY DEF DeviceOK, DeviceType
  <1> QED BY <1>1, FirstBytes DEF Bytes

\* The bytes m lie at p, and other ones are as they were.
LEMMA PutBytes ==
    ASSUME ShapeInv, ShapeInv', NEW p \in Nat, NEW q \in Nat, NEW m, m # <<>>,
           Wrote(Seek(dev, p), Seek(dev', q), m)
    PROVE  /\ D!SameElsewhere(p, Len(m))
           /\ p + Len(m) <= Len(Bytes(dev)') /\ SubSeq(Bytes(dev)', p + 1, p + Len(m)) = m
  <1>1. PICK c : c = Seek(dev, p)
    OBVIOUS
  <1>2. PICK e : e = Seek(dev', q)
    OBVIOUS
  <1>3. DeviceOK(dev) /\ DeviceOK(dev')
    BY DEF ShapeInv
  <1>4. c.pos = p /\ c.buf = dev.buf /\ c.size = dev.size /\ e.buf = dev'.buf /\ e.size = dev'.size
    BY <1>1, <1>2, <1>3, SeekLemma
  <1>5. PICK n \in Nat : n = Len(m) /\ n > 0 /\ m \in Seq(Byte)
    <2>1. m \in Seq(Byte)
      BY DEF Wrote
    <2> QED BY <2>1, EmptySeq
  <1>6. dev.size \in Nat /\ dev'.size \in Nat
    BY <1>3 DEF DeviceOK, DeviceType
  <1>7. Wrote(c, e, m)
    BY <1>1, <1>2
  <1>8. /\ dev'.size = Most(dev.size, p + n)
        /\ \A i \in 1..dev.size : i \notin p + 1..p + n => dev'.buf[i] = dev.buf[i]
        /\ \A i \in 1..n : dev'.buf[p + i] = m[i]
    BY <1>4, <1>5, <1>7 DEF Wrote
  <1>9. PICK b : b = Bytes(dev)
    OBVIOUS
  <1>10. PICK b2 : b2 = Bytes(dev')
    OBVIOUS
  <1>11. /\ b \in Seq(Byte) /\ Len(b) = dev.size /\ \A i \in 1..dev.size : b[i] = dev.buf[i]
         /\ b2 \in Seq(Byte) /\ Len(b2) = dev'.size /\ \A i \in 1..dev'.size : b2[i] = dev'.buf[i]
    BY <1>3, <1>9, <1>10, BytesLemma
  <1>12. dev'.size = (IF p + n > dev.size THEN p + n ELSE dev.size) /\ p + n <= dev'.size /\ dev.size <= dev'.size
    BY <1>5, <1>6, <1>8 DEF Most
  <1>13. \A i \in 1..dev.size : i \notin p + 1..p + n => b2[i] = b[i]
    BY <1>6, <1>8, <1>11, <1>12
  <1>14. D!SameElsewhere(p, Len(m))
    BY <1>5, <1>9, <1>10, <1>11, <1>12, <1>13 DEF D!SameElsewhere, Bytes
  <1>15. PICK u : u = SubSeq(b2, p + 1, p + n)
    OBVIOUS
  <1>16. u \in Seq(Byte) /\ Len(u) = n /\ \A i \in 1..n : u[i] = b2[p + i]
    BY <1>11, <1>12, <1>15, Slice
  <1>17. \A i \in 1..n : p + i \in 1..dev'.size
    BY <1>6, <1>12
  <1>18. u = m
    <2>1. \A i \in 1..n : u[i] = m[i]
      BY <1>8, <1>11, <1>16, <1>17
    <2> QED BY <1>5, <1>16, <2>1, Same
  <1> QED BY <1>5, <1>10, <1>11, <1>12, <1>14, <1>15, <1>18 DEF Bytes

\* The bytes m are those at p.
LEMMA GetBytes ==
    ASSUME ShapeInv, ShapeInv', NEW p \in Nat, NEW m \in Seq(Byte), p + Len(m) <= dev.size,
           \A i \in 1..Len(m) : m[i] = dev.buf[p + i],
           dev'.buf = dev.buf, dev'.size = dev.size
    PROVE  /\ Bytes(dev)' = Bytes(dev)
           /\ p + Len(m) <= Len(Bytes(dev)') /\ SubSeq(Bytes(dev)', p + 1, p + Len(m)) = m
  <1>1. PICK b : b = Bytes(dev)
    OBVIOUS
  <1>2. Bytes(dev)' = b
    BY <1>1 DEF Bytes
  <1>3. b \in Seq(Byte) /\ Len(b) = dev.size /\ \A i \in 1..dev.size : b[i] = dev.buf[i]
    BY <1>1, BytesLemma DEF ShapeInv
  <1>4. PICK n \in Nat : n = Len(m)
    OBVIOUS
  <1>5. PICK u : u = SubSeq(b, p + 1, p + n)
    OBVIOUS
  <1>6. u \in Seq(Byte) /\ Len(u) = n /\ \A i \in 1..n : u[i] = b[p + i]
    BY <1>3, <1>4, <1>5, Slice
  <1>7. dev.size \in Nat
    BY DEF ShapeInv, DeviceOK, DeviceType
  <1>8. \A i \in 1..n : p + i \in 1..dev.size
    BY <1>4, <1>7
  <1>9. u = m
    <2>1. \A i \in 1..n : u[i] = m[i]
      BY <1>3, <1>4, <1>6, <1>8
    <2> QED BY <1>4, <1>6, <2>1, Same
  <1> QED BY <1>1, <1>2, <1>3, <1>4, <1>5, <1>9

View == {"dev", "sub", "fence"}
At == [dev |-> dev.pos, sub |-> sub.pos, fence |-> fence.pos]

LEMMA InitDevice == ASSUME Init PROVE D!Init
<1>1. ShapeInv
  BY ShapeInit
<1>2. Farthest \in Nat /\ BlocksAt \in Nat /\ BlocksAt <= Farthest
  BY Limits
<1>3. dev.pos = 0 /\ sub.pos = sub.lower /\ fence.pos = BlocksAt /\ moved = <<>>
  BY DEF Init, Fence
<1>4. sub.pos \in Nat /\ sub.lower <= Farthest
  BY <1>1, SubBounds DEF FenceType
<1>5. dev.pos \in 0..Farthest /\ sub.pos \in 0..Farthest /\ fence.pos \in 0..Farthest
  BY <1>2, <1>3, <1>4
<1> QED BY <1>3, <1>5 DEF D!Init, D!Position

\* Where both ends lie behind them, the bytes stay.
LEMMA SettledBytes ==
    ASSUME ShapeInv, ShapeInv', \A i \in 1..dev.size : i <= dev'.size => dev'.buf[i] = dev.buf[i]
    PROVE  \A i \in 1..Len(Bytes(dev)) : i <= Len(Bytes(dev)') => (Bytes(dev)')[i] = Bytes(dev)[i]
  <1>1. PICK b : b = Bytes(dev)
    OBVIOUS
  <1>2. PICK b2 : b2 = Bytes(dev')
    OBVIOUS
  <1>3. /\ Len(b) = dev.size /\ \A i \in 1..dev.size : b[i] = dev.buf[i]
        /\ Len(b2) = dev'.size /\ \A i \in 1..dev'.size : b2[i] = dev'.buf[i]
    BY <1>1, <1>2, BytesLemma DEF ShapeInv
  <1>4. dev.size \in Nat /\ dev'.size \in Nat
    BY DEF ShapeInv, DeviceOK, DeviceType
  <1>5. \A i \in 1..dev.size : i <= dev'.size => b2[i] = b[i]
    BY <1>3, <1>4
  <1>6. Bytes(dev)' = b2
    BY <1>2 DEF Bytes
  <1> QED BY <1>1, <1>3, <1>5, <1>6

\* A call that transfers nothing and leaves the cursors, or has sought v before.
LEMMA SettleIs ==
    ASSUME ShapeInv, ShapeInv', NEW v \in View, moved' = <<>>, Window' = Window,
           \A i \in 1..dev.size : i <= dev'.size => dev'.buf[i] = dev.buf[i],
           At' = At \/ \E p \in 0..Farthest : D!WentFrom(v, p, 0)
    PROVE  D!Settle(v)
  BY SettledBytes DEF D!Settle, D!Position, At

\* A write through a view: of a device d whose bytes are those of dev.
LEMMA PutIs ==
    ASSUME ShapeInv, ShapeInv', NEW v \in View, NEW p \in Nat, NEW q \in Nat, moved' # <<>>,
           Wrote(Seek(dev, p), Seek(dev', q), moved'),
           (At')[v] = p + Len(moved'), D!Within(p, Len(moved'), Window[v]),
           D!WentOn(v, p, Len(moved')) \/ D!WentFrom(v, p, Len(moved')), Window' = Window
    PROVE  D!Put(v)
  <1>1. PICK m : m = moved'
    OBVIOUS
  <1>2. PICK n \in Nat : n = Len(m)
    BY <1>1 DEF ShapeInv
  <1>3. /\ D!SameElsewhere(p, n)
        /\ p + n <= Len(Bytes(dev)') /\ SubSeq(Bytes(dev)', p + 1, p + n) = m
    BY <1>1, <1>2, PutBytes
  <1>4. D!From(v) = p
    BY <1>1, <1>2 DEF D!From, At
  <1>5. D!Transfer(v, p)
    BY <1>1, <1>2, <1>3 DEF D!Transfer
  <1> QED BY <1>1, <1>2, <1>3, <1>4, <1>5 DEF D!Put

\* A read through a view.
LEMMA GetIs ==
    ASSUME ShapeInv, ShapeInv', NEW v \in View, NEW p \in Nat, moved' # <<>>,
           p + Len(moved') <= dev.size, \A i \in 1..Len(moved') : (moved')[i] = dev.buf[p + i],
           dev'.buf = dev.buf, dev'.size = dev.size,
           (At')[v] = p + Len(moved'), D!Within(p, Len(moved'), Window[v]),
           D!WentOn(v, p, Len(moved')) \/ D!WentFrom(v, p, Len(moved')), Window' = Window
    PROVE  D!Get(v)
  <1>1. PICK m \in Seq(Byte) : m = moved'
    BY DEF ShapeInv
  <1>2. PICK n \in Nat : n = Len(m)
    OBVIOUS
  <1>3. /\ Bytes(dev)' = Bytes(dev)
        /\ p + n <= Len(Bytes(dev)') /\ SubSeq(Bytes(dev)', p + 1, p + n) = m
    BY <1>1, <1>2, GetBytes
  <1>4. D!From(v) = p
    BY <1>1, <1>2 DEF D!From, At
  <1>5. D!Transfer(v, p)
    BY <1>1, <1>2, <1>3 DEF D!Transfer
  <1> QED BY <1>1, <1>3, <1>4, <1>5 DEF D!Get

LEMMA DevWriteIs == ASSUME ShapeInv, ShapeInv', DevWrite PROVE D!Put("dev") \/ D!Settle("dev")
<1>1. PICK w \in Data : Written(dev, w, [dev |-> dev', moved |-> moved']) /\ dev.pos + Len(w) <= MaxSize
  BY DevWriteDoes
<1>2. UNCHANGED <<sub, fence>>
  BY DevWriteDoes
<1>3. PICK m : m = moved'
  OBVIOUS
<1>4. Wrote(dev, dev', m) /\ Len(m) <= Len(w)
  BY <1>1, <1>3 DEF Written
<1>5. PICK n \in Nat : n = Len(m) /\ m \in Seq(Byte)
  BY <1>4 DEF Wrote
<1>6. PICK p \in Nat : p = dev.pos
  BY DEF ShapeInv, DeviceOK, DeviceType
<1>7. dev'.pos = p + n /\ p + n <= Farthest
  <2>1. Len(w) \in Nat /\ p + n <= MaxSize
    <3>1. Len(w) \in Nat /\ p + Len(w) <= MaxSize /\ n <= Len(w)
      BY <1>1, <1>4, <1>5, <1>6, DataLemma
    <3>2. MaxSize \in Nat
      BY Limits
    <3> QED BY <3>1, <3>2
  <2> QED BY <1>4, <1>5, <1>6, <2>1, Limits DEF Wrote
<1>8. CASE m # <<>>
  <2>1. PICK q \in Nat : q = p + n
    OBVIOUS
  <2>2. Seek(dev, p) = dev /\ Seek(dev', q) = dev'
    BY <1>6, <1>7, <2>1, SeekTwice DEF ShapeInv, DeviceOK
  <2>3. Wrote(Seek(dev, p), Seek(dev', q), m)
    BY <1>4, <2>2
  <2>4. D!Within(p, n, Window["dev"])
    BY <1>7, Limits DEF D!Within, D!Shut, Window
  <2>5. D!WentOn("dev", p, n)
    BY <1>2, <1>6, <1>7 DEF D!WentOn, At
  <2>6. Window' = Window
    BY <1>2 DEF Window
  <2>7. (At')["dev"] = p + n
    BY <1>7 DEF At
  <2> QED BY <1>3, <1>5, <1>8, <2>3, <2>4, <2>5, <2>6, <2>7, PutIs DEF View
<1>9. CASE m = <<>>
  <2>1. At' = At
    BY <1>2, <1>5, <1>6, <1>7, <1>9 DEF At
  <2>2. Window' = Window
    BY <1>2 DEF Window
  <2>3. \A i \in 1..dev.size : dev'.buf[i] = dev.buf[i]
    BY <1>4, <1>5, <1>6, <1>9 DEF Wrote
  <2> QED BY <1>3, <1>9, <2>1, <2>2, <2>3, SettleIs DEF View
<1> QED BY <1>8, <1>9

LEMMA DevReadIs == ASSUME ShapeInv, ShapeInv', DevRead PROVE D!Get("dev") \/ D!Settle("dev")
<1>1. PICK k \in Nat : Got(dev, k, dev', moved')
  BY DevReadDoes
<1>2. UNCHANGED <<sub, fence>>
  BY DevReadDoes
<1>3. PICK m : m = moved'
  OBVIOUS
<1>4. Got(dev, k, dev', m)
  BY <1>1, <1>3
<1>5. PICK n \in Nat : n = Len(m) /\ m \in Seq(Byte)
  BY <1>4 DEF Got
<1>6. PICK p \in Nat : p = dev.pos
  BY DEF ShapeInv, DeviceOK, DeviceType
<1>7. dev'.pos = p + n /\ dev'.buf = dev.buf /\ dev'.size = dev.size
  <2>1. PICK q \in Nat : q = p + n
    OBVIOUS
  <2>2. dev' = [dev EXCEPT !.pos = q]
    BY <1>4, <1>5, <1>6, <2>1 DEF Got
  <2> QED BY <2>1, <2>2 DEF ShapeInv, DeviceOK, DeviceType
<1>8. Window' = Window
  BY <1>2 DEF Window
<1>9. CASE m # <<>>
  <2>1. n > 0
    BY <1>5, <1>9, EmptySeq
  <2>2. p + n <= dev.size /\ \A i \in 1..n : m[i] = dev.buf[p + i]
    BY <1>4, <1>5, <1>6, <2>1 DEF Got
  <2>3. D!Within(p, n, Window["dev"])
    <3>1. dev.size \in Nat /\ dev.size <= Farthest
      BY DEF ShapeInv, DeviceOK, DeviceType
    <3>2. p + n <= Farthest
      BY <2>2, <3>1, Limits
    <3> QED BY <2>1, <3>2, Limits DEF D!Within, D!Shut, Window
  <2>4. D!WentOn("dev", p, n)
    BY <1>2, <1>6, <1>7 DEF D!WentOn, At
  <2>5. (At')["dev"] = p + n
    BY <1>7 DEF At
  <2> QED BY <1>3, <1>5, <1>7, <1>8, <1>9, <2>2, <2>3, <2>4, <2>5, GetIs DEF View
<1>10. CASE m = <<>>
  <2>1. At' = At
    BY <1>2, <1>5, <1>6, <1>7, <1>10 DEF At
  <2>2. \A i \in 1..dev.size : dev'.buf[i] = dev.buf[i]
    BY <1>7
  <2> QED BY <1>3, <1>8, <1>10, <2>1, <2>2, SettleIs DEF View
<1> QED BY <1>9, <1>10

LEMMA DevTruncateIs == ASSUME ShapeInv, ShapeInv', DevTruncate PROVE D!Settle("dev")
<1>1. PICK n \in 0..MaxSize : dev' = Trunc(dev, n) /\ moved' = <<>> /\ UNCHANGED <<sub, fence>>
  BY DEF DevTruncate
<1>2. n \in Nat
  OBVIOUS
<1>3. Keeps(dev, dev')
  BY <1>1, <1>2, TruncLemma DEF ShapeInv
<1>4. At' = At
  BY <1>1, <1>3 DEF At, Keeps
<1>5. Window' = Window
  BY <1>1 DEF Window
<1>6. \A i \in 1..dev.size : i <= dev'.size => dev'.buf[i] = dev.buf[i]
  BY <1>3 DEF Keeps
<1> QED BY <1>1, <1>4, <1>5, <1>6, SettleIs DEF View

\* A seek takes the device's own cursor along, whoever makes it.
LEMMA SeekIs == ASSUME ShapeInv, ShapeInv', DevSeek \/ SubDevSeek PROVE D!Place("dev") \/ D!Place("sub")
<1>1. PICK p \in Position : /\ dev' = Seek(dev, p) /\ moved' = <<>> /\ UNCHANGED fence
                            /\ sub' = sub \/ sub' = [sub EXCEPT !.pos = p]
  BY DEF DevSeek, SubDevSeek
<1>2. p \in Nat /\ p \in 0..Farthest
  BY Limits DEF Position
<1>3. dev'.pos = p /\ dev'.buf = dev.buf /\ dev'.size = dev.size
  BY <1>1, <1>2, SeekLemma DEF ShapeInv
<1>4. Bytes(dev)' = Bytes(dev)
  BY <1>3 DEF Bytes
<1>5. CASE sub' = sub
  <2>1. At' = D!SoughtTo("dev", p)
    BY <1>1, <1>3, <1>5 DEF At, D!SoughtTo
  <2>2. Window' = Window
    BY <1>1, <1>5 DEF Window
  <2> QED BY <1>1, <1>2, <1>4, <2>1, <2>2 DEF D!Place, D!Position, At
<1>6. CASE sub' = [sub EXCEPT !.pos = p]
  <2>1. sub'.pos = p /\ sub'.lower = sub.lower /\ sub'.upper = sub.upper
    BY <1>2, <1>6 DEF ShapeInv, FenceType
  <2>2. At' = D!SoughtTo("sub", p)
    BY <1>1, <1>3, <2>1 DEF At, D!SoughtTo
  <2>3. Window' = Window
    BY <1>1, <2>1 DEF Window
  <2> QED BY <1>1, <1>2, <1>4, <2>2, <2>3 DEF D!Place, D!Position, At
<1> QED BY <1>1, <1>5, <1>6

LEMMA SubDevReboundIs == ASSUME ShapeInv, ShapeInv', SubDevRebound PROVE D!Rebound("sub")
<1>1. PICK b \in Bounds : /\ sub' = [lower |-> b[1], upper |-> b[2], pos |-> b[1]] /\ moved' = <<>>
                          /\ UNCHANGED <<dev, fence>>
  BY DEF SubDevRebound
<1>2. b[1] \in 0..Farthest /\ b[2] \in 0..Farthest
  BY BoundsLemma, Limits
<1>3. PICK w \in [lo : 0..Farthest, hi : 0..Farthest] : w = [lo |-> b[1], hi |-> b[2]]
  BY <1>2
<1>4. Window' = [Window EXCEPT !["sub"] = w]
  BY <1>1, <1>3 DEF Window
<1>5. At' = [At EXCEPT !["sub"] = w.lo]
  BY <1>1, <1>3 DEF At
<1>6. Bytes(dev)' = Bytes(dev)
  BY <1>1 DEF Bytes
<1> QED BY <1>1, <1>3, <1>4, <1>5, <1>6 DEF D!Rebound, D!Position, At

\* Transfers through the sub-device.
LEMMA SubDevIs == ASSUME ShapeInv, ShapeInv', SubDevWrite \/ SubDevRead
                  PROVE  D!Put("sub") \/ D!Get("sub") \/ D!Settle("sub")
<1>1. WroteThrough(dev, sub, dev', sub', moved') \/ GotThrough(dev, sub, dev', sub', moved')
  BY SubDevWriteDoes, SubDevReadDoes
<1>2. UNCHANGED fence
  BY SubDevWriteDoes, SubDevReadDoes
<1>3. sub \in FenceType /\ sub.upper <= Farthest /\ DeviceOK(dev) /\ dev.size <= Farthest
  BY SubBounds DEF ShapeInv
<1>4. PICK m : m = moved'
  OBVIOUS
<1>5. PICK n \in Nat : n = Len(m)
  BY <1>4 DEF ShapeInv
<1>6. PICK p \in Nat : p = sub.pos
  BY <1>3 DEF FenceType
<1>7. dev'.pos = dev.pos /\ sub'.lower = sub.lower /\ sub'.upper = sub.upper /\ sub'.pos = p + n
  BY <1>1, <1>3, <1>4, <1>5, <1>6, ThroughShape
<1>8. Window' = Window
  BY <1>2, <1>7 DEF Window
<1>9. (At')["sub"] = p + n
  BY <1>7 DEF At
<1>10. D!WentOn("sub", p, n)
  BY <1>2, <1>6, <1>7 DEF D!WentOn, At
<1>11. CASE m # <<>>
  <2>1. sub.lower <= p /\ p + n <= sub.upper
    BY <1>1, <1>4, <1>5, <1>6, <1>11 DEF WroteThrough, GotThrough
  <2>2. D!Within(p, n, Window["sub"])
    <3>1. n > 0
      BY <1>4, <1>5, <1>11, EmptySeq DEF ShapeInv
    <3>2. Window["sub"].lo = sub.lower /\ Window["sub"].hi = sub.upper /\ sub.upper \in Nat
      BY <1>3 DEF Window, FenceType
    <3> QED BY <2>1, <3>1, <3>2 DEF D!Within, D!Shut
  <2>3. CASE WroteThrough(dev, sub, dev', sub', moved')
    <3>1. PICK q \in Nat : q = p + n
      OBVIOUS
    <3>2. Wrote(Seek(dev, p), Seek(dev', q), m)
      BY <1>4, <1>5, <1>6, <2>3, <3>1 DEF WroteThrough
    <3> QED BY <1>4, <1>5, <1>8, <1>9, <1>10, <1>11, <2>2, <3>2, PutIs DEF View
  <2>4. CASE GotThrough(dev, sub, dev', sub', moved')
    <3>1. dev' = dev /\ p + n <= dev.size /\ \A i \in 1..n : m[i] = dev.buf[p + i]
      BY <1>4, <1>5, <1>6, <1>11, <2>4 DEF GotThrough
    <3> QED BY <1>4, <1>5, <1>8, <1>9, <1>10, <1>11, <2>2, <3>1, GetIs DEF View
  <2> QED BY <1>1, <2>3, <2>4
<1>12. CASE m = <<>>
  <2>1. At' = At
    BY <1>2, <1>5, <1>6, <1>7, <1>12 DEF At
  <2>2. \A i \in 1..dev.size : i <= dev'.size => dev'.buf[i] = dev.buf[i]
    <3>1. CASE WroteThrough(dev, sub, dev', sub', moved')
      <4>1. PICK q \in Nat : q = p + n
        OBVIOUS
      <4>2. Wrote(Seek(dev, p), Seek(dev', q), m)
        BY <1>4, <1>5, <1>6, <3>1, <4>1 DEF WroteThrough
      <4>3. Seek(dev, p).buf = dev.buf /\ Seek(dev, p).size = dev.size /\ Seek(dev', q).buf = dev'.buf
            /\ Seek(dev, p).pos = p
        BY SeekLemma DEF ShapeInv
      <4> QED BY <1>5, <1>12, <4>2, <4>3 DEF Wrote
    <3>2. CASE GotThrough(dev, sub, dev', sub', moved')
      BY <3>2 DEF GotThrough
    <3> QED BY <1>1, <3>1, <3>2
  <2> QED BY <1>4, <1>8, <1>12, <2>1, <2>2, SettleIs DEF View
<1> QED BY <1>11, <1>12

\* Transfers of the block device, through its fence, which seeks first.
LEMMA BlockIs == ASSUME ShapeInv, ShapeInv', BlockWrite \/ BlockRead
                 PROVE  D!Put("fence") \/ D!Get("fence") \/ D!Settle("fence")
<1>1. PICK id \in BlockId :
         \/ WroteThrough(Seek(dev, AtBlock(id).pos), AtBlock(id), dev', fence', moved')
         \/ GotThrough(Seek(dev, AtBlock(id).pos), AtBlock(id), dev', fence', moved')
  BY BlockWriteDoes, BlockReadDoes
<1>2. UNCHANGED sub
  BY BlockWriteDoes, BlockReadDoes
<1>3. PICK f : f = AtBlock(id)
  OBVIOUS
<1>4. f \in FenceType /\ f.pos = Start(id) /\ f.lower = BlocksAt /\ f.upper = BlocksAt + BlockCount * BlockSize
  BY <1>3, AtBlockLemma DEF ShapeInv
<1>5. fence.lower = f.lower /\ fence.upper = f.upper
  BY <1>4 DEF ShapeInv, FenceOK
<1>6. f.upper <= Farthest /\ f.lower <= f.pos /\ f.pos <= f.upper /\ f.upper \in Nat /\ f.pos \in Nat
  <2>1. PICK t \in Nat : t = BlockCount * BlockSize
    BY Limits
  <2> QED BY <1>4, <2>1, Limits, BlockPlace
<1>7. PICK p \in Nat : p = f.pos /\ p \in 0..Farthest
  BY <1>6, Limits
<1>8. PICK c : c = Seek(dev, p)
  OBVIOUS
<1>9. DeviceOK(c) /\ c.buf = dev.buf /\ c.size = dev.size /\ c.pos = p /\ c.size <= Farthest
  BY <1>8, SeekLemma DEF ShapeInv
<1>10. WroteThrough(c, f, dev', fence', moved') \/ GotThrough(c, f, dev', fence', moved')
  BY <1>1, <1>3, <1>7, <1>8
<1>11. PICK m : m = moved'
  OBVIOUS
<1>12. PICK n \in Nat : n = Len(m)
  BY <1>11 DEF ShapeInv
<1>13. dev'.pos = p /\ fence'.lower = f.lower /\ fence'.upper = f.upper /\ fence'.pos = p + n
  BY <1>4, <1>6, <1>7, <1>9, <1>10, <1>11, <1>12, ThroughShape
<1>14. Window' = Window
  BY <1>2, <1>5, <1>13 DEF Window
<1>15. (At')["fence"] = p + n
  BY <1>13 DEF At
<1>16. D!WentFrom("fence", p, n)
  BY <1>2, <1>13 DEF D!WentFrom, D!SoughtTo, At
<1>17. CASE m # <<>>
  <2>1. f.lower <= p /\ p + n <= f.upper
    BY <1>7, <1>10, <1>11, <1>12, <1>17 DEF WroteThrough, GotThrough
  <2>2. D!Within(p, n, Window["fence"])
    <3>1. n > 0
      BY <1>11, <1>12, <1>17, EmptySeq DEF ShapeInv
    <3>2. Window["fence"].lo = f.lower /\ Window["fence"].hi = f.upper
      BY <1>5 DEF Window
    <3> QED BY <1>6, <1>7, <2>1, <3>1, <3>2 DEF D!Within, D!Shut
  <2>3. CASE WroteThrough(c, f, dev', fence', moved')
    <3>1. PICK q \in Nat : q = p + n
      OBVIOUS
    <3>2. Wrote(Seek(c, p), Seek(dev', q), m)
      BY <1>7, <1>11, <1>12, <2>3, <3>1 DEF WroteThrough
    <3>3. Seek(c, p) = Seek(dev, p)
      BY <1>8, SeekTwice DEF ShapeInv, DeviceOK
    <3>4. Wrote(Seek(dev, p), Seek(dev', q), m)
      BY <3>2, <3>3
    <3> QED BY <1>11, <1>12, <1>14, <1>15, <1>16, <1>17, <2>2, <3>4, PutIs DEF View
  <2>4. CASE GotThrough(c, f, dev', fence', moved')
    <3>1. dev' = c /\ p + n <= dev.size /\ \A i \in 1..n : m[i] = dev.buf[p + i]
      BY <1>7, <1>9, <1>11, <1>12, <1>17, <2>4 DEF GotThrough
    <3>2. dev'.buf = dev.buf /\ dev'.size = dev.size
      BY <1>9, <3>1
    <3> QED BY <1>11, <1>12, <1>14, <1>15, <1>16, <1>17, <2>2, <3>1, <3>2, GetIs DEF View
  <2> QED BY <1>10, <2>3, <2>4
<1>18. CASE m = <<>>
  <2>1. n = 0 /\ (At')["fence"] = p
    BY <1>12, <1>15, <1>18
  <2>2. \A i \in 1..dev.size : i <= dev'.size => dev'.buf[i] = dev.buf[i]
    <3>1. CASE WroteThrough(c, f, dev', fence', moved')
      <4>1. PICK q \in Nat : q = p + n
        OBVIOUS
      <4>2. Wrote(Seek(c, p), Seek(dev', q), m)
        BY <1>7, <1>11, <1>12, <3>1, <4>1 DEF WroteThrough
      <4>3. Seek(c, p).buf = dev.buf /\ Seek(c, p).size = dev.size /\ Seek(c, p).pos = p
        BY <1>9, SeekLemma
      <4>4. Seek(dev', q).buf = dev'.buf
        BY SeekLemma DEF ShapeInv
      <4> QED BY <1>12, <1>18, <2>1, <4>2, <4>3, <4>4 DEF Wrote
    <3>2. CASE GotThrough(c, f, dev', fence', moved')
      BY <1>9, <3>2 DEF GotThrough
    <3> QED BY <1>10, <3>1, <3>2
  <2>3. D!WentFrom("fence", p, 0)
    BY <1>16, <2>1
  <2> QED BY <1>7, <1>11, <1>14, <1>18, <2>1, <2>2, <2>3, SettleIs DEF View
<1> QED BY <1>17, <1>18

LEMMA DeviceNext == ASSUME ShapeInv, [Next]_vars, ShapeInv' PROVE [D!Next]_(D!vars)
<1>1. CASE UNCHANGED vars
  BY <1>1 DEF vars, D!vars, Bytes, Window
<1>2. CASE Next
  <2>1. \E v \in View : D!Put(v) \/ D!Get(v) \/ D!Settle(v) \/ D!Place(v) \/ D!Rebound(v)
    BY <1>2, DevWriteIs, DevReadIs, DevTruncateIs, SeekIs, SubDevReboundIs, SubDevIs, BlockIs DEF Next, View
  <2> QED BY <2>1 DEF D!Next, View
<1> QED BY <1>1, <1>2

\* Every kind of device of whio_dev_mem.c and whio_dev_fileno.c, with a sub-device
\* and a block device over it, keeps the promise of the whio_dev interface:
\* bytes change only where a call reports them written, inside the bounds of the
\* view it used, what is read is what is there, and a transfer through the device
\* or the sub-device moves no other cursor.  The interface is the code's where
\* whio_devs.h says otherwise: a seek of a view, with which every transfer of the
\* block device begins, takes the device's cursor along, and a sub-device with
\* the upper bound 0 transfers nothing.
THEOREM DeviceTheorem == Spec => DeviceSpec
<1>1. ShapeInv /\ ShapeInv' /\ [Next]_vars => [D!Next]_(D!vars)
  BY DeviceNext
<1> QED BY <1>1, InitDevice, ShapeTheorem, PTL DEF Spec, DeviceSpec, D!Spec
=============================================================================
