--------------------------- MODULE ContainerProofs ---------------------------
(***************************************************************************)
(* Theorems about Container: what a container that closes, reopens, grows,  *)
(* crashes and fails keeps, for any number of blocks and of faults.         *)
(***************************************************************************)
EXTENDS Container, TLAPS

\* The steps of a call in the order they are made.  Making: mkfs from the
\* moment the file has its new size; Working: a container that is open.
Appending == {"ap_filesize", "ap_options", "ap_wipe"}
Working == {"open"} \cup Appending
Wiping == {"mk_blocks", "mk_filesize"}
Tabled == {"mk_inodes"} \cup Wiping
Hinted == {"mk_names"} \cup Tabled
Sized == {"mk_hints"} \cup Hinted
Marked == {"mk_options"} \cup Sized
Making == {"mk_magic"} \cup Marked

\* What a step may rely on, whatever failed before.
MakingInv ==
    /\ fs.pc \in {"mk_truncate"} \cup Making =>
        fs.rw /\ fs.located /\ fs.hint = 1 /\ fs.wiped <= fs.blocks /\ fs.eof = fs.blocks
    /\ fs.pc \in {"mk_truncate"} \cup (Making \ Wiping) => fs.wiped = 0
    /\ fs.pc \in Making => Len(disk.slots) = fs.blocks
    /\ fs.pc \in Marked => (fs.slipped \/ disk.magic) /\ disk.filesize = 0
    /\ fs.pc \in Sized => disk.blocks = fs.blocks
    /\ fs.pc \in Hinted => disk.hint # 0
    /\ fs.pc \in Tabled => disk.names
    /\ fs.pc \in Wiping => disk.inodes /\ \A b \in 1 .. fs.wiped : disk.slots[b] # "junk"
    /\ fs.pc = "mk_filesize" => fs.wiped = fs.blocks

WorkingInv ==
    /\ fs.pc # "closed" => disk.exists
    /\ fs.pc = "finalize" => fs.hint = 1
    /\ fs.pc \in Working => fs.located
    /\ fs.pc \in Appending => fs.rw

StepInv == TypeOK /\ Len(disk.slots) <= MaxBlocks /\ MakingInv /\ WorkingInv

\* The header fits the file.
HeaderInv ==
    harm \cap {"header", "ignored"} = {} =>
        /\ fs.pc \notin Making \cup {"finalize"}
        /\ fs.pc = "ap_filesize" => disk.magic /\ disk.hint # 0
        /\ fs.pc # "ap_filesize" => Openable(disk)

\* A size in the header stands for a complete container, and its block count
\* for blocks the file has; blocks behind that count are not in use.
CompleteInv ==
    "ignored" \notin harm =>
        /\ disk.filesize # 0 => disk.names /\ disk.inodes /\ disk.blocks < disk.filesize
        /\ fs.pc \in Working => /\ disk.names /\ disk.inodes /\ fs.blocks <= Len(disk.slots)
                               /\ fs.eof = fs.blocks
        /\ fs.pc \in Appending => fs.wiped <= fs.blocks
        /\ fs.pc = "ap_options" => disk.filesize = Length(disk)
        /\ fs.pc \in {"open", "ap_wipe"} => disk.blocks = fs.blocks
        /\ fs.pc \in {"ap_filesize", "ap_options"} => disk.blocks = fs.wiped
        /\ \A b \in 1 .. Len(disk.slots) :
             disk.slots[b] = "used" => /\ b <= disk.blocks
                                       /\ fs.pc = "ap_wipe" => b <= fs.wiped

\* Every block the container counts has a record, once it is wiped.
ReadableInv ==
    harm \cap {"blocks", "ignored"} = {} =>
        /\ fs.pc \notin Making
        /\ \A b \in 1 .. (IF fs.pc = "ap_wipe" THEN fs.wiped ELSE disk.blocks) : SlotAt(b) # "junk"

\* No block below the hint is free: below that of the object while there is
\* one that can write, and below that on disk otherwise.
Full(h) == \A b \in 1 .. h - 1 : SlotAt(b) = "used"

HintInv ==
    harm \cap {"hints", "ignored"} = {} =>
        /\ fs.pc \in Working => Full(fs.hint)
        /\ fs.pc = "closed" => Full(disk.hint)
        /\ fs.pc \in {"open", "finalize"} /\ ~(fs.rw /\ fs.located) => Full(disk.hint)

ContainerInv == StepInv /\ HeaderInv /\ CompleteInv /\ ReadableInv /\ HintInv

-----------------------------------------------------------------------------
(* What the helpers return.                                                 *)

LEMMA SlotsType ==
  ASSUME NEW n \in Nat, NEW g \in [1 .. n -> Slot]
  PROVE  g \in Seq(Slot) /\ Len(g) = n
OBVIOUS

\* r differs from d in its slots at most.
SameRecords(d, r) ==
    /\ r.exists = d.exists /\ r.magic = d.magic /\ r.filesize = d.filesize
    /\ r.blocks = d.blocks /\ r.hint = d.hint /\ r.names = d.names /\ r.inodes = d.inodes

IsResized(d, n, r) ==
    /\ r \in Disk /\ Len(r.slots) = n
    /\ \A k \in 1 .. n : r.slots[k] = IF k <= Len(d.slots) THEN d.slots[k] ELSE "junk"
    /\ SameRecords(d, r)

LEMMA ResizedFacts ==
  ASSUME NEW d \in Disk, NEW n \in Nat
  PROVE  IsResized(d, n, Resized(d, n))
<1>0. PICK r : r = Resized(d, n)
  OBVIOUS
<1> DEFINE g == [k \in 1 .. n |-> IF k <= Len(d.slots) THEN d.slots[k] ELSE "junk"]
<1>1. g \in [1 .. n -> Slot]
  BY DEF Disk, Slot
<1>2. r = [d EXCEPT !.slots = g]
  BY <1>0 DEF Resized
<1>3. \A k \in 1 .. n : g[k] = IF k <= Len(d.slots) THEN d.slots[k] ELSE "junk"
  OBVIOUS
<1> HIDE DEF g
<1>4. g \in Seq(Slot) /\ Len(g) = n
  BY <1>1, SlotsType
<1>5. IsResized(d, n, r)
  BY <1>2, <1>3, <1>4 DEF Disk, IsResized, SameRecords
<1> QED BY <1>0, <1>5

HasSlot(d, b, s, r) ==
    /\ r \in Disk
    /\ Len(r.slots) = IF b > Len(d.slots) THEN b ELSE Len(d.slots)
    /\ \A k \in 1 .. Len(r.slots) :
          r.slots[k] = IF k = b THEN s ELSE IF k <= Len(d.slots) THEN d.slots[k] ELSE "junk"
    /\ SameRecords(d, r)

LEMMA SlotWritten ==
  ASSUME NEW d \in Disk, NEW b \in 1 .. Len(d.slots), NEW s \in Slot
  PROVE  HasSlot(d, b, s, [d EXCEPT !.slots[b] = s])
<1>1. d.slots \in Seq(Slot) /\ Len(d.slots) \in Nat /\ b \in Nat /\ b <= Len(d.slots)
  BY DEF Disk
<1>2. PICK r : r = [d EXCEPT !.slots = [d.slots EXCEPT ![b] = s]]
  OBVIOUS
<1> DEFINE g == [d.slots EXCEPT ![b] = s]
<1>3. /\ g \in Seq(Slot) /\ Len(g) = Len(d.slots)
      /\ \A k \in 1 .. Len(d.slots) : g[k] = IF k = b THEN s ELSE d.slots[k]
  BY <1>1
<1> HIDE DEF g
<1>4. r \in Disk /\ r.slots = g /\ SameRecords(d, r)
  BY <1>2, <1>3 DEF Disk, g, SameRecords
<1>5. HasSlot(d, b, s, r)
  BY <1>1, <1>3, <1>4 DEF HasSlot
<1>6. r = [d EXCEPT !.slots[b] = s]
  BY <1>2 DEF Disk
<1> QED BY <1>5, <1>6

LEMMA WithSlotFacts ==
  ASSUME NEW d \in Disk, NEW b \in Nat \ {0}, NEW s \in Slot
  PROVE  HasSlot(d, b, s, WithSlot(d, b, s))
<1>1. PICK n \in Nat : n = IF b > Len(d.slots) THEN b ELSE Len(d.slots)
  BY DEF Disk
<1>2. PICK z : z = Resized(d, n)
  OBVIOUS
<1>3. IsResized(d, n, z)
  BY <1>2, ResizedFacts
<1>4. z \in Disk /\ b \in 1 .. Len(z.slots)
  BY <1>1, <1>3 DEF IsResized, Disk
<1>5. PICK r : r = [z EXCEPT !.slots[b] = s]
  OBVIOUS
<1>6. HasSlot(z, b, s, r)
  BY <1>4, <1>5, SlotWritten
<1>7. HasSlot(d, b, s, r)
  BY <1>1, <1>3, <1>4, <1>6 DEF IsResized, HasSlot, SameRecords, Disk
<1> QED BY <1>1, <1>2, <1>5, <1>7 DEF WithSlot

\* Every part of the object but the step of its call.
FsKept ==
    /\ fs'.rw = fs.rw /\ fs'.located = fs.located /\ fs'.hint = fs.hint
    /\ fs'.blocks = fs.blocks /\ fs'.wiped = fs.wiped /\ fs'.eof = fs.eof
    /\ fs'.slipped = fs.slipped

LEMMA GotoFacts == ASSUME TypeOK, NEW st \in Steps, Goto(st)
                   PROVE  fs' \in Fs /\ fs'.pc = st /\ FsKept
BY DEF TypeOK, Fs, Goto, FsKept

LEMMA NoFsType ==
  /\ NoFs \in Fs /\ NoFs.pc = "closed" /\ ~NoFs.rw /\ ~NoFs.located
  /\ NoFs.hint = 1 /\ NoFs.blocks = 0 /\ NoFs.wiped = 0 /\ NoFs.eof = 0
<1>1. 1 \in 1 .. MaxId /\ 0 \in 0 .. MaxId /\ 0 \in 0 .. MaxBlocks
  BY ContainerAssumption
<1> QED BY <1>1 DEF NoFs, Fs, Steps

LEMMA StateTypes ==
  ASSUME TypeOK
  PROVE  /\ fs \in Fs /\ fs.pc \in Steps /\ fs.hint \in 1 .. MaxId
         /\ fs.blocks \in 0 .. MaxId /\ fs.wiped \in 0 .. MaxId /\ fs.eof \in 0 .. MaxBlocks
         /\ MaxId \in Nat /\ MaxId >= 2 /\ MaxId <= MaxBlocks /\ fs.slipped \in BOOLEAN
         /\ disk \in Disk /\ disk.slots \in Seq(Slot) /\ Len(disk.slots) \in Nat
         /\ disk.filesize \in 0 .. MaxBlocks + 1 /\ disk.blocks \in 0 .. MaxId
         /\ disk.hint \in 0 .. MaxId
         /\ faults \in 0 .. MaxFaults /\ MaxBlocks \in Nat /\ MaxFaults \in Nat
BY ContainerAssumption DEF TypeOK, Fs, Disk

\* A write that fails spends a fault and leaves the file as it is.
LEMMA FaultSpent ==
  ASSUME TypeOK, WriteFails
  PROVE  faults' \in 0 .. MaxFaults /\ faults' # faults /\ disk' = disk
BY ContainerAssumption DEF TypeOK, WriteFails

-----------------------------------------------------------------------------
(* The steps of mkfs.                                                       *)

\* A step of mkfs whose write fails: the object is finalized, with the file
\* as it is and the harm already counted.
LEMMA MakingFails ==
  ASSUME ContainerInv, TypeOK', fs.pc \in Making, UNCHANGED disk, harm' = harm, Goto("finalize")
  PROVE  ContainerInv'
<1>1. StepInv /\ TypeOK /\ disk' = disk /\ "finalize" \in Steps
  BY DEF ContainerInv, StepInv, Steps
<1>2. fs'.pc = "finalize" /\ FsKept
  BY <1>1, GotoFacts
<1>3. fs.rw /\ fs.located /\ fs.hint = 1
  BY <1>1 DEF StepInv, MakingInv
<1>4. harm \cap {"header", "ignored"} # {} /\ harm \cap {"blocks", "ignored"} # {}
  BY DEF ContainerInv, HeaderInv, ReadableInv
<1>5. fs'.pc \notin Making /\ fs'.pc \notin Working /\ fs'.pc # "closed"
  BY <1>2 DEF Making, Marked, Sized, Hinted, Tabled, Wiping, Working, Appending
<1>6. StepInv'
  <2>1. disk.exists
    BY <1>1 DEF StepInv, WorkingInv, Making, Marked, Sized, Hinted, Tabled, Wiping
  <2>2. MakingInv'
    BY <1>2, <1>5 DEF MakingInv, Making, Marked, Sized, Hinted, Tabled
  <2>3. WorkingInv'
    BY <1>1, <1>2, <1>3, <1>5, <2>1 DEF WorkingInv, Working, FsKept
  <2> QED BY <1>1, <2>2, <2>3 DEF StepInv
<1>7. HeaderInv' /\ ReadableInv'
  BY <1>4 DEF HeaderInv, ReadableInv
<1>8. CompleteInv'
  BY <1>1, <1>2, <1>5 DEF ContainerInv, CompleteInv, Working, Appending
<1>9. HintInv'
  BY <1>2, <1>3, <1>5 DEF HintInv, FsKept
<1> QED BY <1>6, <1>7, <1>8, <1>9 DEF ContainerInv

LEMMA MkfsStep ==
  ASSUME ContainerInv, NEW n \in 1 .. MaxId, NEW viaDev \in BOOLEAN, Mkfs(n, viaDev)
  PROVE  ContainerInv'
<1>1. /\ fs.pc = "closed" /\ viaDev \in BOOLEAN /\ TypeOK /\ n \in 0 .. MaxId /\ n \in 0 .. MaxBlocks
      /\ dev' = dev /\ faults' = faults /\ harm' = harm
  BY ContainerAssumption DEF Mkfs, ContainerInv, StepInv
<1>2. /\ disk' \in Disk /\ disk'.exists /\ disk'.slots = disk.slots /\ disk'.magic = disk.magic
      /\ disk'.filesize = disk.filesize /\ disk'.blocks = disk.blocks /\ disk'.hint = disk.hint
      /\ disk'.names = disk.names /\ disk'.inodes = disk.inodes
  BY <1>1 DEF Mkfs, TypeOK, Disk
<1>3. /\ fs' \in Fs /\ fs'.pc = "mk_truncate" /\ fs'.rw /\ fs'.located /\ fs'.blocks = n
      /\ fs'.hint = 1 /\ fs'.wiped = 0 /\ fs'.eof = n
  <2>1. PICK o \in BOOLEAN : o = ~viaDev
    OBVIOUS
  <2>2. fs' = [NoFs EXCEPT !.pc = "mk_truncate", !.rw = TRUE, !.located = TRUE,
                           !.owns = o, !.fromDev = viaDev, !.blocks = n, !.eof = n]
    BY <2>1 DEF Mkfs
  <2>3. PICK z : z = NoFs
    OBVIOUS
  <2>4. /\ z \in Fs /\ z.hint = 1 /\ z.wiped = 0
        /\ fs' = [z EXCEPT !.pc = "mk_truncate", !.rw = TRUE, !.located = TRUE,
                           !.owns = o, !.fromDev = viaDev, !.blocks = n, !.eof = n]
    BY <2>2, <2>3, NoFsType
  <2>5. n \in 0 .. MaxId /\ n \in 0 .. MaxBlocks /\ o \in BOOLEAN /\ viaDev \in BOOLEAN /\ "mk_truncate" \in Steps
    BY <1>1 DEF Steps
  <2> QED BY <2>4, <2>5 DEF Fs
<1>4. /\ fs'.pc \notin Making /\ fs'.pc \notin Working
  BY <1>3 DEF Making, Marked, Sized, Hinted, Tabled, Wiping, Working, Appending
<1>5. StepInv'
  <2>1. TypeOK'
    BY <1>1, <1>2, <1>3 DEF TypeOK
  <2>2. MakingInv'
    BY <1>1, <1>3, <1>4 DEF MakingInv, Making, Marked, Sized, Hinted, Tabled
  <2>3. WorkingInv'
    BY <1>2, <1>3, <1>4 DEF WorkingInv, Working
  <2> QED BY <1>2, <2>1, <2>2, <2>3 DEF StepInv, ContainerInv
<1>6. HeaderInv'
  BY <1>1, <1>2, <1>3, <1>4, StateTypes DEF ContainerInv, HeaderInv, Openable, HeaderOK, Length
<1>7. CompleteInv'
  BY <1>1, <1>2, <1>3, <1>4 DEF ContainerInv, CompleteInv, Working
<1>8. ReadableInv'
  BY <1>1, <1>2, <1>3, <1>4 DEF ContainerInv, ReadableInv, SlotAt
<1>9. HintInv'
  BY <1>3, <1>4 DEF HintInv
<1> QED BY <1>5, <1>6, <1>7, <1>8, <1>9 DEF ContainerInv

LEMMA MkfsTruncateStep ==
  ASSUME ContainerInv, MkfsTruncate
  PROVE  ContainerInv'
<1>1. /\ fs.pc = "mk_truncate" /\ TypeOK /\ StepInv /\ dev' = dev
      /\ harm' = harm \cup {"header", "blocks"}
      /\ fs.pc \notin Working /\ fs.pc # "closed" /\ disk.exists
  BY DEF MkfsTruncate, Checked, ContainerInv, StepInv, Working, Appending, WorkingInv
<1>2. /\ fs.rw /\ fs.located /\ fs.hint = 1 /\ fs.wiped <= fs.blocks /\ fs.wiped = 0
      /\ fs.eof = fs.blocks
  BY <1>1 DEF StepInv, MakingInv
<1>3. HeaderInv' /\ ReadableInv'
  BY <1>1 DEF HeaderInv, ReadableInv
<1>4. PICK st \in {"mk_magic", "finalize"} :
        /\ Goto(st)
        /\ \/ st = "mk_magic" /\ disk' = Resized(disk, fs.blocks) /\ faults' = faults
           \/ st = "finalize" /\ disk' = disk /\ faults' = faults + 1 /\ faults < MaxFaults
  BY DEF MkfsTruncate, Checked, Writes, WriteFails
<1>5. fs' \in Fs /\ fs'.pc = st /\ FsKept
  BY <1>1, <1>4, GotoFacts DEF Steps
<1>6. /\ disk' \in Disk /\ SameRecords(disk, disk') /\ Len(disk'.slots) <= MaxBlocks
      /\ st = "mk_magic" => Len(disk'.slots) = fs.blocks
      /\ \A k \in 1 .. Len(disk'.slots) :
           disk'.slots[k] = IF k <= Len(disk.slots) THEN disk.slots[k] ELSE "junk"
  <2>1. CASE st = "mk_magic"
    <3>1. fs.blocks \in Nat /\ fs.blocks <= MaxBlocks /\ disk \in Disk
      BY <1>1, StateTypes
    <3>2. IsResized(disk, fs.blocks, disk')
      BY <1>4, <2>1, <3>1, ResizedFacts
    <3> QED BY <3>1, <3>2 DEF IsResized
  <2>2. CASE st = "finalize"
    <3>1. disk' = disk /\ disk \in Disk /\ Len(disk.slots) \in Nat /\ Len(disk.slots) <= MaxBlocks
      BY <1>1, <1>4, <2>2, StateTypes DEF StepInv
    <3>2. \A k \in 1 .. Len(disk.slots) : k <= Len(disk.slots)
      BY <3>1
    <3> QED BY <2>2, <3>1, <3>2 DEF SameRecords
  <2> QED BY <2>1, <2>2
<1>7. StepInv'
  <2>1. TypeOK'
    <3>1. faults' \in 0 .. MaxFaults
      BY <1>1, <1>4, StateTypes
    <3> QED BY <1>1, <1>5, <1>6, <3>1 DEF TypeOK
  <2>2. MakingInv'
    BY <1>2, <1>4, <1>5, <1>6 DEF MakingInv, FsKept, Making, Marked, Sized, Hinted, Tabled, Wiping
  <2>3. WorkingInv'
    BY <1>1, <1>2, <1>4, <1>5, <1>6 DEF WorkingInv, FsKept, Working, Appending, SameRecords
  <2> QED BY <1>6, <2>1, <2>2, <2>3 DEF StepInv
<1>8. CompleteInv'
  <2>1. fs'.pc \notin Working /\ fs'.pc # "ap_wipe"
    BY <1>4, <1>5 DEF Working, Appending
  <2>2. Len(disk.slots) \in Nat /\ Len(disk'.slots) \in Nat
    BY <1>1, <1>6, StateTypes DEF Disk
  <2> QED BY <1>1, <1>6, <2>1, <2>2 DEF ContainerInv, CompleteInv, Working, Appending, SameRecords
<1>9. HintInv'
  BY <1>2, <1>4, <1>5 DEF HintInv, FsKept, Working, Appending
<1> QED BY <1>3, <1>7, <1>8, <1>9 DEF ContainerInv

\* A step of mkfs that goes on to the next: the invariant is that of MakingInv.
LEMMA MakingGoesOn ==
  ASSUME ContainerInv, StepInv', fs.pc \in Making, fs'.pc \in Making, harm' = harm,
         Len(disk'.slots) = Len(disk.slots),
         \A b \in 1 .. Len(disk.slots) : disk'.slots[b] = "used" => disk.slots[b] = "used",
         disk'.filesize = 0, disk'.blocks \in {disk.blocks, fs.blocks}
  PROVE  ContainerInv'
<1>1. /\ Len(disk.slots) = fs.blocks /\ Len(disk.slots) \in Nat
      /\ harm' \cap {"header", "ignored"} # {} /\ harm' \cap {"blocks", "ignored"} # {}
  BY StateTypes DEF ContainerInv, StepInv, MakingInv, HeaderInv, ReadableInv
<1>2. /\ fs'.pc \notin Working /\ fs'.pc \notin {"closed", "finalize"}
  BY DEF Making, Marked, Sized, Hinted, Tabled, Wiping, Working, Appending
<1>3. HeaderInv' /\ ReadableInv'
  BY <1>1 DEF HeaderInv, ReadableInv
<1>4. CompleteInv'
  BY <1>1, <1>2 DEF ContainerInv, CompleteInv, Working, Appending
<1>5. HintInv'
  BY <1>2 DEF HintInv, Working
<1> QED BY <1>3, <1>4, <1>5 DEF ContainerInv

\* A checked write of the header or of a table.
LEMMA TablesStep ==
  ASSUME ContainerInv, harm' = harm, dev' = dev,
         NEW at, NEW d, NEW st,
         /\ at \in {"mk_magic", "mk_options", "mk_hints", "mk_names", "mk_inodes"}
         /\ Checked(at, d, st)
         /\ \/ at = "mk_magic" /\ d = WithMagic(disk) /\ st = "mk_options"
            \/ at = "mk_options" /\ d = [disk EXCEPT !.blocks = fs.blocks] /\ st = "mk_hints"
            \/ at = "mk_hints" /\ d = [disk EXCEPT !.hint = fs.hint] /\ st = "mk_names"
            \/ at = "mk_names" /\ d = [disk EXCEPT !.names = TRUE] /\ st = "mk_inodes"
            \/ at = "mk_inodes" /\ d = [disk EXCEPT !.inodes = TRUE] /\ st = "mk_blocks"
  PROVE  ContainerInv'
<1>1.   /\ at \in {"mk_magic", "mk_options", "mk_hints", "mk_names", "mk_inodes"}
        /\ Checked(at, d, st)
        /\ \/ at = "mk_magic" /\ d = WithMagic(disk) /\ st = "mk_options"
           \/ at = "mk_options" /\ d = [disk EXCEPT !.blocks = fs.blocks] /\ st = "mk_hints"
           \/ at = "mk_hints" /\ d = [disk EXCEPT !.hint = fs.hint] /\ st = "mk_names"
           \/ at = "mk_names" /\ d = [disk EXCEPT !.names = TRUE] /\ st = "mk_inodes"
           \/ at = "mk_inodes" /\ d = [disk EXCEPT !.inodes = TRUE] /\ st = "mk_blocks"
  OBVIOUS
<1>2. fs.pc = at /\ TypeOK /\ StepInv /\ MakingInv /\ at \in Making
  BY <1>1 DEF Checked, ContainerInv, StepInv, Making, Marked, Sized, Hinted, Tabled
<1>3. CASE WriteFails /\ Goto("finalize")
  <2>1. disk' = disk /\ faults' \in 0 .. MaxFaults /\ fs' \in Fs
    BY <1>2, <1>3, StateTypes, GotoFacts DEF WriteFails, Steps
  <2>2. TypeOK'
    BY <1>2, <2>1 DEF TypeOK
  <2> QED BY <1>2, <1>3, <2>1, <2>2, MakingFails
<1>4. CASE Writes(d) /\ Goto(st)
  <2>1. disk' = d /\ faults' = faults
    BY <1>4 DEF Writes
  <2>2. fs' \in Fs /\ fs'.pc = st /\ FsKept
    BY <1>1, <1>2, <1>4, GotoFacts DEF Steps
  <2>3. /\ fs.rw /\ fs.located /\ fs.hint = 1 /\ fs.wiped <= fs.blocks /\ fs.eof = fs.blocks
        /\ Len(disk.slots) = fs.blocks /\ fs.wiped \in Nat /\ fs.blocks \in 0 .. MaxId
        /\ MaxId <= MaxBlocks /\ MaxId \in Nat /\ MaxBlocks \in Nat
        /\ disk \in Disk /\ disk.exists
    <3>1. disk.exists
      BY <1>1, <1>2 DEF StepInv, WorkingInv
    <3> QED BY <1>2, <3>1, StateTypes DEF MakingInv
  <2>4. /\ disk' \in Disk /\ disk'.slots = disk.slots /\ disk'.exists = disk.exists
        /\ at = "mk_magic" => disk'.magic /\ disk'.filesize = 0
        /\ at # "mk_magic" => disk'.magic = disk.magic /\ disk'.filesize = disk.filesize
        /\ at = "mk_options" => disk'.blocks = fs.blocks
        /\ at # "mk_options" => disk'.blocks = disk.blocks
        /\ at = "mk_hints" => disk'.hint = 1
        /\ at # "mk_hints" => disk'.hint = disk.hint
        /\ at = "mk_names" \/ disk.names => disk'.names
        /\ at = "mk_inodes" \/ disk.inodes => disk'.inodes
    <3>1. CASE at = "mk_magic"
      <4>1. disk' = [disk EXCEPT !.magic = TRUE, !.filesize = 0]
        BY <1>1, <2>1, <3>1 DEF WithMagic
      <4>2. 0 \in 0 .. MaxBlocks + 1
        BY ContainerAssumption
      <4> QED BY <2>3, <3>1, <4>1, <4>2 DEF Disk
    <3>2. CASE at = "mk_options"
      <4>1. disk' = [disk EXCEPT !.blocks = fs.blocks]
        BY <1>1, <2>1, <3>2
      <4> QED BY <2>3, <3>2, <4>1 DEF Disk
    <3>3. CASE at = "mk_hints"
      <4>1. disk' = [disk EXCEPT !.hint = 1]
        BY <1>1, <2>1, <2>3, <3>3
      <4>2. 1 \in 0 .. MaxId
        BY ContainerAssumption
      <4> QED BY <2>3, <3>3, <4>1, <4>2 DEF Disk
    <3>4. CASE at = "mk_names"
      <4>1. disk' = [disk EXCEPT !.names = TRUE]
        BY <1>1, <2>1, <3>4
      <4> QED BY <2>3, <3>4, <4>1 DEF Disk
    <3>5. CASE at = "mk_inodes"
      <4>1. disk' = [disk EXCEPT !.inodes = TRUE]
        BY <1>1, <2>1, <3>5
      <4> QED BY <2>3, <3>5, <4>1 DEF Disk
    <3> QED BY <1>1, <3>1, <3>2, <3>3, <3>4, <3>5
  <2>5. TypeOK'
    BY <1>2, <2>1, <2>2, <2>4 DEF TypeOK
  <2>6. st \in Making /\ fs'.pc \in Making /\ fs'.pc # "closed" /\ fs'.pc # "finalize"
        /\ fs'.pc \notin Working
    BY <1>1, <2>2 DEF Making, Marked, Sized, Hinted, Tabled, Wiping, Working, Appending
  <2>7. disk'.filesize = 0
    BY <1>1, <1>2, <2>4 DEF MakingInv, Marked, Sized, Hinted, Tabled
  <2>8. fs.wiped = 0
    BY <1>1, <1>2 DEF MakingInv, Wiping
  <2>9. StepInv'
    <3>1. MakingInv'
      <4>1. fs'.pc \in Marked => fs'.slipped \/ disk'.magic
        BY <1>1, <1>2, <2>2, <2>4 DEF MakingInv, FsKept, Marked, Sized, Hinted, Tabled, Wiping
      <4>2. fs'.pc \in Sized => disk'.blocks = fs'.blocks
        BY <1>1, <1>2, <2>2, <2>4 DEF MakingInv, FsKept, Sized, Hinted, Tabled, Wiping
      <4>3. fs'.pc \in Hinted => disk'.hint # 0
        BY <1>1, <1>2, <2>2, <2>4 DEF MakingInv, Hinted, Tabled, Wiping
      <4>4. fs'.pc \in Tabled => disk'.names
        BY <1>1, <1>2, <2>2, <2>4 DEF MakingInv, Tabled, Wiping
      <4>5. fs'.pc \in Wiping => disk'.inodes
        BY <1>1, <1>2, <2>2, <2>4 DEF MakingInv, Wiping
      <4>6. fs'.pc # "mk_filesize"
        BY <1>1, <2>2
      <4>7. /\ fs'.rw /\ fs'.located /\ fs'.hint = 1 /\ fs'.wiped = 0 /\ fs'.wiped <= fs'.blocks
            /\ Len(disk'.slots) = fs'.blocks /\ fs'.eof = fs'.blocks
        BY <2>2, <2>3, <2>4, <2>8 DEF FsKept
      <4> QED BY <2>7, <4>1, <4>2, <4>3, <4>4, <4>5, <4>6, <4>7 DEF MakingInv
    <3>2. WorkingInv'
      BY <2>3, <2>4, <2>6 DEF WorkingInv, Working
    <3> QED BY <2>3, <2>4, <2>5, <3>1, <3>2 DEF StepInv
  <2> QED BY <1>2, <2>4, <2>6, <2>7, <2>9, MakingGoesOn
<1> QED BY <1>1, <1>3, <1>4 DEF Checked

\* A write of the header that was lost unnoticed.
LEMMA SlippedStep ==
  ASSUME ContainerInv, harm' = harm, dev' = dev, NEW at, NEW st, Overlooked(at, st),
         \/ /\ at = "mk_magic" /\ st = "mk_options"
            /\ disk' = [disk EXCEPT !.magic = FALSE, !.filesize = 0]
         \/ /\ at = "mk_options" /\ st = "mk_hints"
            /\ disk' \in SlippedOptions(disk, fs.blocks)
  PROVE  ContainerInv'
<1>1. /\ fs.pc = at /\ TypeOK /\ StepInv /\ MakingInv /\ at \in Making
      /\ faults < MaxFaults /\ faults' = faults + 1
  BY DEF Overlooked, ContainerInv, StepInv, Making, Marked
<1>2. /\ fs.rw /\ fs.located /\ fs.hint = 1 /\ fs.wiped = 0 /\ fs.wiped <= fs.blocks
      /\ fs.eof = fs.blocks /\ Len(disk.slots) = fs.blocks /\ disk.exists
      /\ at = "mk_options" => disk.filesize = 0
  BY <1>1 DEF StepInv, MakingInv, WorkingInv, Making, Marked, Wiping
<1>3. /\ fs \in Fs /\ disk \in Disk /\ fs.blocks \in 0 .. MaxId /\ MaxId \in Nat
      /\ MaxBlocks \in Nat /\ MaxId <= MaxBlocks /\ faults' \in 0 .. MaxFaults
  BY <1>1, StateTypes
<1>4. /\ fs' \in Fs /\ fs'.pc = st /\ fs'.slipped /\ fs'.rw = fs.rw /\ fs'.located = fs.located
      /\ fs'.hint = fs.hint /\ fs'.blocks = fs.blocks /\ fs'.wiped = fs.wiped /\ fs'.eof = fs.eof
  BY <1>3 DEF Overlooked, Fs, Steps
<1>5. /\ disk' \in Disk /\ disk'.slots = disk.slots /\ disk'.exists = disk.exists
      /\ disk'.filesize = 0 /\ disk'.blocks \in {disk.blocks, fs.blocks}
      /\ st = "mk_hints" => disk'.blocks = fs.blocks
  <2>1. CASE at = "mk_magic"
    <3>1. disk' = [disk EXCEPT !.magic = FALSE, !.filesize = 0] /\ 0 \in 0 .. MaxBlocks + 1
      BY <1>3, <2>1
    <3> QED BY <1>3, <2>1, <3>1 DEF Disk
  <2>2. CASE at = "mk_options"
    <3>1. PICK m \in BOOLEAN : disk' = [disk EXCEPT !.magic = disk.magic /\ m, !.blocks = fs.blocks]
      BY <2>2 DEF SlippedOptions
    <3>2. PICK q \in BOOLEAN : q = (disk.magic /\ m)
      BY <1>3 DEF Disk
    <3>3. disk' = [disk EXCEPT !.magic = q, !.blocks = fs.blocks]
      BY <3>1, <3>2
    <3> QED BY <1>2, <1>3, <2>2, <3>3 DEF Disk
  <2> QED BY <2>1, <2>2
<1>6. /\ fs'.pc \in Making /\ fs'.pc \notin Working /\ fs'.pc \notin {"closed", "finalize"}
      /\ fs'.pc \notin Hinted /\ fs'.pc \in Sized => st = "mk_hints"
  BY <1>4 DEF Making, Marked, Sized, Hinted, Tabled, Wiping, Working, Appending
<1>7. StepInv'
  <2>1. TypeOK'
    BY <1>1, <1>3, <1>4, <1>5 DEF TypeOK
  <2>2. MakingInv'
    BY <1>2, <1>4, <1>5, <1>6 DEF MakingInv, Hinted, Tabled, Wiping
  <2>3. WorkingInv'
    BY <1>2, <1>5, <1>6 DEF WorkingInv, Working
  <2> QED BY <1>2, <1>3, <1>5, <2>1, <2>2, <2>3 DEF StepInv
<1> QED BY <1>1, <1>5, <1>6, <1>7, MakingGoesOn

\* The outcomes of wiping the next new block: there is none, it is
\* wiped, or the write fails; or the greatest id was the last and the loop
\* goes on to one that is refused.
WipeDone(st) ==
    /\ fs.wiped >= fs.blocks /\ disk' = disk /\ faults' = faults
    /\ fs' \in Fs /\ fs'.pc = st /\ FsKept
WipeWraps(st) == fs.blocks = MaxId /\ WipeDone(st)
WipeOne ==
    /\ fs.wiped < fs.blocks /\ HasSlot(disk, fs.wiped + 1, "free", disk') /\ faults' = faults
    /\ fs' \in Fs /\ fs'.pc = fs.pc /\ fs'.rw = fs.rw /\ fs'.located = fs.located
    /\ fs'.blocks = fs.blocks /\ fs'.wiped = fs.wiped + 1 /\ fs'.eof = fs.eof
    /\ fs'.slipped = fs.slipped
    /\ fs'.hint = IF fs.wiped + 1 < fs.hint THEN fs.wiped + 1 ELSE fs.hint
WipeStops(st) ==
    /\ fs.wiped < fs.blocks /\ disk' = disk /\ faults' \in 0 .. MaxFaults /\ faults' # faults
    /\ fs' \in Fs /\ fs'.pc = st /\ FsKept

LEMMA NewBlockFacts ==
  ASSUME TypeOK, NEW at \in Steps, NEW st \in Steps, NEW bad \in Steps, WipeNewBlock(at, st, bad)
  PROVE  fs.pc = at /\ (WipeDone(st) \/ WipeOne \/ WipeStops(bad) \/ WipeWraps(bad))
<1>1. /\ fs.pc = at /\ fs \in Fs /\ disk \in Disk /\ fs.wiped \in Nat /\ fs.blocks \in Nat
      /\ fs.blocks <= MaxId /\ fs.hint \in 1 .. MaxId
  BY StateTypes DEF WipeNewBlock
<1>2. CASE fs.wiped >= fs.blocks
  <2>1. /\ IF fs.blocks = MaxId THEN Goto(bad) ELSE Goto(st)
        /\ disk' = disk /\ faults' = faults
    BY <1>1, <1>2 DEF WipeNewBlock
  <2> QED BY <1>1, <1>2, <2>1, GotoFacts DEF WipeDone, WipeWraps
<1>3. CASE ~(fs.wiped >= fs.blocks)
  <2>1. PICK b : b = fs.wiped + 1
    OBVIOUS
  <2>2. \/ /\ Writes(WithSlot(disk, b, "free"))
           /\ fs' = [fs EXCEPT !.wiped = b, !.hint = IF b < @ THEN b ELSE @]
        \/ WriteFails /\ Goto(bad)
    BY <1>3, <2>1 DEF WipeNewBlock
  <2>3. b \in Nat \ {0} /\ b \in 0 .. MaxId /\ b \in 1 .. MaxId /\ fs.wiped < fs.blocks
    BY <1>1, <1>3, <2>1, ContainerAssumption
  <2>4. CASE WriteFails /\ Goto(bad)
    <3>1. faults' \in 0 .. MaxFaults /\ faults' # faults /\ disk' = disk
      BY <2>4, FaultSpent
    <3> QED BY <1>1, <2>3, <2>4, <3>1, GotoFacts DEF WipeStops
  <2>5. CASE Writes(WithSlot(disk, b, "free")) /\ fs' = [fs EXCEPT !.wiped = b, !.hint = IF b < @ THEN b ELSE @]
    <3>1. HasSlot(disk, b, "free", disk') /\ faults' = faults
      BY <1>1, <2>3, <2>5, WithSlotFacts DEF Writes, Slot
    <3>2. PICK g : g = IF b < fs.hint THEN b ELSE fs.hint
      OBVIOUS
    <3>3. g \in 1 .. MaxId
      BY <1>1, <2>3, <3>2
    <3>4. fs' = [fs EXCEPT !.wiped = b, !.hint = g]
      BY <2>5, <3>2
    <3>5. /\ fs' \in Fs /\ fs'.pc = fs.pc /\ fs'.rw = fs.rw /\ fs'.located = fs.located
          /\ fs'.blocks = fs.blocks /\ fs'.wiped = b /\ fs'.hint = g /\ fs'.eof = fs.eof
          /\ fs'.slipped = fs.slipped
      BY <1>1, <2>3, <3>3, <3>4 DEF Fs
    <3> QED BY <1>1, <2>1, <2>3, <3>1, <3>2, <3>5 DEF WipeOne
  <2> QED BY <2>2, <2>4, <2>5
<1> QED BY <1>1, <1>2, <1>3

LEMMA MkfsBlocksStep ==
  ASSUME ContainerInv, harm' = harm, dev' = dev, MkfsBlocks
  PROVE  ContainerInv'
<1>1. /\ fs.pc = "mk_blocks"
      /\ WipeDone("mk_filesize") \/ WipeOne \/ WipeStops("finalize") \/ WipeWraps("finalize")
      /\ TypeOK /\ StepInv
  BY NewBlockFacts DEF MkfsBlocks, Steps, ContainerInv, StepInv
<1>2. /\ fs.rw /\ fs.located /\ fs.hint = 1 /\ fs.wiped <= fs.blocks /\ Len(disk.slots) = fs.blocks
      /\ fs.eof = fs.blocks /\ (fs.slipped \/ disk.magic) /\ disk.filesize = 0 /\ disk.blocks = fs.blocks /\ disk.hint # 0 /\ disk.names
      /\ disk.inodes /\ disk.exists
      /\ \A b \in 1 .. fs.wiped : disk.slots[b] # "junk"
  BY <1>1 DEF StepInv, MakingInv, WorkingInv, Making, Marked, Sized, Hinted, Tabled, Wiping
<1>3. /\ fs.wiped \in Nat /\ fs.blocks \in Nat /\ fs.blocks <= MaxBlocks /\ fs.pc \in Making
      /\ fs.slipped \in BOOLEAN
  BY <1>1, StateTypes DEF Making, Marked, Sized, Hinted, Tabled, Wiping
<1>4. CASE WipeStops("finalize") \/ WipeWraps("finalize")
  <2>1. TypeOK' /\ disk' = disk
    BY <1>1, <1>4 DEF WipeStops, WipeWraps, WipeDone, TypeOK
  <2>2. Goto("finalize")
    BY <1>1, <1>3, <1>4 DEF MkfsBlocks, WipeNewBlock, WipeStops, WipeWraps, WipeDone, Writes
  <2> QED BY <1>3, <2>1, <2>2, MakingFails
<1>5. CASE WipeDone("mk_filesize") \/ WipeOne
  <2>1. /\ disk' \in Disk /\ SameRecords(disk, disk') /\ Len(disk'.slots) = Len(disk.slots)
        /\ \A b \in 1 .. Len(disk.slots) : disk'.slots[b] = "used" => disk.slots[b] = "used"
        /\ \A b \in 1 .. fs'.wiped : disk'.slots[b] # "junk"
    <3>1. CASE WipeDone("mk_filesize")
      BY <1>1, <1>2, <3>1, StateTypes DEF WipeDone, FsKept, SameRecords
    <3>2. CASE WipeOne
      <4>1. /\ disk' \in Disk /\ SameRecords(disk, disk') /\ Len(disk'.slots) = Len(disk.slots)
            /\ \A k \in 1 .. Len(disk.slots) :
                 disk'.slots[k] = IF k = fs.wiped + 1 THEN "free"
                                  ELSE IF k <= Len(disk.slots) THEN disk.slots[k] ELSE "junk"
            /\ fs'.wiped = fs.wiped + 1 /\ fs'.wiped <= Len(disk.slots)
        BY <1>2, <1>3, <3>2 DEF WipeOne, HasSlot
      <4>2. \A b \in 1 .. Len(disk.slots) : disk'.slots[b] = "used" => disk.slots[b] = "used"
        BY <4>1
      <4>3. ASSUME NEW b \in 1 .. fs'.wiped PROVE disk'.slots[b] # "junk"
        <5>1. b \in 1 .. Len(disk.slots) /\ (b = fs.wiped + 1 \/ b \in 1 .. fs.wiped)
          BY <1>2, <1>3, <4>1
        <5> QED BY <1>2, <4>1, <5>1
      <4> QED BY <4>1, <4>2, <4>3
    <3> QED BY <1>5, <3>1, <3>2
  <2>2. /\ fs' \in Fs /\ fs'.pc \in Wiping /\ fs'.rw = fs.rw /\ fs'.located = fs.located
        /\ fs'.hint = 1 /\ fs'.blocks = fs.blocks /\ fs'.wiped <= fs'.blocks /\ faults' = faults
        /\ fs'.pc = "mk_filesize" => fs'.wiped = fs'.blocks
        /\ fs'.eof = fs.eof /\ fs'.slipped = fs.slipped
    <3>1. CASE WipeDone("mk_filesize")
      BY <1>1, <1>2, <1>3, <3>1 DEF WipeDone, FsKept, Wiping
    <3>2. CASE WipeOne
      BY <1>1, <1>2, <1>3, <3>2 DEF WipeOne, Wiping
    <3> QED BY <1>5, <3>1, <3>2
  <2>3. fs'.pc \in Making /\ fs'.pc \notin {"closed", "finalize"} /\ fs'.pc \notin Working
    BY <2>2 DEF Making, Marked, Sized, Hinted, Tabled, Wiping, Working, Appending
  <2>4. TypeOK'
    BY <1>1, <2>1, <2>2 DEF TypeOK
  <2>5. MakingInv'
    BY <1>2, <2>1, <2>2, <2>3 DEF MakingInv, SameRecords, Wiping
  <2>6. WorkingInv'
    BY <1>2, <2>1, <2>3 DEF WorkingInv, Working, SameRecords
  <2>7. StepInv'
    BY <1>2, <1>3, <2>1, <2>4, <2>5, <2>6 DEF StepInv
  <2> QED BY <1>2, <1>3, <2>1, <2>3, <2>7, MakingGoesOn DEF SameRecords
<1> QED BY <1>1, <1>4, <1>5

\* With the size written, a container is all that the properties ask for,
\* whatever was wrong with the file before.
LEMMA MkfsFilesizeStep ==
  ASSUME ContainerInv, MkfsFilesize
  PROVE  ContainerInv'
<1>1. fs.pc = "mk_filesize" /\ TypeOK /\ StepInv /\ dev' = dev
  BY DEF MkfsFilesize, ContainerInv, StepInv
<1>2. /\ fs.rw /\ fs.located /\ fs.hint = 1 /\ fs.wiped = fs.blocks /\ Len(disk.slots) = fs.blocks
      /\ fs.eof = fs.blocks /\ (fs.slipped \/ disk.magic) /\ disk.filesize = 0 /\ disk.blocks = fs.blocks /\ disk.hint # 0 /\ disk.names
      /\ disk.inodes /\ disk.exists
      /\ \A b \in 1 .. fs.wiped : disk.slots[b] # "junk"
  BY <1>1 DEF StepInv, MakingInv, WorkingInv, Making, Marked, Sized, Hinted, Tabled, Wiping
<1>3. /\ fs.blocks \in Nat /\ fs.blocks <= MaxBlocks /\ fs.pc \in Making
      /\ fs \in Fs /\ disk \in Disk /\ faults \in 0 .. MaxFaults /\ MaxFaults \in Nat
  BY <1>1, StateTypes DEF Making, Marked, Sized, Hinted, Tabled, Wiping
<1>4. fs' \in Fs /\ fs'.pc = "open" /\ FsKept
  <2>1. PICK o \in BOOLEAN : fs' = [fs EXCEPT !.pc = "open", !.owns = o]
    BY DEF MkfsFilesize
  <2> QED BY <1>3, <2>1 DEF Fs, FsKept, Steps
<1>5. /\ fs'.pc \notin Making /\ fs'.pc \notin Appending /\ fs'.pc \notin Wiping
      /\ fs'.pc \notin {"closed", "finalize", "ap_filesize", "ap_options", "ap_wipe", "mk_truncate"}
  BY <1>4 DEF Making, Marked, Sized, Hinted, Tabled, Wiping, Appending
<1>6. /\ disk' \in Disk /\ disk'.slots = disk.slots /\ disk'.exists /\ disk'.magic = disk.magic
      /\ disk'.blocks = disk.blocks /\ disk'.hint = disk.hint /\ disk'.names /\ disk'.inodes
      /\ faults' \in 0 .. MaxFaults
      /\ \/ disk'.filesize = 1 + fs.blocks /\ harm' = IF fs.slipped THEN {"ignored"} ELSE {}
         \/ disk'.filesize = 0 /\ harm' = harm \cup {"ignored"}
  <2>1. CASE /\ Writes([disk EXCEPT !.filesize = Length(disk)])
             /\ harm' = IF fs.slipped THEN {"ignored"} ELSE {}
    <3>1. disk' = [disk EXCEPT !.filesize = 1 + fs.blocks] /\ 1 + fs.blocks \in 0 .. MaxBlocks + 1
      BY <1>2, <1>3, <2>1, ContainerAssumption DEF Writes, Length
    <3>2. faults' \in 0 .. MaxFaults
      BY <1>3, <2>1 DEF Writes
    <3> QED BY <1>2, <1>3, <2>1, <3>1, <3>2 DEF Disk
  <2>2. CASE WriteFails /\ harm' = harm \cup {"ignored"}
    <3>1. faults' \in 0 .. MaxFaults /\ disk' = disk
      BY <1>3, <2>2 DEF WriteFails
    <3> QED BY <1>2, <1>3, <2>2, <3>1
  <2> QED BY <2>1, <2>2 DEF MkfsFilesize
<1>7. StepInv'
  <2>1. TypeOK'
    BY <1>1, <1>4, <1>6 DEF TypeOK
  <2>2. MakingInv'
    BY <1>5 DEF MakingInv, Making, Marked, Sized, Hinted, Tabled, Wiping
  <2>3. WorkingInv'
    BY <1>2, <1>4, <1>5, <1>6 DEF WorkingInv, FsKept
  <2> QED BY <1>2, <1>3, <1>6, <2>1, <2>2, <2>3 DEF StepInv
<1>8. HeaderInv'
  <2>1. CASE "ignored" \in harm'
    BY <2>1 DEF HeaderInv
  <2>2. CASE "ignored" \notin harm'
    <3>1. disk'.filesize = 1 + fs.blocks /\ disk'.magic
      BY <1>2, <1>3, <1>6, <2>2 DEF Disk
    <3>2. Openable(disk')
      BY <1>2, <1>3, <1>6, <3>1 DEF Openable, HeaderOK, Length
    <3> QED BY <1>5, <3>2 DEF HeaderInv
  <2> QED BY <2>1, <2>2
<1>9. CompleteInv'
  BY <1>2, <1>3, <1>4, <1>5, <1>6 DEF CompleteInv, FsKept
<1>10. ReadableInv'
  BY <1>2, <1>3, <1>4, <1>5, <1>6 DEF ReadableInv, SlotAt
<1>11. HintInv'
  BY <1>2, <1>4, <1>5 DEF HintInv, Full, FsKept
<1> QED BY <1>7, <1>8, <1>9, <1>10, <1>11 DEF ContainerInv

-----------------------------------------------------------------------------
(* Opening, closing and working.                                            *)

LEMMA OpenStep ==
  ASSUME ContainerInv, NEW w \in BOOLEAN, NEW viaDev \in BOOLEAN, NEW take \in BOOLEAN,
         Open(w, viaDev, take)
  PROVE  ContainerInv'
<1>1. /\ fs.pc = "closed" /\ disk.exists /\ disk' = disk /\ dev' = dev /\ faults' = faults
      /\ harm' = harm /\ TypeOK /\ StepInv
  BY DEF Open, ContainerInv, StepInv
<1>2. /\ disk \in Disk /\ Len(disk.slots) \in Nat /\ disk.hint \in 0 .. MaxId
      /\ disk.blocks \in 0 .. MaxId /\ disk.blocks \in 0 .. MaxBlocks /\ fs.pc \notin Working
  BY <1>1, StateTypes DEF Working, Appending
<1>3. PICK loc \in BOOLEAN : loc <=> HeaderOK(disk)
  OBVIOUS
<1>4. PICK z : z = NoFs
  OBVIOUS
<1> DEFINE new == [z EXCEPT !.rw = w, !.owns = take, !.fromDev = viaDev, !.located = loc]
<1>5. /\ z \in Fs /\ z.hint = 1 /\ z.blocks = 0 /\ z.wiped = 0
  BY <1>4, NoFsType
<1>6. /\ new \in Fs /\ new.rw = w /\ new.located = loc /\ new.hint = 1 /\ new.blocks = 0 /\ new.wiped = 0
  BY <1>5 DEF Fs
<1>7. fs' = IF Openable(disk) THEN [new EXCEPT !.pc = "open", !.hint = disk.hint,
                                              !.blocks = disk.blocks, !.eof = disk.blocks]
            ELSE [new EXCEPT !.pc = "finalize"]
  <2>1. loc = HeaderOK(disk)
    BY <1>3 DEF HeaderOK
  <2> QED BY <1>4, <2>1 DEF Open
<1> HIDE DEF new
<1>8. /\ fs' \in Fs /\ fs'.wiped = 0 /\ fs'.located = loc
      /\ fs'.pc = "open" \/ fs'.pc = "finalize"
      /\ Openable(disk) => /\ fs'.pc = "open" /\ fs'.hint = disk.hint /\ fs'.blocks = disk.blocks
                           /\ fs'.located /\ fs'.eof = disk.blocks
      /\ ~Openable(disk) => fs'.pc = "finalize" /\ fs'.hint = 1
  <2>1. CASE Openable(disk)
    <3>1. disk.hint \in 1 .. MaxId /\ loc = TRUE
      BY <1>2, <1>3, <2>1 DEF Openable
    <3> QED BY <1>2, <1>6, <1>7, <2>1, <3>1 DEF Fs, Steps
  <2>2. CASE ~Openable(disk)
    BY <1>6, <1>7, <2>2 DEF Fs, Steps
  <2> QED BY <2>1, <2>2
<1>9. /\ fs'.pc \notin Making /\ fs'.pc \notin Appending
      /\ fs'.pc \notin {"closed", "ap_filesize", "ap_options", "ap_wipe", "mk_truncate"}
  BY <1>8 DEF Making, Marked, Sized, Hinted, Tabled, Wiping, Appending
<1>10. StepInv'
  <2>1. TypeOK'
    BY <1>1, <1>8 DEF TypeOK
  <2>2. MakingInv'
    BY <1>9 DEF MakingInv, Making, Marked, Sized, Hinted, Tabled, Wiping
  <2>3. WorkingInv'
    BY <1>1, <1>8, <1>9 DEF WorkingInv, Working
  <2> QED BY <1>1, <2>1, <2>2, <2>3 DEF StepInv
<1>11. HeaderInv'
  BY <1>1, <1>8, <1>9 DEF ContainerInv, HeaderInv
<1>12. CompleteInv'
  <2>1. CASE Openable(disk)
    <3>1. "ignored" \notin harm => disk.names /\ disk.inodes /\ disk.blocks <= Len(disk.slots)
      BY <1>1, <1>2, <2>1 DEF ContainerInv, CompleteInv, Openable, HeaderOK, Length
    <3> QED BY <1>1, <1>8, <1>9, <2>1, <3>1 DEF ContainerInv, CompleteInv
  <2>2. CASE ~Openable(disk)
    BY <1>1, <1>8, <1>9, <2>2 DEF ContainerInv, CompleteInv, Working
  <2> QED BY <2>1, <2>2
<1>13. ReadableInv'
  BY <1>1, <1>8, <1>9 DEF ContainerInv, ReadableInv, SlotAt
<1>14. HintInv'
  BY <1>1, <1>8, <1>9 DEF ContainerInv, HintInv, Full, SlotAt, Working
<1> QED BY <1>10, <1>11, <1>12, <1>13, <1>14 DEF ContainerInv

\* The object is gone, whatever it wrote to the file before.
LEMMA FinalizeStep ==
  ASSUME ContainerInv, Finalize
  PROVE  ContainerInv'
<1>1. /\ fs.pc \in {"open", "finalize"} /\ TypeOK /\ StepInv /\ fs' = NoFs /\ disk \in Disk
      /\ disk.exists
  BY StateTypes DEF Finalize, ContainerInv, StepInv, WorkingInv
<1>2. /\ fs' \in Fs /\ fs'.pc = "closed"
  BY <1>1, NoFsType
<1>3. /\ fs'.pc \notin Making /\ fs'.pc \notin Working
      /\ fs'.pc \notin {"open", "finalize", "ap_filesize", "ap_options", "ap_wipe", "mk_truncate"}
  BY <1>2 DEF Making, Marked, Sized, Hinted, Tabled, Wiping, Working, Appending
<1>4. /\ fs.hint \in 1 .. MaxId /\ faults \in 0 .. MaxFaults /\ MaxFaults \in Nat
      /\ harm \subseteq {"header", "blocks", "hints", "ignored"}
  BY <1>1, StateTypes DEF TypeOK
<1> DEFINE Outcome ==
      /\ disk' \in Disk /\ disk'.exists /\ disk'.slots = disk.slots /\ disk'.filesize = disk.filesize
      /\ disk'.blocks = disk.blocks /\ disk'.names = disk.names /\ disk'.inodes = disk.inodes
      /\ fs.located => disk'.magic = disk.magic /\ disk'.hint \in {disk.hint, fs.hint}
      /\ faults' \in 0 .. MaxFaults
      /\ harm \subseteq harm' /\ harm' \subseteq {"header", "blocks", "hints", "ignored"}
      /\ "hints" \notin harm' =>
            disk'.hint = IF fs.rw /\ fs.located THEN fs.hint ELSE disk.hint
<1>5. Outcome
  <2>1. CASE fs.rw /\ WriteFails /\ harm' = harm \cup {"hints"}
    <3>1. faults' \in 0 .. MaxFaults /\ disk' = disk
      BY <1>4, <2>1 DEF WriteFails
    <3> QED BY <1>1, <1>4, <2>1, <3>1
  <2>2. CASE ~fs.rw /\ UNCHANGED <<disk, faults, harm>>
    BY <1>1, <1>4, <2>2
  <2>3. CASE fs.rw /\ Writes(WithHints(disk)) /\ harm' = harm
    <3>1. disk' = WithHints(disk) /\ faults' = faults
      BY <2>3 DEF Writes
    <3>2. CASE fs.located
      <4>1. disk' = [disk EXCEPT !.hint = fs.hint] /\ fs.hint \in 0 .. MaxId
        BY <1>4, <3>1, <3>2 DEF WithHints
      <4> QED BY <1>1, <1>4, <2>3, <3>1, <3>2, <4>1 DEF Disk
    <3>3. CASE ~fs.located
      <4>1. disk' = [disk EXCEPT !.magic = FALSE]
        BY <3>1, <3>3 DEF WithHints
      <4> QED BY <1>1, <1>4, <2>3, <3>1, <3>3, <4>1 DEF Disk
    <3> QED BY <3>2, <3>3
  <2> QED BY <2>1, <2>2, <2>3 DEF Finalize
<1>6. dev' \in {"live", "gone"}
  BY <1>1 DEF Finalize, TypeOK
<1>7. StepInv'
  <2>1. TypeOK'
    BY <1>2, <1>5, <1>6 DEF TypeOK
  <2>2. MakingInv'
    BY <1>3 DEF MakingInv, Making, Marked, Sized, Hinted, Tabled, Wiping
  <2>3. WorkingInv'
    BY <1>2, <1>3 DEF WorkingInv, Working
  <2> QED BY <1>1, <1>5, <2>1, <2>2, <2>3 DEF StepInv
<1>8. HeaderInv'
  <2> SUFFICES ASSUME harm' \cap {"header", "ignored"} = {} PROVE Openable(disk')
    BY <1>2, <1>3 DEF HeaderInv
  <2>1. fs.pc = "open" /\ Openable(disk)
    BY <1>1, <1>5 DEF ContainerInv, HeaderInv
  <2>2. fs.located
    BY <1>1, <2>1 DEF StepInv, WorkingInv, Working
  <2>3. disk'.magic = disk.magic /\ disk'.hint # 0
    BY <1>4, <1>5, <2>1, <2>2 DEF Openable
  <2>4. disk.magic /\ disk.filesize # 0 /\ disk.filesize = 1 + Len(disk.slots)
    BY <1>1, <2>1 DEF Openable, HeaderOK, Length
  <2>5. disk'.magic
    BY <1>1, <1>5, <2>3, <2>4 DEF Disk
  <2>6. disk'.filesize # 0 /\ disk'.filesize = 1 + Len(disk'.slots) /\ disk'.exists
    BY <1>5, <2>4
  <2> QED BY <2>3, <2>5, <2>6 DEF Openable, HeaderOK, Length
<1>9. CompleteInv'
  BY <1>1, <1>2, <1>3, <1>5 DEF ContainerInv, CompleteInv, Working, Appending
<1>10. ReadableInv'
  BY <1>1, <1>2, <1>3, <1>5 DEF ContainerInv, ReadableInv, SlotAt
<1>11. HintInv'
  <2> SUFFICES ASSUME harm' \cap {"hints", "ignored"} = {} PROVE Full(disk.hint)'
    BY <1>2, <1>3 DEF HintInv
  <2>1. harm \cap {"hints", "ignored"} = {} /\ disk'.hint = IF fs.rw /\ fs.located THEN fs.hint ELSE disk.hint
    BY <1>5
  <2>2. CASE fs.rw /\ fs.located /\ fs.pc = "open"
    BY <1>5, <2>1, <2>2 DEF ContainerInv, HintInv, Full, SlotAt, Working
  <2>3. CASE fs.rw /\ fs.located /\ fs.pc = "finalize"
    BY <1>1, <2>1, <2>3 DEF StepInv, WorkingInv, Full
  <2>4. CASE ~(fs.rw /\ fs.located)
    BY <1>1, <1>5, <2>1, <2>4 DEF ContainerInv, HintInv, Full, SlotAt
  <2> QED BY <1>1, <2>2, <2>3, <2>4
<1> QED BY <1>7, <1>8, <1>9, <1>10, <1>11 DEF ContainerInv

\* A block changes hands: slot b, within the count, becomes s, and the hint h.
LEMMA BlockStep ==
  ASSUME ContainerInv, fs.pc = "open", fs.rw, NEW b \in 1 .. Len(disk.slots), b <= fs.blocks,
         NEW s \in {"free", "used"}, disk' = [disk EXCEPT !.slots[b] = s],
         NEW h \in 1 .. MaxId, fs' = [fs EXCEPT !.hint = h],
         harm \cap {"hints", "ignored"} = {} => \A k \in 1 .. h - 1 : k # b => SlotAt(k) = "used",
         b < h => s = "used",
         UNCHANGED <<dev, faults, harm>>
  PROVE  ContainerInv'
<1>1. TypeOK /\ StepInv /\ fs \in Fs /\ disk \in Disk /\ disk.exists /\ fs.located
      /\ dev' = dev /\ faults' = faults /\ harm' = harm
      /\ Len(disk.slots) \in Nat /\ Len(disk.slots) <= MaxBlocks
  BY StateTypes DEF ContainerInv, StepInv, WorkingInv, Working
<1>2. HasSlot(disk, b, s, disk')
  BY <1>1, SlotWritten DEF Slot
<1>3. /\ disk' \in Disk /\ SameRecords(disk, disk') /\ Len(disk'.slots) = Len(disk.slots)
      /\ \A k \in 1 .. Len(disk.slots) : disk'.slots[k] = IF k = b THEN s ELSE disk.slots[k]
  <2>1. ~(b > Len(disk.slots))
    BY <1>1
  <2> QED BY <1>1, <1>2, <2>1 DEF HasSlot
<1>4. /\ fs' \in Fs /\ fs'.pc = "open" /\ fs'.rw = fs.rw /\ fs'.located = fs.located
      /\ fs'.hint = h /\ fs'.blocks = fs.blocks /\ fs'.eof = fs.eof
  BY <1>1 DEF Fs
<1>5. /\ fs'.pc \notin Making /\ fs'.pc \notin Appending /\ fs'.pc \in Working /\ fs.pc \in Working
      /\ fs'.pc \notin {"closed", "finalize", "ap_filesize", "ap_options", "ap_wipe", "mk_truncate"}
  BY <1>4 DEF Making, Marked, Sized, Hinted, Tabled, Wiping, Working, Appending
<1>6. StepInv'
  <2>1. TypeOK'
    BY <1>1, <1>3, <1>4 DEF TypeOK
  <2>2. MakingInv'
    BY <1>5 DEF MakingInv, Making, Marked, Sized, Hinted, Tabled, Wiping
  <2>3. WorkingInv'
    BY <1>1, <1>3, <1>4, <1>5 DEF WorkingInv, SameRecords
  <2> QED BY <1>1, <1>3, <2>1, <2>2, <2>3 DEF StepInv
<1>7. HeaderInv'
  BY <1>1, <1>3, <1>4, <1>5 DEF ContainerInv, HeaderInv, Openable, HeaderOK, Length, SameRecords
<1>8. CompleteInv'
  BY <1>1, <1>3, <1>4, <1>5 DEF ContainerInv, CompleteInv, SameRecords
<1>9. \A k \in Nat : SlotAt(k)' = IF k = b THEN s ELSE SlotAt(k)
  BY <1>1, <1>3 DEF SlotAt
<1>10. ReadableInv'
  <2>1. disk.blocks \in Nat
    BY <1>1, StateTypes
  <2> QED BY <1>1, <1>3, <1>4, <1>5, <1>9, <2>1 DEF ContainerInv, ReadableInv, SameRecords
<1>11. HintInv'
  <2>1. harm \cap {"hints", "ignored"} = {} => Full(h)'
    BY <1>9 DEF Full
  <2> QED BY <1>1, <1>4, <1>5, <2>1 DEF HintInv
<1> QED BY <1>6, <1>7, <1>8, <1>10, <1>11 DEF ContainerInv

LEMMA AllocStep ==
  ASSUME ContainerInv, AllocBlock
  PROVE  ContainerInv'
<1>1. PICK b \in FreeFrom(fs.hint) :
        /\ \A c \in FreeFrom(fs.hint) : b <= c
        /\ SlotAt(b) = "free"
        /\ disk' = [disk EXCEPT !.slots[b] = "used"]
        /\ fs' = [fs EXCEPT !.hint = IF b = MaxId THEN 1 ELSE b + 1]
  BY DEF AllocBlock
<1>2. /\ fs.pc = "open" /\ fs.rw /\ UNCHANGED <<dev, faults, harm>> /\ TypeOK
  BY DEF AllocBlock, ContainerInv, StepInv
<1>3. /\ fs.hint \in 1 .. MaxId /\ fs.blocks \in 0 .. MaxId /\ MaxId \in Nat /\ MaxId >= 2
      /\ Len(disk.slots) \in Nat
  BY <1>2, StateTypes
<1>4. b \in fs.hint .. fs.blocks /\ \A c \in fs.hint .. fs.blocks : SlotAt(c) # "used" => b <= c
  BY <1>1 DEF FreeFrom
<1>5. /\ b \in 1 .. Len(disk.slots) /\ b <= fs.blocks /\ b \in 1 .. MaxId /\ b \in Nat
  BY <1>1, <1>3, <1>4 DEF SlotAt
<1>h. PICK h \in 1 .. MaxId : h = (IF b = MaxId THEN 1 ELSE b + 1)
  BY <1>3, <1>5
<1>f. fs' = [fs EXCEPT !.hint = h]
  BY <1>1, <1>h
<1>6. harm \cap {"hints", "ignored"} = {} => Full(fs.hint)
  BY <1>2 DEF ContainerInv, HintInv, Working
<1>7. ASSUME harm \cap {"hints", "ignored"} = {}, NEW k \in 1 .. h - 1, k # b
      PROVE  SlotAt(k) = "used"
  <2>0. k \in Nat /\ k >= 1 /\ k < b
    BY <1>3, <1>5, <1>h, <1>7
  <2>1. CASE k < fs.hint
    <3>1. k \in 1 .. fs.hint - 1
      BY <1>3, <2>0, <2>1
    <3> QED BY <1>6, <1>7, <3>1 DEF Full
  <2>2. CASE ~(k < fs.hint)
    <3>1. k \in fs.hint .. fs.blocks /\ ~(b <= k)
      BY <1>3, <1>5, <2>0, <2>2
    <3> QED BY <1>4, <3>1
  <2> QED BY <2>1, <2>2
<1> QED BY <1>1, <1>2, <1>5, <1>f, <1>7, BlockStep

LEMMA FreeStep ==
  ASSUME ContainerInv, NEW b \in 1 .. MaxId, FreeBlock(b)
  PROVE  ContainerInv'
<1>1. /\ fs.pc = "open" /\ fs.rw /\ b <= fs.blocks /\ SlotAt(b) = "used"
      /\ disk' = [disk EXCEPT !.slots[b] = "free"]
      /\ fs' = [fs EXCEPT !.hint = IF b < @ THEN b ELSE @]
      /\ UNCHANGED <<dev, faults, harm>> /\ TypeOK
  BY DEF FreeBlock, ContainerInv, StepInv
<1>2. /\ fs.hint \in 1 .. MaxId /\ MaxId \in Nat /\ Len(disk.slots) \in Nat
  BY <1>1, StateTypes
<1>3. b \in 1 .. Len(disk.slots)
  BY <1>1, <1>2 DEF SlotAt
<1>4. PICK h : h = IF b < fs.hint THEN b ELSE fs.hint
  OBVIOUS
<1>5. h \in 1 .. MaxId /\ h <= b /\ h <= fs.hint
  BY <1>2, <1>4
<1>6. fs' = [fs EXCEPT !.hint = h]
  BY <1>1, <1>4
<1>7. harm \cap {"hints", "ignored"} = {} => \A k \in 1 .. h - 1 : SlotAt(k) = "used"
  <2>1. harm \cap {"hints", "ignored"} = {} => Full(fs.hint)
    BY <1>1 DEF ContainerInv, HintInv, Working
  <2> QED BY <1>2, <1>5, <2>1 DEF Full
<1>8. ~(b < h)
  BY <1>5
<1> QED BY <1>1, <1>3, <1>5, <1>6, <1>7, <1>8, BlockStep

-----------------------------------------------------------------------------
(* Growing.                                                                 *)

\* A fault, or a step of a client, that leaves the file and the object as they are.
LEMMA NothingWritten ==
  ASSUME ContainerInv, disk' = disk, fs' = fs, harm' = harm,
         dev' \in {"live", "gone"}, faults' \in 0 .. MaxFaults
  PROVE  ContainerInv'
<1>1. StepInv'
  BY DEF ContainerInv, StepInv, TypeOK, MakingInv, WorkingInv
<1>2. HeaderInv' /\ CompleteInv'
  BY DEF ContainerInv, HeaderInv, CompleteInv
<1>3. ReadableInv' /\ HintInv'
  BY DEF ContainerInv, ReadableInv, HintInv, Full, SlotAt
<1> QED BY <1>1, <1>2, <1>3 DEF ContainerInv

\* A count is kept in the width of an id.
LEMMA CountFacts ==
  ASSUME NEW a \in Nat, NEW m \in Nat
  PROVE  a % (m + 1) \in 0 .. m /\ (a <= m => a % (m + 1) = a)
OBVIOUS

\* What a new size at or behind the end in offsets[] leaves of an open
\* container: every block it counts, and those hold all that are in use.
Reshaped ==
    /\ fs.eof = fs.blocks /\ disk.blocks = fs.blocks /\ fs.blocks <= Len(disk.slots)
    /\ disk.names /\ disk.inodes /\ (disk.filesize # 0 => disk.blocks < disk.filesize)
    /\ \A b \in 1 .. Len(disk.slots) : disk.slots[b] = "used" =>
          b <= Len(disk'.slots) /\ disk'.slots[b] = "used"
    /\ \A b \in 1 .. Len(disk'.slots) : disk'.slots[b] = "used" => b <= fs.blocks
    /\ \A b \in 1 .. fs.blocks : SlotAt(b)' = SlotAt(b)
    /\ \A b \in Nat \ {0} : SlotAt(b) = "used" => SlotAt(b)' = "used"

LEMMA ReshapedFacts ==
  ASSUME ContainerInv, fs.pc = "open", "ignored" \notin harm,
         NEW n \in Nat, n >= fs.eof, IsResized(disk, n, disk')
  PROVE  Reshaped
<1>1. /\ fs.eof = fs.blocks /\ disk.blocks = fs.blocks /\ fs.blocks <= Len(disk.slots)
      /\ disk.names /\ disk.inodes /\ (disk.filesize # 0 => disk.blocks < disk.filesize)
      /\ \A b \in 1 .. Len(disk.slots) : disk.slots[b] = "used" => b <= fs.blocks
  BY DEF ContainerInv, CompleteInv, Working
<1>2. Len(disk.slots) \in Nat /\ fs.blocks \in Nat
  BY StateTypes DEF ContainerInv, StepInv
<1>3. /\ Len(disk'.slots) = n
      /\ \A k \in 1 .. n : disk'.slots[k] = IF k <= Len(disk.slots) THEN disk.slots[k] ELSE "junk"
  BY DEF IsResized
<1>4. \A b \in 1 .. Len(disk.slots) : disk.slots[b] = "used" =>
          b <= Len(disk'.slots) /\ disk'.slots[b] = "used"
  BY <1>1, <1>2, <1>3
<1>5. \A b \in 1 .. Len(disk'.slots) : disk'.slots[b] = "used" => b <= fs.blocks
  BY <1>1, <1>2, <1>3
<1>6. \A b \in 1 .. fs.blocks : SlotAt(b)' = SlotAt(b)
  BY <1>1, <1>2, <1>3 DEF SlotAt
<1>7. \A b \in Nat \ {0} : SlotAt(b) = "used" => SlotAt(b)' = "used"
  BY <1>2, <1>3, <1>4 DEF SlotAt
<1> QED BY <1>1, <1>4, <1>5, <1>6, <1>7 DEF Reshaped

LEMMA GrowsStep ==
  ASSUME ContainerInv, NEW k \in 1 .. MaxId, fs.pc = "open", fs.rw, fs.eof + k <= MaxBlocks,
         Grows(k), dev' = dev
  PROVE  ContainerInv'
<1>1. /\ TypeOK /\ StepInv /\ disk.exists /\ fs.located
  BY DEF ContainerInv, StepInv, WorkingInv, Working
<1>2. /\ fs \in Fs /\ disk \in Disk /\ Len(disk.slots) \in Nat /\ fs.blocks \in 0 .. MaxId
      /\ MaxBlocks \in Nat /\ MaxId \in Nat /\ k \in Nat /\ fs.eof \in 0 .. MaxBlocks
      /\ fs.hint \in 1 .. MaxId /\ disk.blocks \in Nat /\ fs.pc \in Working
  BY <1>1, StateTypes DEF Working
<1>3. PICK n \in 0 .. MaxBlocks : n = fs.eof + k
  BY <1>2
<1>4. IsResized(disk, n, disk') /\ faults' = faults
  BY <1>2, <1>3, ResizedFacts DEF Grows, Writes
<1>5. disk' \in Disk /\ SameRecords(disk, disk') /\ Len(disk'.slots) = n
  BY <1>4 DEF IsResized
<1>6. PICK m \in 0 .. MaxId :
        m = (fs.blocks + k) % (MaxId + 1) /\ (fs.blocks + k <= MaxId => m = fs.blocks + k)
  <2>1. fs.blocks + k \in Nat
    BY <1>2
  <2>2. /\ (fs.blocks + k) % (MaxId + 1) \in 0 .. MaxId
        /\ fs.blocks + k <= MaxId => (fs.blocks + k) % (MaxId + 1) = fs.blocks + k
    BY <1>2, <2>1, CountFacts
  <2> QED BY <2>2
<1>7. /\ fs' \in Fs /\ fs'.pc = "ap_filesize" /\ fs'.rw = fs.rw /\ fs'.located = fs.located
      /\ fs'.hint = fs.hint /\ fs'.blocks = m /\ fs'.wiped = fs.blocks /\ fs'.eof = n
  <2>1. fs' = [fs EXCEPT !.pc = "ap_filesize", !.blocks = m, !.wiped = fs.blocks, !.eof = n]
    BY <1>3, <1>6 DEF Grows
  <2> QED BY <1>2, <2>1 DEF Fs, Steps
<1>8. /\ fs'.pc \notin Making /\ fs'.pc \in Appending /\ fs'.pc \in Working
      /\ fs'.pc \notin {"closed", "open", "finalize", "ap_options", "ap_wipe", "mk_truncate"}
  BY <1>7 DEF Making, Marked, Sized, Hinted, Tabled, Wiping, Working, Appending
<1>9. /\ harm' \subseteq {"header", "blocks", "hints", "ignored"}
      /\ "ignored" \notin harm' => harm' = harm /\ fs'.blocks = fs.blocks + k
  BY <1>1, <1>6, <1>7 DEF Grows, TypeOK
<1>10. StepInv'
  <2>1. TypeOK'
    BY <1>1, <1>4, <1>5, <1>7, <1>9 DEF TypeOK
  <2>2. MakingInv'
    BY <1>8 DEF MakingInv, Making, Marked, Sized, Hinted, Tabled, Wiping
  <2>3. WorkingInv'
    BY <1>1, <1>5, <1>7, <1>8 DEF WorkingInv, SameRecords
  <2> QED BY <1>3, <1>5, <2>1, <2>2, <2>3 DEF StepInv
<1>11. CASE "ignored" \in harm'
  BY <1>10, <1>11 DEF ContainerInv, HeaderInv, CompleteInv, ReadableInv, HintInv
<1>12. CASE "ignored" \notin harm'
  <2>1. harm' = harm /\ fs'.blocks = fs.blocks + k /\ "ignored" \notin harm
    BY <1>9, <1>12
  <2>2. Reshaped
    BY <1>2, <1>3, <1>4, <2>1, ReshapedFacts
  <2>3. HeaderInv'
    BY <1>5, <1>7, <1>8, <2>1 DEF ContainerInv, HeaderInv, Openable, HeaderOK, SameRecords
  <2>4. CompleteInv'
    BY <1>2, <1>3, <1>5, <1>7, <1>8, <2>1, <2>2 DEF CompleteInv, Reshaped, SameRecords
  <2>5. ReadableInv'
    BY <1>5, <1>7, <1>8, <2>1, <2>2 DEF ContainerInv, ReadableInv, Reshaped, SameRecords
  <2>6. HintInv'
    BY <1>2, <1>7, <1>8, <2>1, <2>2 DEF ContainerInv, HintInv, Full, Reshaped
  <2> QED BY <1>10, <2>3, <2>4, <2>5, <2>6 DEF ContainerInv
<1> QED BY <1>11, <1>12

LEMMA GrowthUndoneStep ==
  ASSUME ContainerInv, fs.pc = "open", fs.rw, GrowthUndone, dev' = dev
  PROVE  ContainerInv'
<1>1. /\ TypeOK /\ StepInv /\ disk.exists /\ fs.located /\ fs' = fs
      /\ dev' \in {"live", "gone"}
  BY DEF ContainerInv, StepInv, TypeOK, WorkingInv, Working, GrowthUndone
<1>2. /\ disk \in Disk /\ Len(disk.slots) \in Nat /\ fs.blocks \in Nat /\ fs.eof \in Nat
      /\ fs.eof <= MaxBlocks /\ fs.hint \in Nat /\ faults' \in 0 .. MaxFaults
  <2>1. MaxFaults \in Nat /\ faults \in 0 .. MaxFaults
    BY <1>1, StateTypes DEF TypeOK
  <2>2. faults' \in 0 .. MaxFaults
    BY <2>1 DEF GrowthUndone
  <2> QED BY <1>1, <2>2, StateTypes
<1>3. /\ fs.pc \notin Making /\ fs.pc \notin Appending /\ fs.pc \in Working
      /\ fs.pc \notin {"closed", "finalize", "ap_filesize", "ap_options", "ap_wipe", "mk_truncate"}
  BY DEF Making, Marked, Sized, Hinted, Tabled, Wiping, Working, Appending
<1>4. CASE disk' = disk
  <2>1. harm' = harm
    BY <1>4 DEF GrowthUndone
  <2> QED BY <1>1, <1>2, <1>4, <2>1, NothingWritten
<1>5. CASE disk' = Resized(disk, fs.eof)
  <2>1. IsResized(disk, fs.eof, disk')
    BY <1>2, <1>5, ResizedFacts
  <2>2. disk' \in Disk /\ SameRecords(disk, disk') /\ Len(disk'.slots) = fs.eof
    BY <2>1 DEF IsResized
  <2>3. /\ harm \subseteq harm' /\ harm' \subseteq harm \cup {"header"}
        /\ "header" \notin harm' => Len(disk'.slots) = Len(disk.slots)
    BY DEF GrowthUndone
  <2>4. StepInv'
    <3>1. TypeOK'
      BY <1>1, <1>2, <2>2, <2>3 DEF TypeOK
    <3>2. MakingInv'
      BY <1>1, <1>3 DEF MakingInv, Making, Marked, Sized, Hinted, Tabled, Wiping
    <3>3. WorkingInv'
      BY <1>1, <1>3, <2>2 DEF WorkingInv, SameRecords
    <3> QED BY <1>2, <2>2, <3>1, <3>2, <3>3 DEF StepInv
  <2>5. CASE "ignored" \in harm
    BY <2>3, <2>4, <2>5 DEF ContainerInv, HeaderInv, CompleteInv, ReadableInv, HintInv
  <2>6. CASE "ignored" \notin harm
    <3>1. Reshaped
      BY <1>2, <2>1, <2>6, ReshapedFacts
    <3>2. HeaderInv'
      BY <1>1, <1>3, <2>2, <2>3
         DEF ContainerInv, HeaderInv, Openable, HeaderOK, Length, SameRecords
    <3>3. CompleteInv'
      BY <1>1, <1>2, <1>3, <2>2, <3>1 DEF CompleteInv, Reshaped, SameRecords
    <3>4. ReadableInv'
      BY <1>1, <1>3, <2>2, <2>3, <3>1 DEF ContainerInv, ReadableInv, Reshaped, SameRecords
    <3>5. HintInv'
      BY <1>1, <1>2, <1>3, <2>3, <3>1 DEF ContainerInv, HintInv, Full, Reshaped
    <3> QED BY <2>4, <3>2, <3>3, <3>4, <3>5 DEF ContainerInv
  <2> QED BY <2>5, <2>6
<1> QED BY <1>4, <1>5 DEF GrowthUndone

LEMMA AppendBlocksStep ==
  ASSUME ContainerInv, NEW k \in 1 .. MaxId, AppendBlocks(k)
  PROVE  ContainerInv'
BY GrowsStep, GrowthUndoneStep DEF AppendBlocks

\* The size, then the block count are written to the header, or the failure
\* to write one is overlooked.
LEMMA AppendHeaderStep ==
  ASSUME ContainerInv, AppendFilesize \/ AppendOptions
  PROVE  ContainerInv'
<1>1. PICK at, st, d :
        /\ at \in {"ap_filesize", "ap_options"} /\ st \in {"ap_options", "ap_wipe"}
        /\ fs.pc = at /\ Goto(st)
        /\ \/ Writes(d) /\ harm' = harm
           \/ /\ faults < MaxFaults /\ faults' = faults + 1 /\ harm' = harm \cup {"ignored"}
              /\ disk' \in {disk} \cup SlippedOptions(disk, disk.blocks)
                                  \cup SlippedOptions(disk, fs.blocks)
        /\ dev' = dev
        /\ \/ at = "ap_filesize" /\ st = "ap_options" /\ d = [disk EXCEPT !.filesize = Length(disk)]
           \/ at = "ap_options" /\ st = "ap_wipe" /\ d = [disk EXCEPT !.blocks = fs.blocks]
  BY DEF AppendFilesize, AppendOptions, WriteFails
<1>2. /\ TypeOK /\ StepInv /\ fs.located /\ fs.rw /\ disk.exists
      /\ fs.pc \in Working
  BY <1>1 DEF ContainerInv, StepInv, WorkingInv, Working, Appending
<1>3. /\ disk \in Disk /\ Len(disk.slots) \in Nat /\ Len(disk.slots) <= MaxBlocks
      /\ fs.blocks \in 0 .. MaxId /\ fs.wiped \in Nat /\ disk.blocks \in 0 .. MaxId
      /\ MaxId \in Nat /\ faults \in 0 .. MaxFaults /\ MaxBlocks \in Nat /\ MaxFaults \in Nat
  BY <1>2, StateTypes DEF StepInv
<1>4. fs' \in Fs /\ fs'.pc = st /\ FsKept
  BY <1>1, <1>2, GotoFacts DEF Steps
<1>5. /\ fs'.pc \notin Making /\ fs'.pc \in Appending /\ fs'.pc \in Working
      /\ fs'.pc \notin {"closed", "open", "finalize", "ap_filesize", "mk_truncate"}
  BY <1>1, <1>4 DEF Making, Marked, Sized, Hinted, Tabled, Wiping, Working, Appending
<1> DEFINE Outcome ==
      /\ disk' \in Disk /\ disk'.slots = disk.slots /\ disk'.exists
      /\ "ignored" \notin harm' => disk'.magic = disk.magic
      /\ disk'.hint = disk.hint
      /\ disk'.names = disk.names /\ disk'.inodes = disk.inodes
      /\ faults' \in 0 .. MaxFaults
      /\ harm \subseteq harm' /\ harm' \subseteq harm \cup {"ignored"}
      /\ "ignored" \notin harm' =>
           \/ at = "ap_filesize" /\ disk'.filesize = 1 + Len(disk.slots) /\ disk'.blocks = disk.blocks
           \/ at = "ap_options" /\ disk'.filesize = disk.filesize /\ disk'.blocks = fs.blocks
<1>6. Outcome
  <2>1. CASE /\ faults < MaxFaults /\ faults' = faults + 1 /\ harm' = harm \cup {"ignored"}
             /\ disk' \in {disk} \cup SlippedOptions(disk, disk.blocks)
                                 \cup SlippedOptions(disk, fs.blocks)
    <3>1. faults' \in 0 .. MaxFaults
      BY <1>3, <2>1
    <3>2. CASE disk' = disk
      BY <1>2, <1>3, <2>1, <3>1, <3>2
    <3>3. CASE disk' \in SlippedOptions(disk, disk.blocks) \cup SlippedOptions(disk, fs.blocks)
      <4>1. PICK c \in 0 .. MaxId : disk' \in SlippedOptions(disk, c)
        BY <1>3, <3>3
      <4>2. PICK m \in BOOLEAN : disk' = [disk EXCEPT !.magic = disk.magic /\ m, !.blocks = c]
        BY <4>1 DEF SlippedOptions
      <4>3. PICK q \in BOOLEAN : q = (disk.magic /\ m)
        BY <1>3 DEF Disk
      <4>4. disk' = [disk EXCEPT !.magic = q, !.blocks = c]
        BY <4>2, <4>3
      <4> QED BY <1>2, <1>3, <2>1, <3>1, <4>4 DEF Disk
    <3> QED BY <2>1, <3>2, <3>3
  <2>2. CASE Writes(d) /\ harm' = harm /\ at = "ap_filesize"
    <3>1. disk' = [disk EXCEPT !.filesize = 1 + Len(disk.slots)] /\ faults' = faults
      BY <1>1, <1>2, <2>2 DEF Writes, Length
    <3>2. 1 + Len(disk.slots) \in 0 .. MaxBlocks + 1
      BY <1>3
    <3> QED BY <1>2, <1>3, <2>2, <3>1, <3>2 DEF Disk
  <2>3. CASE Writes(d) /\ harm' = harm /\ at = "ap_options"
    <3>1. disk' = [disk EXCEPT !.blocks = fs.blocks] /\ faults' = faults
      BY <1>1, <2>3 DEF Writes
    <3> QED BY <1>2, <1>3, <2>3, <3>1 DEF Disk
  <2> QED BY <1>1, <2>1, <2>2, <2>3
<1>7. StepInv'
  <2>1. TypeOK'
    BY <1>1, <1>2, <1>4, <1>6 DEF TypeOK
  <2>2. MakingInv'
    BY <1>5 DEF MakingInv, Making, Marked, Sized, Hinted, Tabled, Wiping
  <2>3. WorkingInv'
    BY <1>2, <1>4, <1>5, <1>6 DEF WorkingInv, FsKept
  <2> QED BY <1>3, <1>6, <2>1, <2>2, <2>3 DEF StepInv
<1>8. \A b \in Nat : SlotAt(b)' = SlotAt(b)
  BY <1>6 DEF SlotAt
<1>9. ASSUME "ignored" \notin harm'
      PROVE  /\ "ignored" \notin harm
             /\ disk.names /\ disk.inodes /\ fs.blocks <= Len(disk.slots) /\ disk.blocks = fs.wiped
             /\ fs.wiped <= fs.blocks /\ fs.eof = fs.blocks
             /\ at = "ap_options" => disk.filesize = 1 + Len(disk.slots)
             /\ \A b \in 1 .. Len(disk.slots) : disk.slots[b] = "used" => b <= disk.blocks
  <2>1. "ignored" \notin harm
    BY <1>6, <1>9
  <2>2. fs.pc \in Appending
    BY <1>1 DEF Appending
  <2> QED BY <1>1, <1>2, <2>1, <2>2 DEF ContainerInv, CompleteInv, Length
<1>10. HeaderInv'
  <2> SUFFICES ASSUME harm' \cap {"header", "ignored"} = {} PROVE Openable(disk')
    BY <1>5 DEF HeaderInv
  <2>1. harm \cap {"header", "ignored"} = {} /\ "ignored" \notin harm'
    BY <1>6
  <2>2. disk.magic /\ disk.hint # 0
    BY <1>1, <2>1 DEF ContainerInv, HeaderInv, Openable, HeaderOK
  <2>3. disk'.filesize = 1 + Len(disk'.slots)
    BY <1>6, <1>9, <2>1
  <2>4. disk'.magic /\ disk'.hint # 0 /\ disk'.exists
    BY <1>3, <1>6, <2>2 DEF Disk
  <2> QED BY <1>3, <1>6, <2>3, <2>4 DEF Openable, HeaderOK, Length
<1>11. CompleteInv'
  <2> SUFFICES ASSUME "ignored" \notin harm' PROVE CompleteInv'
    BY DEF CompleteInv
  <2>1. disk'.names /\ disk'.inodes
    BY <1>3, <1>6, <1>9 DEF Disk
  <2>2. disk'.filesize = 1 + Len(disk'.slots) /\ disk'.blocks < disk'.filesize
    BY <1>3, <1>6, <1>9
  <2>3. Length(disk') = 1 + Len(disk'.slots)
    BY <1>6 DEF Length
  <2>4. fs'.pc = "ap_wipe" => disk'.blocks = fs'.blocks
    BY <1>1, <1>4, <1>6 DEF FsKept
  <2>5. fs'.pc = "ap_options" => disk'.blocks = fs'.wiped
    BY <1>1, <1>4, <1>6, <1>9 DEF FsKept
  <2>6. \A b \in 1 .. Len(disk'.slots) :
          disk'.slots[b] = "used" => b <= disk'.blocks /\ b <= fs'.wiped
    <3>1. fs'.wiped = disk.blocks /\ disk.blocks <= disk'.blocks /\ disk'.blocks \in Nat
      BY <1>3, <1>4, <1>6, <1>9 DEF FsKept
    <3> QED BY <1>3, <1>6, <1>9, <3>1
  <2> QED BY <1>4, <1>5, <1>6, <1>9, <2>1, <2>2, <2>3, <2>4, <2>5, <2>6 DEF CompleteInv, FsKept
<1>12. ReadableInv'
  <2> SUFFICES ASSUME harm' \cap {"blocks", "ignored"} = {}
               PROVE  \A b \in 1 .. (IF fs'.pc = "ap_wipe" THEN fs'.wiped ELSE disk'.blocks) :
                        SlotAt(b)' # "junk"
    BY <1>5 DEF ReadableInv
  <2>1. harm \cap {"blocks", "ignored"} = {} /\ "ignored" \notin harm'
    BY <1>6
  <2>2. \A b \in 1 .. disk.blocks : SlotAt(b) # "junk"
    BY <1>1, <2>1 DEF ContainerInv, ReadableInv
  <2>3. (IF fs'.pc = "ap_wipe" THEN fs'.wiped ELSE disk'.blocks) = disk.blocks
    BY <1>1, <1>4, <1>6, <1>9, <2>1 DEF FsKept
  <2> QED BY <1>3, <1>8, <2>2, <2>3
<1>13. HintInv'
  <2>1. /\ fs'.hint = fs.hint
        /\ harm' \cap {"hints", "ignored"} = {} => harm \cap {"hints", "ignored"} = {}
    BY <1>4, <1>6 DEF FsKept
  <2>2. fs.hint \in Nat
    BY <1>2, StateTypes
  <2> QED BY <1>2, <1>5, <1>8, <2>1, <2>2 DEF ContainerInv, HintInv, Full
<1> QED BY <1>7, <1>10, <1>11, <1>12, <1>13 DEF ContainerInv

LEMMA AppendWipeStep ==
  ASSUME ContainerInv, AppendWipe
  PROVE  ContainerInv'
<1>1. /\ fs.pc = "ap_wipe" /\ (WipeDone("open") \/ WipeOne \/ WipeStops("open"))
      /\ TypeOK /\ StepInv /\ dev' = dev
      /\ harm' = IF faults' = faults THEN harm ELSE harm \cup {"blocks"}
  BY NewBlockFacts DEF AppendWipe, WipeWraps, Steps, ContainerInv, StepInv
<1>2. /\ fs.rw /\ fs.located /\ disk.exists /\ fs.pc \in Working
  BY <1>1 DEF StepInv, WorkingInv, Working, Appending
<1>3. /\ disk \in Disk /\ Len(disk.slots) \in Nat /\ Len(disk.slots) <= MaxBlocks
      /\ fs.blocks \in 0 .. MaxId /\ fs.wiped \in Nat /\ disk.blocks \in Nat
      /\ fs.hint \in 1 .. MaxId /\ MaxBlocks \in Nat /\ MaxId \in Nat /\ MaxId <= MaxBlocks
  BY <1>1, StateTypes DEF StepInv
<1>4. "ignored" \notin harm =>
        /\ disk.blocks = fs.blocks /\ fs.blocks <= Len(disk.slots) /\ disk.names /\ disk.inodes
        /\ fs.wiped <= fs.blocks /\ fs.eof = fs.blocks
        /\ disk.filesize # 0 => disk.blocks < disk.filesize
        /\ \A b \in 1 .. Len(disk.slots) : disk.slots[b] = "used" => b <= fs.wiped
  BY <1>1, <1>2 DEF ContainerInv, CompleteInv, Appending
<1>5. CASE WipeDone("open") \/ WipeStops("open")
  <2>1. /\ disk' = disk /\ fs' \in Fs /\ fs'.pc = "open" /\ FsKept /\ faults' \in 0 .. MaxFaults
        /\ harm \subseteq harm' /\ harm' \subseteq harm \cup {"blocks"}
        /\ "blocks" \notin harm' => fs.wiped >= fs.blocks
    <3>1. CASE WipeDone("open")
      BY <1>1, <3>1, StateTypes DEF WipeDone
    <3>2. CASE WipeStops("open")
      BY <1>1, <3>2 DEF WipeStops
    <3> QED BY <1>5, <3>1, <3>2
  <2>2. /\ fs'.pc \notin Making /\ fs'.pc \notin Appending /\ fs'.pc \in Working
        /\ fs'.pc \notin {"closed", "finalize", "ap_filesize", "ap_options", "ap_wipe", "mk_truncate"}
    BY <2>1 DEF Making, Marked, Sized, Hinted, Tabled, Wiping, Working, Appending
  <2>3. StepInv'
    <3>1. TypeOK'
      BY <1>1, <2>1 DEF TypeOK
    <3>2. MakingInv'
      BY <2>2 DEF MakingInv, Making, Marked, Sized, Hinted, Tabled, Wiping
    <3>3. WorkingInv'
      BY <1>2, <2>1, <2>2 DEF WorkingInv, FsKept
    <3> QED BY <1>3, <2>1, <3>1, <3>2, <3>3 DEF StepInv
  <2>4. HeaderInv'
    BY <1>1, <2>1, <2>2 DEF ContainerInv, HeaderInv
  <2>5. CompleteInv'
    BY <1>1, <1>2, <1>4, <2>1, <2>2 DEF ContainerInv, CompleteInv, FsKept
  <2>6. ReadableInv'
    <3> SUFFICES ASSUME harm' \cap {"blocks", "ignored"} = {}, NEW b \in 1 .. disk'.blocks
                 PROVE  SlotAt(b)' # "junk"
      BY <2>2 DEF ReadableInv
    <3>1. harm \cap {"blocks", "ignored"} = {} /\ fs.wiped >= fs.blocks
      BY <2>1
    <3>2. \A c \in 1 .. fs.wiped : SlotAt(c) # "junk"
      BY <1>1, <3>1 DEF ContainerInv, ReadableInv
    <3>3. b \in 1 .. fs.wiped
      BY <1>3, <1>4, <2>1, <3>1
    <3> QED BY <2>1, <3>2, <3>3 DEF SlotAt
  <2>7. HintInv'
    BY <1>2, <2>1, <2>2 DEF ContainerInv, HintInv, Full, SlotAt, FsKept
  <2> QED BY <2>3, <2>4, <2>5, <2>6, <2>7 DEF ContainerInv
<1>6. CASE WipeOne
  <2>1. /\ fs' \in Fs /\ fs'.pc = "ap_wipe" /\ fs'.rw /\ fs'.located /\ fs'.blocks = fs.blocks
        /\ fs'.wiped = fs.wiped + 1 /\ fs'.wiped <= fs.blocks /\ harm' = harm /\ faults' = faults
        /\ fs'.hint <= fs.hint /\ fs'.hint <= fs'.wiped /\ fs'.hint \in Nat /\ fs'.eof = fs.eof
    BY <1>1, <1>2, <1>3, <1>6 DEF WipeOne
  <2>2. /\ fs'.pc \notin Making /\ fs'.pc \in Appending /\ fs'.pc \in Working
        /\ fs'.pc \notin {"closed", "open", "finalize", "ap_filesize", "ap_options", "mk_truncate"}
    BY <2>1 DEF Making, Marked, Sized, Hinted, Tabled, Wiping, Working, Appending
  <2>3. /\ disk' \in Disk /\ SameRecords(disk, disk')
        /\ Len(disk'.slots) = IF fs'.wiped > Len(disk.slots) THEN fs'.wiped ELSE Len(disk.slots)
        /\ \A k \in 1 .. Len(disk'.slots) :
             disk'.slots[k] = IF k = fs'.wiped THEN "free"
                              ELSE IF k <= Len(disk.slots) THEN disk.slots[k] ELSE "junk"
    BY <1>6, <2>1 DEF WipeOne, HasSlot
  <2>4. Len(disk'.slots) \in Nat /\ Len(disk'.slots) <= MaxBlocks
    BY <1>3, <2>1, <2>3
  <2>5. \A k \in Nat \ {0} : SlotAt(k)' = IF k = fs'.wiped THEN "free" ELSE SlotAt(k)
    BY <1>3, <2>1, <2>3 DEF SlotAt
  <2>6. StepInv'
    <3>1. TypeOK'
      BY <1>1, <2>1, <2>3 DEF TypeOK
    <3>2. MakingInv'
      BY <2>2 DEF MakingInv, Making, Marked, Sized, Hinted, Tabled, Wiping
    <3>3. WorkingInv'
      BY <1>2, <2>1, <2>2, <2>3 DEF WorkingInv, SameRecords
    <3> QED BY <2>4, <3>1, <3>2, <3>3 DEF StepInv
  <2>7. ASSUME "ignored" \notin harm
        PROVE  /\ Len(disk'.slots) = Len(disk.slots)
               /\ \A b \in 1 .. Len(disk'.slots) : disk'.slots[b] = "used" => b <= fs.wiped
    <3>1. Len(disk'.slots) = Len(disk.slots)
      BY <1>3, <1>4, <2>1, <2>3, <2>7
    <3>2. \A b \in 1 .. Len(disk'.slots) :
            disk'.slots[b] = "used" => b \in 1 .. Len(disk.slots) /\ disk.slots[b] = "used"
      BY <1>3, <2>3, <3>1
    <3> QED BY <1>4, <2>7, <3>1, <3>2
  <2>8. HeaderInv'
    BY <1>1, <1>2, <2>1, <2>2, <2>3, <2>7
       DEF ContainerInv, HeaderInv, Openable, HeaderOK, Length, SameRecords
  <2>9. CompleteInv'
    <3> SUFFICES ASSUME "ignored" \notin harm PROVE CompleteInv'
      BY <2>1 DEF CompleteInv
    <3>1. \A b \in 1 .. Len(disk'.slots) :
            disk'.slots[b] = "used" => b <= disk.blocks /\ b <= fs'.wiped
      BY <1>2, <1>3, <1>4, <2>1, <2>7
    <3> QED BY <1>4, <2>1, <2>2, <2>3, <2>7, <3>1 DEF CompleteInv, SameRecords
  <2>10. ReadableInv'
    <3> SUFFICES ASSUME harm \cap {"blocks", "ignored"} = {}, NEW b \in 1 .. fs'.wiped
                 PROVE  SlotAt(b)' # "junk"
      BY <2>1, <2>2 DEF ReadableInv
    <3>1. b = fs'.wiped \/ b \in 1 .. fs.wiped
      BY <1>3, <2>1
    <3>2. b \in 1 .. fs.wiped => SlotAt(b) # "junk"
      BY <1>1 DEF ContainerInv, ReadableInv
    <3> QED BY <2>5, <3>1, <3>2
  <2>11. HintInv'
    <3> SUFFICES ASSUME harm \cap {"hints", "ignored"} = {}, NEW k \in 1 .. fs'.hint - 1 PROVE SlotAt(k)' = "used"
      BY <2>1, <2>2 DEF HintInv, Full
    <3>1. k \in 1 .. fs.hint - 1 /\ k # fs'.wiped /\ k \in Nat \ {0}
      BY <1>3, <2>1
    <3>2. SlotAt(k) = "used"
      BY <1>2, <3>1 DEF ContainerInv, HintInv, Full
    <3> QED BY <2>5, <3>1, <3>2
  <2> QED BY <2>6, <2>8, <2>9, <2>10, <2>11 DEF ContainerInv
<1> QED BY <1>1, <1>5, <1>6

LEMMA CrashStep ==
  ASSUME ContainerInv, Crash
  PROVE  ContainerInv'
<1>1. /\ fs.pc # "closed" /\ faults < MaxFaults /\ faults' = faults + 1 /\ fs' = NoFs
      /\ dev' = "live" /\ harm' = harm \cup HarmDone /\ disk' = disk /\ TypeOK /\ StepInv
  BY DEF Crash, ContainerInv, StepInv
<1>2. /\ fs' \in Fs /\ fs'.pc = "closed" /\ faults' \in 0 .. MaxFaults /\ disk.blocks \in Nat
  BY <1>1, NoFsType, StateTypes
<1>3. /\ fs'.pc \notin Making /\ fs'.pc \notin Working
      /\ fs'.pc \notin {"open", "finalize", "ap_filesize", "ap_options", "ap_wipe", "mk_truncate"}
  BY <1>2 DEF Making, Marked, Sized, Hinted, Tabled, Wiping, Working, Appending
<1>4. /\ HarmDone \subseteq {"header", "blocks", "hints"}
      /\ fs.pc = "ap_filesize" => "header" \in harm'
      /\ fs.pc = "ap_wipe" => "blocks" \in harm'
      /\ fs.rw => "hints" \in harm'
      /\ harm \subseteq harm' /\ ("ignored" \in harm' => "ignored" \in harm)
  BY <1>1 DEF HarmDone
<1>5. StepInv'
  <2>1. TypeOK'
    BY <1>1, <1>2, <1>4 DEF TypeOK
  <2>2. MakingInv'
    BY <1>3 DEF MakingInv, Making, Marked, Sized, Hinted, Tabled, Wiping
  <2>3. WorkingInv'
    BY <1>2, <1>3 DEF WorkingInv, Working
  <2> QED BY <1>1, <2>1, <2>2, <2>3 DEF StepInv
<1>6. HeaderInv'
  BY <1>1, <1>2, <1>3, <1>4 DEF ContainerInv, HeaderInv
<1>7. CompleteInv'
  BY <1>1, <1>2, <1>3, <1>4 DEF ContainerInv, CompleteInv, Working, Appending
<1>8. ReadableInv'
  BY <1>1, <1>2, <1>3, <1>4 DEF ContainerInv, ReadableInv, SlotAt
<1>9. HintInv'
  <2> SUFFICES ASSUME harm' \cap {"hints", "ignored"} = {} PROVE Full(disk.hint)'
    BY <1>2, <1>3 DEF HintInv
  <2>1. ~fs.rw /\ harm \cap {"hints", "ignored"} = {}
    BY <1>4
  <2>2. fs.pc \in {"open", "finalize"}
    BY <1>1, <2>1 DEF StepInv, TypeOK, Fs, Steps, MakingInv, WorkingInv, Making, Marked, Sized,
                      Hinted, Tabled, Wiping, Appending
  <2>3. Full(disk.hint)
    BY <2>1, <2>2 DEF ContainerInv, HintInv
  <2> QED BY <1>1, <2>3 DEF Full, SlotAt
<1> QED BY <1>5, <1>6, <1>7, <1>8, <1>9 DEF ContainerInv

-----------------------------------------------------------------------------
(* Theorems.                                                                *)

LEMMA ContainerInit == Init => ContainerInv
<1> SUFFICES ASSUME Init PROVE ContainerInv
  OBVIOUS
<1>1. fs = NoFs /\ dev = "live" /\ faults = 0 /\ harm = {"header"}
  BY DEF Init
<1>2. fs \in Fs /\ fs.pc = "closed"
  BY <1>1, NoFsType
<1>3. /\ fs.pc \notin Making /\ fs.pc \notin Working
      /\ fs.pc \notin {"open", "finalize", "ap_filesize", "ap_options", "ap_wipe", "mk_truncate"}
  BY <1>2 DEF Making, Marked, Sized, Hinted, Tabled, Wiping, Working, Appending
<1>4. /\ NoFile \in Disk /\ NoFile.slots = <<>> /\ NoFile.filesize = 0 /\ NoFile.blocks = 0
      /\ NoFile.hint = 0
  BY ContainerAssumption DEF NoFile, Disk
<1>5. /\ disk \in Disk /\ disk.filesize = 0 /\ disk.blocks = 0 /\ disk.hint = 0
      /\ Len(disk.slots) <= 1 /\ \A b \in 1 .. Len(disk.slots) : disk.slots[b] # "used"
  <2>1. CASE disk = NoFile
    <3>1. Len(<<>>) = 0 /\ 1 .. 0 = {}
      OBVIOUS
    <3>2. disk \in Disk /\ disk.slots = <<>>
      BY <1>4, <2>1
    <3>3. Len(disk.slots) <= 1 /\ 1 .. Len(disk.slots) = {}
      BY <3>1, <3>2
    <3>4. disk.filesize = 0 /\ disk.blocks = 0 /\ disk.hint = 0
      BY <1>4, <2>1
    <3>5. \A b \in 1 .. Len(disk.slots) : disk.slots[b] # "used"
      BY <3>3
    <3> QED BY <3>2, <3>3, <3>4, <3>5
  <2>2. CASE disk = [NoFile EXCEPT !.exists = TRUE, !.slots = Slots(1, "junk")]
    <3> DEFINE g == Slots(1, "junk")
    <3>1. g \in [1 .. 1 -> Slot] /\ \A b \in 1 .. 1 : g[b] = "junk"
      BY DEF Slots, Slot
    <3> HIDE DEF g
    <3>2. g \in Seq(Slot) /\ Len(g) = 1
      BY <3>1, SlotsType
    <3>3. disk = [NoFile EXCEPT !.exists = TRUE, !.slots = g]
      BY <2>2 DEF g
    <3>4. PICK z : z = NoFile
      OBVIOUS
    <3>5. z \in Disk /\ z.filesize = 0 /\ z.blocks = 0 /\ z.hint = 0
      BY <1>4, <3>4
    <3>6. disk = [z EXCEPT !.exists = TRUE, !.slots = g]
      BY <3>3, <3>4
    <3>7. /\ disk \in Disk /\ disk.slots = g
          /\ disk.filesize = 0 /\ disk.blocks = 0 /\ disk.hint = 0
      BY <3>2, <3>5, <3>6 DEF Disk
    <3>8. \A b \in 1 .. Len(disk.slots) : disk.slots[b] # "used"
      BY <3>1, <3>2, <3>7
    <3> QED BY <3>2, <3>7, <3>8
  <2> QED BY <2>1, <2>2 DEF Init
<1>6. StepInv
  <2>1. TypeOK
    BY <1>1, <1>2, <1>5, ContainerAssumption DEF TypeOK
  <2>2. MakingInv
    BY <1>3 DEF MakingInv, Making, Marked, Sized, Hinted, Tabled, Wiping
  <2>3. WorkingInv
    BY <1>2, <1>3 DEF WorkingInv, Working
  <2>4. Len(disk.slots) <= MaxBlocks
    BY <1>5, ContainerAssumption DEF Disk
  <2> QED BY <2>1, <2>2, <2>3, <2>4 DEF StepInv
<1>7. HeaderInv /\ CompleteInv
  BY <1>1, <1>2, <1>3, <1>5 DEF HeaderInv, CompleteInv, Working, Appending
<1>8. ReadableInv /\ HintInv
  BY <1>1, <1>2, <1>3, <1>5 DEF ReadableInv, HintInv, Full
<1> QED BY <1>6, <1>7, <1>8 DEF ContainerInv

LEMMA ContainerNext == ContainerInv /\ [Next]_vars => ContainerInv'
<1> SUFFICES ASSUME ContainerInv, [Next]_vars PROVE ContainerInv'
  OBVIOUS
<1>1. dev \in {"live", "gone"} /\ faults \in 0 .. MaxFaults
  BY DEF ContainerInv, StepInv, TypeOK
<1>2. CASE UNCHANGED vars
  BY <1>1, <1>2, NothingWritten DEF vars
<1>3. CASE NewDevice
  BY <1>1, <1>3, NothingWritten DEF NewDevice
<1>4. CASE MkfsTables
  <2>1. CASE MkfsMagic \/ MkfsOptions
    BY <1>4, <2>1, TablesStep, SlippedStep DEF MkfsTables, MkfsMagic, MkfsOptions
  <2>2. CASE MkfsHints \/ MkfsNames \/ MkfsInodes
    BY <1>4, <2>2, TablesStep DEF MkfsTables, MkfsHints, MkfsNames, MkfsInodes
  <2>3. CASE MkfsBlocks
    BY <1>4, <2>3, MkfsBlocksStep DEF MkfsTables
  <2> QED BY <1>4, <2>1, <2>2, <2>3 DEF MkfsTables
<1> QED BY <1>2, <1>3, <1>4, MkfsStep, MkfsTruncateStep, MkfsFilesizeStep, OpenStep, FinalizeStep,
           AllocStep, FreeStep, AppendBlocksStep, AppendHeaderStep, AppendWipeStep, CrashStep
        DEF Next

\* What every container keeps, through failures and crashes.
THEOREM ContainerTheorem == Spec => []ContainerInv
BY ContainerInit, ContainerNext, PTL DEF Spec

\* Every container that a mkfs completed opens again, unless a crash caught an
\* append between growing the file and writing its size, an append failed in a
\* file longer than its count, or something lost was overlooked
\* (whefs_openfs_stage2()'s size check).
THEOREM ReopensAlways == Spec => []Reopens
<1>1. ContainerInv => Reopens
  BY DEF ContainerInv, HeaderInv, Reopens
<1> QED BY <1>1, ContainerTheorem, PTL

\* What opens was made to the end: the size that whefs_mkfs_stage2() writes
\* last vouches for the tables and for a block's room per counted block.
THEOREM OpenIsCompleteAlways == Spec => []OpenIsComplete
<1>1. ContainerInv => OpenIsComplete
  BY DEF ContainerInv, CompleteInv, OpenIsComplete, Working
<1> QED BY <1>1, ContainerTheorem, PTL

\* Each block of an open container has a record that whefs_block_read() can
\* read, unless a mkfs or an append was cut short.
THEOREM BlocksReadableAlways == Spec => []BlocksReadable
<1>1. ContainerInv => BlocksReadable
  <2> SUFFICES ASSUME ContainerInv, fs.pc = "open", harm \cap {"blocks", "ignored"} = {}
               PROVE  \A b \in 1 .. fs.blocks : SlotAt(b) # "junk"
    BY DEF BlocksReadable
  <2>1. disk.blocks = fs.blocks
    BY DEF ContainerInv, CompleteInv
  <2> QED BY <2>1 DEF ContainerInv, ReadableInv
<1> QED BY <1>1, ContainerTheorem, PTL

\* Starting at the hint, whefs_block_next_free() passes over no free block of
\* a container that was always closed in order, nothing lost overlooked.
THEOREM HintsFindFreeAlways == Spec => []HintsFindFree
<1>1. ContainerInv => HintsFindFree
  <2> SUFFICES ASSUME ContainerInv, fs.pc = "open", harm \cap {"hints", "ignored"} = {},
                      NEW b \in 1 .. fs.blocks, b < fs.hint
               PROVE  SlotAt(b) = "used"
    BY DEF HintsFindFree
  <2>1. b \in 1 .. fs.hint - 1
    BY StateTypes DEF ContainerInv, StepInv
  <2> QED BY <2>1 DEF ContainerInv, HintInv, Full, Working
<1> QED BY <1>1, ContainerTheorem, PTL

\* What UsedBlocksKept says of one step.
KeepsUsed ==
    \A b \in 1 .. Len(disk.slots) : disk.slots[b] = "used" =>
        \/ b <= Len(disk'.slots) /\ disk'.slots[b] = "used"
        \/ fs.pc \in {"mk_truncate", "mk_blocks"}
        \/ /\ fs.pc = "open" /\ fs'.pc = "open" /\ b <= fs.blocks
           /\ Len(disk'.slots) = Len(disk.slots)
        \/ "ignored" \in harm

LEMMA SameSlotsKeep == ASSUME TypeOK, disk'.slots = disk.slots PROVE KeepsUsed
<1>1. Len(disk.slots) \in Nat
  BY StateTypes
<1> QED BY <1>1 DEF KeepsUsed

\* The steps of a container at work that change slots.
LEMMA ClientKeepsUsed ==
  ASSUME ContainerInv, AllocBlock \/ \E c \in 1 .. MaxId : FreeBlock(c)
  PROVE  KeepsUsed
<1>1. /\ TypeOK /\ disk \in Disk /\ fs \in Fs /\ Len(disk.slots) \in Nat /\ fs.pc = "open"
      /\ fs.blocks \in Nat /\ fs.hint \in 1 .. MaxId /\ MaxId \in Nat
  BY StateTypes DEF ContainerInv, StepInv, AllocBlock, FreeBlock
<1>2. PICK c, s :
        /\ c \in 1 .. Len(disk.slots) /\ HasSlot(disk, c, s, disk')
        /\ s = "used" \/ (c <= fs.blocks /\ fs'.pc = "open")
  <2>1. CASE AllocBlock
    <3>1. PICK c \in FreeFrom(fs.hint) : SlotAt(c) = "free" /\ disk' = [disk EXCEPT !.slots[c] = "used"]
      BY <2>1 DEF AllocBlock
    <3>2. c \in Nat /\ c >= 1
      BY <1>1, <3>1 DEF FreeFrom
    <3>3. c <= Len(disk.slots)
      BY <3>1 DEF SlotAt
    <3>4. c \in 1 .. Len(disk.slots) /\ "used" \in Slot
      BY <1>1, <3>2, <3>3 DEF Slot
    <3>5. HasSlot(disk, c, "used", disk')
      BY <1>1, <3>1, <3>4, SlotWritten
    <3> QED BY <3>4, <3>5
  <2>2. CASE \E c \in 1 .. MaxId : FreeBlock(c)
    <3>1. PICK c \in 1 .. MaxId : FreeBlock(c)
      BY <2>2
    <3>2. /\ c <= fs.blocks /\ SlotAt(c) = "used" /\ disk' = [disk EXCEPT !.slots[c] = "free"]
          /\ fs' = [fs EXCEPT !.hint = IF c < fs.hint THEN c ELSE fs.hint]
      BY <3>1 DEF FreeBlock
    <3>3. c <= Len(disk.slots)
      BY <3>2 DEF SlotAt
    <3>4. fs'.pc = "open"
      BY <1>1, <3>2 DEF Fs
    <3>5. c \in 1 .. Len(disk.slots) /\ "free" \in Slot
      BY <1>1, <3>3 DEF Slot
    <3>6. HasSlot(disk, c, "free", disk')
      BY <1>1, <3>2, <3>5, SlotWritten
    <3> QED BY <3>2, <3>4, <3>5, <3>6
  <2> QED BY <2>1, <2>2
<1>3. Len(disk'.slots) = Len(disk.slots)
  BY <1>1, <1>2 DEF HasSlot
<1> QED BY <1>1, <1>2, <1>3 DEF KeepsUsed, HasSlot

\* Growing the file keeps every slot, and the wipe of the new blocks reaches
\* none that is in use: those are all below the old block count.
LEMMA GrowthKeepsUsed ==
  ASSUME ContainerInv, AppendWipe \/ \E k \in 1 .. MaxId : AppendBlocks(k)
  PROVE  KeepsUsed
<1>1. /\ TypeOK /\ disk \in Disk /\ Len(disk.slots) \in Nat /\ fs.wiped \in Nat
  BY StateTypes DEF ContainerInv, StepInv
<1>2. CASE AppendWipe
  <2>1. fs.pc = "ap_wipe" /\ (WipeDone("open") \/ WipeOne \/ WipeStops("open"))
    BY <1>1, <1>2, NewBlockFacts DEF AppendWipe, WipeWraps, Steps
  <2>2. CASE WipeDone("open") \/ WipeStops("open")
    BY <1>1, <2>2, SameSlotsKeep DEF WipeDone, WipeStops
  <2>3. CASE WipeOne
    <3> SUFFICES ASSUME "ignored" \notin harm, NEW b \in 1 .. Len(disk.slots),
                        disk.slots[b] = "used"
                 PROVE  b <= Len(disk'.slots) /\ disk'.slots[b] = "used"
      BY DEF KeepsUsed
    <3>1. b <= fs.wiped
      BY <2>1 DEF ContainerInv, CompleteInv
    <3>2. HasSlot(disk, fs.wiped + 1, "free", disk')
      BY <2>3 DEF WipeOne
    <3>3. b # fs.wiped + 1 /\ b <= Len(disk'.slots) /\ b \in 1 .. Len(disk'.slots)
      BY <1>1, <3>1, <3>2 DEF HasSlot, Disk
    <3> QED BY <3>2, <3>3 DEF HasSlot
  <2> QED BY <2>1, <2>2, <2>3
<1>3. ASSUME NEW k \in 1 .. MaxId, AppendBlocks(k), "ignored" \notin harm PROVE KeepsUsed
  <2>1. CASE disk' = disk
    BY <1>1, <2>1, SameSlotsKeep
  <2>2. CASE disk' # disk
    <3>1. fs.eof \in Nat /\ k \in Nat
      BY <1>1, StateTypes
    <3>2. PICK n \in Nat : n >= fs.eof /\ disk' = Resized(disk, n)
      <4>1. CASE Grows(k)
        <5>1. fs.eof + k \in Nat /\ fs.eof + k >= fs.eof
          BY <3>1
        <5>2. disk' = Resized(disk, fs.eof + k)
          BY <4>1 DEF Grows, Writes
        <5> QED BY <5>1, <5>2
      <4>2. CASE GrowthUndone
        BY <2>2, <3>1, <4>2 DEF GrowthUndone
      <4> QED BY <1>3, <4>1, <4>2 DEF AppendBlocks
    <3>3. IsResized(disk, n, disk')
      BY <1>1, <3>2, ResizedFacts
    <3>4. Reshaped
      BY <1>3, <3>2, <3>3, ReshapedFacts DEF AppendBlocks
    <3> QED BY <3>4 DEF KeepsUsed, Reshaped
  <2> QED BY <2>1, <2>2
<1>4. CASE "ignored" \in harm
  BY <1>4 DEF KeepsUsed
<1> QED BY <1>2, <1>3, <1>4

\* The steps that write something else than blocks.
LEMMA OthersKeepUsed ==
  ASSUME TypeOK,
         \/ \E n \in 1 .. MaxId, viaDev \in BOOLEAN : Mkfs(n, viaDev)
         \/ MkfsMagic \/ MkfsOptions \/ MkfsHints \/ MkfsNames \/ MkfsInodes \/ MkfsFilesize
         \/ \E w, viaDev, take \in BOOLEAN : Open(w, viaDev, take)
         \/ Finalize \/ NewDevice \/ AppendFilesize \/ AppendOptions \/ Crash \/ UNCHANGED vars
  PROVE  disk'.slots = disk.slots
<1>1. disk \in Disk
  BY DEF TypeOK
<1>2. CASE Finalize
  BY <1>1, <1>2 DEF Finalize, Writes, WriteFails, WithHints, Disk
<1>3. CASE \/ MkfsMagic \/ MkfsOptions \/ MkfsHints \/ MkfsNames \/ MkfsInodes
  BY <1>1, <1>3 DEF MkfsMagic, MkfsOptions, MkfsHints, MkfsNames, MkfsInodes, Checked, Writes,
                    WriteFails, Overlooked, SlippedOptions, WithMagic, Disk
<1>4. CASE MkfsFilesize \/ AppendFilesize \/ AppendOptions
  BY <1>1, <1>4 DEF MkfsFilesize, AppendFilesize, AppendOptions, Writes, WriteFails,
                    SlippedOptions, Disk
<1>5. CASE \E n \in 1 .. MaxId, viaDev \in BOOLEAN : Mkfs(n, viaDev)
  BY <1>1, <1>5 DEF Mkfs, Disk
<1> QED BY <1>2, <1>3, <1>4, <1>5 DEF Open, NewDevice, Crash, vars

LEMMA KeepsUsedStep == ContainerInv /\ [Next]_vars => KeepsUsed
<1> SUFFICES ASSUME ContainerInv, [Next]_vars PROVE KeepsUsed
  OBVIOUS
<1>1. TypeOK
  BY DEF ContainerInv, StepInv
<1>2. CASE MkfsTruncate \/ MkfsBlocks
  BY <1>2 DEF KeepsUsed, MkfsTruncate, Checked, MkfsBlocks, WipeNewBlock
<1>3. CASE AllocBlock \/ \E c \in 1 .. MaxId : FreeBlock(c)
  BY <1>3, ClientKeepsUsed
<1>4. CASE AppendWipe \/ \E k \in 1 .. MaxId : AppendBlocks(k)
  BY <1>4, GrowthKeepsUsed
<1>5. CASE \/ \E n \in 1 .. MaxId, viaDev \in BOOLEAN : Mkfs(n, viaDev)
           \/ MkfsMagic \/ MkfsOptions \/ MkfsHints \/ MkfsNames \/ MkfsInodes \/ MkfsFilesize
           \/ \E w, viaDev, take \in BOOLEAN : Open(w, viaDev, take)
           \/ Finalize \/ NewDevice \/ AppendFilesize \/ AppendOptions \/ Crash \/ UNCHANGED vars
  BY <1>1, <1>5, OthersKeepUsed, SameSlotsKeep
<1> QED BY <1>2, <1>3, <1>4, <1>5 DEF Next, MkfsTables

\* No step of whefs_openfs(), whefs_fs_append_blocks() or whefs_fs_finalize(),
\* and no crash, takes a block from the file that uses it.
THEOREM UsedBlocksKeptAlways == Spec => UsedBlocksKept
<1>1. ContainerInv /\ [Next]_vars => [KeepsUsed]_vars
  BY KeepsUsedStep
<1>2. Spec => [][KeepsUsed]_vars
  BY <1>1, ContainerTheorem, PTL DEF Spec
<1> QED BY <1>2 DEF UsedBlocksKept, KeepsUsed
=============================================================================
