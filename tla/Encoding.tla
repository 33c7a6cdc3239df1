----------------------------- MODULE Encoding -----------------------------
(***************************************************************************)
(* The bytes of a container.  whio_encode.c gives every integer a tag and  *)
(* a fixed number of big-endian bytes; whefs_encode.c, whefs_block.c,      *)
(* whefs_inode.c and whefs_fs.c build the records of a container from      *)
(* them and put each record where whefs_fs_init_sizes says.                *)
(*                                                                         *)
(* Two machines share these operators:                                     *)
(*  - the store: the image mkfs leaves, then records rewritten in any      *)
(*    order, the last write possibly torn by a crash;                      *)
(*  - the parcel: one value, string, list or pack written over whatever an *)
(*    earlier one left on a device of a bounded size.                      *)
(*                                                                         *)
(* A byte takes Base values (256 in the code): numbers keep the code's     *)
(* width in bytes, and so its wrap, at a size TLC can count.  Tags keep    *)
(* the code's values, which no data byte of the model equals.              *)
(*                                                                         *)
(* Lists are those written to a device.  The variants that write to a      *)
(* buffer (whio_encode.c:284-310) never advance their pointer: each item    *)
(* goes over the one before.  Nothing calls them, and they are left out.    *)
(***************************************************************************)
EXTENDS Integers, SequencesExt

CONSTANTS
    Base,           \* values a byte can take
    Geometries,     \* the options records containers are made with
    MagicWords,     \* whefs_fs_magic_bytes
    PackFormats,    \* the pack formats used
    MaxWrites,      \* bound: records rewritten after mkfs, parcels sent
    Capacity        \* bytes of the device or buffer parcels are written to

VARIABLES
    store,          \* [opt, disk, told, writes]: a container's bytes and what was last written to each record, Failed when cut
    parcel          \* [bytes, sent, whole, sends]: the bytes, what was sent last, whether the sender was told all went out

encodingVars == <<store, parcel>>

-----------------------------------------------------------------------------
(* Integers *)

IntTypes == {"uint8", "int8", "uint16", "int16", "uint32", "int32", "uint64", "int64"}

Width(t) ==
    CASE t \in {"uint8", "int8"} -> 1
      [] t \in {"uint16", "int16"} -> 2
      [] t \in {"uint32", "int32"} -> 4
      [] t \in {"uint64", "int64"} -> 8

IsSigned(t) == t \in {"int8", "int16", "int32", "int64"}

\* whio_int8_tag_char is the tag of the unsigned byte: the code gives both 0x88.
TagOf == [uint64 |-> 192, int64 |-> 193, uint32 |-> 160, int32 |-> 161,
          uint16 |-> 144, int16 |-> 145, uint8 |-> 136, int8 |-> 136]

SizeOf(t) == 1 + Width(t)

(* Byte k of a number, from the least significant: (i >> 8k) & 0xff. *)
Byte(v, k) == (v \div Base^k) % Base

Encode(t, v) == <<TagOf[t]>> \o [i \in 1 .. Width(t) |-> Byte(v, Width(t) - i)]

Failed == [ok |-> FALSE]
Got(v) == [ok |-> TRUE, val |-> v]

Unsigned(bytes) == FoldLeft(LAMBDA sum, b : sum * Base + b, 0, bytes)

Cast(t, v) ==
    IF IsSigned(t) /\ v >= (Base^Width(t)) \div 2 THEN v - Base^Width(t) ELSE v

(* A tag that is not the type's is whio_rc.ConsistencyError; bytes that end early are the IOError of the decoders that read from a device. *)
Decode(t, bytes) ==
    IF Len(bytes) < SizeOf(t) \/ bytes[1] # TagOf[t] THEN Failed
    ELSE Got(Cast(t, Unsigned(SubSeq(bytes, 2, SizeOf(t)))))

From(bytes, i) == SubSeq(bytes, i, Len(bytes))

-----------------------------------------------------------------------------
(* Strings, lists and packs *)

CStringTag == 162
PackTag == 240

EncodeCString(s) == <<CStringTag>> \o Encode("uint32", Len(s)) \o s

DecodeCString(bytes) ==
    LET n == Decode("uint32", From(bytes, 2))
    IN  IF bytes = <<>> \/ bytes[1] # CStringTag \/ ~n.ok \/ Len(bytes) < 1 + SizeOf("uint32") + n.val
        THEN Failed
        ELSE Got(SubSeq(bytes, 2 + SizeOf("uint32"), 1 + SizeOf("uint32") + n.val))

EncodeList(list) == FlattenSeq([i \in 1 .. Len(list) |-> Encode("uint32", list[i])])

(* The decoder of a list stops at the first item it cannot read. *)
DecodeList(bytes, n) ==
    LET Item(i) == Decode("uint32", From(bytes, 1 + (i - 1) * SizeOf("uint32")))
        read == {k \in 0 .. n : \A i \in 1 .. k : Item(i).ok}
    IN  [i \in 1 .. Max(read) |-> Item(i).val]

PackTypes == ("1" :> <<"uint8", "int8">>) @@ ("2" :> <<"uint16", "int16">>)
             @@ ("4" :> <<"uint32", "int32">>) @@ ("8" :> <<"uint64", "int64">>)

(* The items of a pack format: a sign holds until the next number; other letters are passed over. *)
ItemsOf(fmt) ==
    FoldLeft(LAMBDA st, c :
                 CASE c \in {"+", "-"} -> [st EXCEPT !.signed = TRUE]
                   [] c \in DOMAIN PackTypes ->
                        [signed |-> FALSE, types |-> st.types \o <<PackTypes[c][IF st.signed THEN 2 ELSE 1]>>]
                   [] OTHER -> st,
             [signed |-> FALSE, types |-> <<>>], fmt).types

PackHeader == 1 + SizeOf("uint8")

(* whio_encode_pack_calc_size: 0 for an empty format or one with a letter it does not know. *)
CalcSize(fmt) ==
    IF fmt = <<>> \/ \E i \in 1 .. Len(fmt) : fmt[i] \notin {" ", "+", "-"} \cup DOMAIN PackTypes
    THEN 0
    ELSE FoldLeft(LAMBDA sum, t : sum + SizeOf(t), PackHeader, ItemsOf(fmt))

(* whio_encode_pack_v: the number of items goes in last, and only when the size is the one expected; else the bytes of the buffer stay. *)
Pack(fmt, vals, buffer) ==
    LET types == ItemsOf(fmt)
        body == FlattenSeq([i \in 1 .. Len(types) |-> Encode(types[i], vals[i])])
        count == IF CalcSize(fmt) = PackHeader + Len(body) THEN Encode("uint8", Len(types)) ELSE buffer
    IN  <<PackTag>> \o count \o body

(* whio_decode_pack_v: the tag, a count, then the items the format asks for. *)
ReadItems(fmt, bytes) ==
    LET types == ItemsOf(fmt)
        At(i) == FoldLeft(LAMBDA sum, t : sum + SizeOf(t), PackHeader + 1, SubSeq(types, 1, i - 1))
        Item(i) == Decode(types[i], From(bytes, At(i)))
        packed == Decode("uint8", From(bytes, 2))
    IN  IF \/ bytes[1] # PackTag
           \/ ~packed.ok \/ packed.val = 0
           \/ \E i \in 1 .. Len(types) : ~Item(i).ok
           \/ CalcSize(fmt) # At(Len(types) + 1) - 1
        THEN Failed
        ELSE Got([i \in 1 .. Len(types) |-> Item(i).val])

\* Mutant: the count of the pack is not compared with the format's.
UnpackAnyCount(fmt, bytes) == ReadItems(fmt, bytes)

Unpack(fmt, bytes) ==
    IF ReadItems(fmt, bytes).ok /\ Decode("uint8", From(bytes, 2)).val # Len(ItemsOf(fmt)) THEN Failed
    ELSE ReadItems(fmt, bytes)

-----------------------------------------------------------------------------
(* The records of a container and where they stand *)

IdType == "uint16"          \* WHEFS_ID_TYPE_BITS is 16

BlockRecord == [tag |-> 66, fields |-> <<IdType, "uint8", IdType>>]
InodeRecord == [tag |-> 73, fields |-> <<IdType, "uint8", "uint32", "uint32", IdType>>]
HintsRecord == [tag |-> 72, fields |-> <<IdType, IdType>>]
NameHeader == [tag |-> 34, fields |-> <<IdType, "uint16">>]
OptionsFields == <<"uint32", IdType, IdType, "uint16">>

SizeOfFields(types) == FoldLeft(LAMBDA sum, t : sum + SizeOf(t), 0, types)
SizeOfRecord(r) == 1 + SizeOfFields(r.fields)

EncodeFields(types, vals) == FlattenSeq([i \in 1 .. Len(types) |-> Encode(types[i], vals[i])])
EncodeRecord(r, vals) == <<r.tag>> \o EncodeFields(r.fields, vals)

DecodeFields(types, bytes) ==
    LET Field(i) == Decode(types[i], From(bytes, 1 + SizeOfFields(SubSeq(types, 1, i - 1))))
    IN  IF \A i \in 1 .. Len(types) : Field(i).ok
        THEN Got([i \in 1 .. Len(types) |-> Field(i).val])
        ELSE Failed

DecodeRecord(r, bytes) == IF bytes[1] # r.tag THEN Failed ELSE DecodeFields(r.fields, From(bytes, 2))

\* Mutant: the record of a name is counted without its id.
SizeOfNameNoId(opt) == SizeOfRecord(NameHeader) - SizeOf(IdType) + opt.filename_length

SizeOfName(opt) == SizeOfRecord(NameHeader) + opt.filename_length

\* whefs_sizeof_encoded_block counts 16 bits for the flags, whefs_block_flush writes 8: the last byte stays zero.
BlockHeader == 1 + SizeOf(IdType) + SizeOf("uint16") + SizeOf(IdType)
SizeOfBlock(opt) == opt.block_size + BlockHeader
EncodeBlock(vals) == EncodeRecord(BlockRecord, vals) \o <<0>>

Regions == <<"core_magic", "size", "client_magic", "options", "hints", "names", "inodes", "blocks">>

RegionSize(opt) ==
    [core_magic |-> Len(MagicWords) * SizeOf("uint32"),
     size |-> SizeOf("uint32"),
     client_magic |-> SizeOf("uint16") + Len(opt.magic),
     options |-> SizeOfFields(OptionsFields),
     hints |-> SizeOfRecord(HintsRecord),
     names |-> opt.inode_count * SizeOfName(opt),
     inodes |-> opt.inode_count * SizeOfRecord(InodeRecord),
     blocks |-> opt.block_count * SizeOfBlock(opt)]

(* fs->offsets: every region starts where the one before it ends. *)
Offset(opt, region) ==
    LET before == SelectInSeq(Regions, LAMBDA r : r = region) - 1
    IN  FoldLeft(LAMBDA sum, r : sum + RegionSize(opt)[r], 0, SubSeq(Regions, 1, before))

(* whefs_fs_calculate_size *)
ContainerSize(opt) ==
    Len(MagicWords) * SizeOf("uint32") + SizeOf("uint32") + SizeOf("uint16") + Len(opt.magic)
    + SizeOfFields(OptionsFields) + SizeOfRecord(HintsRecord)
    + SizeOfName(opt) * opt.inode_count
    + SizeOfRecord(InodeRecord) * opt.inode_count
    + SizeOfBlock(opt) * opt.block_count

BlockPos(opt, id) == Offset(opt, "blocks") + (id - 1) * SizeOfBlock(opt)
InodePos(opt, id) == Offset(opt, "inodes") + (id - 1) * SizeOfRecord(InodeRecord)
NamePos(opt, id) == Offset(opt, "names") + (id - 1) * SizeOfName(opt)

(* A name fills its record with zeros; a longer one is whefs_rc.RangeError and writes nothing. *)
EncodeName(opt, id, name) ==
    EncodeRecord(NameHeader, <<id, Len(name)>>) \o name
    \o [i \in 1 .. opt.filename_length - Len(name) |-> 0]

(* whefs_inode_name_get does not look at the id, and takes the name up to its zero, not by its length. *)
DecodeName(opt, bytes) ==
    LET header == SizeOfRecord(NameHeader)
        chars == SubSeq(bytes, header + 1, header + opt.filename_length)
        end == Min({i \in 1 .. Len(chars) : chars[i] = 0} \cup {Len(chars) + 1})
    IN  IF bytes[1] # NameHeader.tag \/ ~Decode("uint16", From(bytes, 2 + SizeOf(IdType))).ok
        THEN Failed
        ELSE Got(SubSeq(chars, 1, end - 1))

(* Seek and write, on a file at least that long. *)
Written(disk, pos, bytes) ==
    [i \in 1 .. Len(disk) |-> IF i > pos /\ i <= pos + Len(bytes) THEN bytes[i - pos] ELSE disk[i]]

WrittenAll(disk, writes) == FoldLeft(LAMBDA d, w : Written(d, w.pos, w.bytes), disk, writes)

At(pos, bytes) == [pos |-> pos, bytes |-> bytes]

(* whefs_mkfs_stage2: the file at its size, then each region in turn, each table one record after another. *)
MkfsImage(opt) ==
    LET Table(count, Write(_)) == [id \in 1 .. count |-> Write(id)]
    IN  WrittenAll([i \in 1 .. ContainerSize(opt) |-> 0],
          <<At(0, EncodeList(MagicWords) \o Encode("uint32", ContainerSize(opt))
                  \o Encode("uint16", Len(opt.magic)) \o opt.magic),
            At(Offset(opt, "options"),
               EncodeFields(OptionsFields, <<opt.block_size, opt.block_count, opt.inode_count, opt.filename_length>>)),
            At(Offset(opt, "hints"), EncodeRecord(HintsRecord, <<2, 1>>))>>
          \o Table(opt.inode_count, LAMBDA id : At(NamePos(opt, id), EncodeName(opt, id, <<>>)))
          \o Table(opt.inode_count, LAMBDA id : At(InodePos(opt, id),
                 EncodeRecord(InodeRecord, <<id, 0, 0, 0, 0>>)))
          \o Table(opt.block_count, LAMBDA id : At(BlockPos(opt, id), EncodeBlock(<<id, 0, 0>>)))
          \o <<At(Offset(opt, "size"), Encode("uint32", ContainerSize(opt)))>>)

(* whefs_openfs_stage2: the words, the size of the file, then the options the sizes and offsets are computed from. *)
ReadOptions(disk) ==
    LET words == DecodeList(disk, Len(MagicWords))
        afterWords == Len(MagicWords) * SizeOf("uint32")
        size == Decode("uint32", From(disk, afterWords + 1))
        afterSize == afterWords + SizeOf("uint32")
        magic == Decode("uint16", From(disk, afterSize + 1))
        start == afterSize + SizeOf("uint16") + magic.val
    IN  IF words # MagicWords \/ ~size.ok \/ size.val # Len(disk) \/ ~magic.ok THEN Failed
        ELSE DecodeFields(OptionsFields, From(disk, start + 1))

-----------------------------------------------------------------------------
(* The store *)

Keys(opt) ==
    {<<"hints", 1>>} \cup ({"name", "inode"} \X (1 .. opt.inode_count)) \cup ({"block"} \X (1 .. opt.block_count))

Position(opt, key) ==
    CASE key[1] = "hints" -> Offset(opt, "hints")
      [] key[1] = "name" -> NamePos(opt, key[2])
      [] key[1] = "inode" -> InodePos(opt, key[2])
      [] key[1] = "block" -> BlockPos(opt, key[2])

EncodeKey(opt, key, val) ==
    CASE key[1] = "hints" -> EncodeRecord(HintsRecord, val)
      [] key[1] = "name" -> EncodeName(opt, key[2], val)
      [] key[1] = "inode" -> EncodeRecord(InodeRecord, <<key[2]>> \o val)
      [] key[1] = "block" -> EncodeBlock(<<key[2]>> \o val)

(* What a reader gets: the fields of the record, its id among them. *)
DecodeKey(opt, disk, key) ==
    LET bytes == From(disk, Position(opt, key) + 1)
    IN  CASE key[1] = "hints" -> DecodeRecord(HintsRecord, bytes)
          [] key[1] = "name" -> DecodeName(opt, bytes)
          [] key[1] = "inode" -> DecodeRecord(InodeRecord, bytes)
          [] key[1] = "block" -> DecodeRecord(BlockRecord, bytes)

FreshValue(key) ==
    CASE key[1] = "hints" -> <<2, 1>>
      [] key[1] = "name" -> <<>>
      [] key[1] = "inode" -> <<0, 0, 0, 0>>
      [] key[1] = "block" -> <<0, 0>>

(* Values that reach the ends of each field. *)
Values(opt, key) ==
    CASE key[1] = "hints" -> {<<opt.inode_count + 1, opt.block_count + 1>>}
      [] key[1] = "name" -> {[i \in 1 .. n |-> i] : n \in {1, opt.filename_length}}
      [] key[1] = "inode" -> {<<1, Base^4 - 1, size, opt.block_count>> : size \in {0, Base^4 - 1}}
      [] key[1] = "block" -> {<<1, opt.block_count>>, <<0, 0>>}

NoStore == [opt |-> {}, disk |-> <<>>, told |-> <<>>, writes |-> 0]

(* whefs_mkfs: a container of one of the geometries, every record fresh. *)
Mkfs(opt) ==
    /\ store.disk = <<>>
    /\ store' = [opt |-> opt, disk |-> MkfsImage(opt), writes |-> 0,
                 told |-> [key \in Keys(opt) |-> Got(FreshValue(key))]]
    /\ UNCHANGED parcel

(* One record is rewritten with one write call. *)
WriteRecord(key, val) ==
    /\ store.writes < MaxWrites
    /\ store' = [store EXCEPT !.disk = Written(@, Position(store.opt, key), EncodeKey(store.opt, key, val)),
                             !.told[key] = Got(val), !.writes = @ + 1]
    /\ UNCHANGED parcel

(* A crash cuts the write short: only the first bytes reach the file. The container is used again afterwards. *)
TornWrite(key, val) ==
    LET bytes == EncodeKey(store.opt, key, val)
    IN  /\ store.writes < MaxWrites
        /\ \E kept \in 1 .. Len(bytes) - 1 :
              store' = [store EXCEPT !.disk = Written(@, Position(store.opt, key), SubSeq(bytes, 1, kept)),
                                    !.told[key] = Failed, !.writes = @ + 1]
        /\ UNCHANGED parcel

StoreNext ==
    \/ \E opt \in Geometries : Mkfs(opt)
    \/ \E key \in DOMAIN store.told : \E val \in Values(store.opt, key) :
          WriteRecord(key, val) \/ TornWrite(key, val)

-----------------------------------------------------------------------------
(* The parcel *)

NoParcel == [bytes |-> [i \in 1 .. Capacity |-> 0], sent |-> [kind |-> "nothing"], whole |-> FALSE, sends |-> 0]

(* The sender writes from position 0 over what was there; the call reports how many bytes were taken. *)
Send(sent, bytes, whole) ==
    /\ parcel.sends < MaxWrites
    /\ parcel' = [bytes |-> SubSeq(bytes \o From(parcel.bytes, Len(bytes) + 1), 1, Capacity),
                  sent |-> sent, whole |-> whole /\ Len(bytes) <= Capacity, sends |-> parcel.sends + 1]
    /\ UNCHANGED store

(* The values at the ends of a type. *)
Extremes(t) ==
    IF IsSigned(t) THEN {-(Base^Width(t) \div 2), -1, Base^Width(t) \div 2 - 1}
    ELSE {0, Base^Width(t) - 1}

SendInt(t, v) == Send([kind |-> "int", type |-> t, val |-> v], Encode(t, v), TRUE)
SendCString(s) == Send([kind |-> "cstring", val |-> s], EncodeCString(s), TRUE)
SendList(list) == Send([kind |-> "list", val |-> list], EncodeList(list), TRUE)

(* A pack is put together in the buffer itself; the caller learns from the size returned whether the format was good. *)
SendPack(fmt, vals) ==
    LET bytes == Pack(fmt, vals, SubSeq(parcel.bytes, 2, PackHeader))
    IN  Send([kind |-> "pack", types |-> ItemsOf(fmt), val |-> vals], bytes, CalcSize(fmt) = Len(bytes))

ParcelNext ==
    \/ \E t \in IntTypes : \E v \in Extremes(t) : SendInt(t, v)
    \/ \E n \in 0 .. Capacity \div 2 : SendCString([i \in 1 .. n |-> i % Base])
    \/ \E list \in SeqOf({0, Base^4 - 1}, 2) : SendList(list)
    \/ \E fmt \in PackFormats : LET types == ItemsOf(fmt)
                                IN  \E first \in BOOLEAN :
                                       SendPack(fmt, [i \in 1 .. Len(types) |->
                                                         IF first = (i = 1) THEN Base^Width(types[i]) \div 2 - 1
                                                         ELSE IF IsSigned(types[i]) THEN -1 ELSE 0])

-----------------------------------------------------------------------------
(***************************************************************************)
(* Every record of a container reads back as what was last written to it,  *)
(* whatever was written to the others and wherever a write of another was  *)
(* cut; the header gives back the geometry the offsets are computed from.  *)
(***************************************************************************)
RecordsApart ==
    store.disk # <<>> =>
        /\ ReadOptions(store.disk) =
              Got(<<store.opt.block_size, store.opt.block_count, store.opt.inode_count, store.opt.filename_length>>)
        /\ \A key \in DOMAIN store.told :
              store.told[key].ok =>
                  LET id == IF key[1] \in {"inode", "block"} THEN <<key[2]>> ELSE <<>>
                  IN  DecodeKey(store.opt, store.disk, key) = Got(id \o store.told[key].val)

\* int8 and uint8 share a tag: their decoders cannot tell them apart.
SameTags(types, others) ==
    /\ Len(types) = Len(others)
    /\ \A i \in 1 .. Len(types) : TagOf[types[i]] = TagOf[others[i]]

CastAll(types, vals) == [i \in 1 .. Len(types) |-> Cast(types[i], vals[i] % Base^Width(types[i]))]

(***************************************************************************)
(* A reader accepts a parcel exactly when it went out whole and was        *)
(* written by the matching writer, and then gets what was sent: bytes an   *)
(* earlier, longer parcel left behind are never taken for part of it.      *)
(* An int8 and a uint8 share a tag (line 261), so that the one is read as   *)
(* the other: SameTags lets it.                                            *)
(***************************************************************************)
ReceivedIsSent ==
    LET sent == parcel.sent
    IN  /\ sent.kind = "int" => \A t \in IntTypes :
              Decode(t, parcel.bytes) =
                  IF parcel.whole /\ SameTags(<<t>>, <<sent.type>>) THEN Got(CastAll(<<t>>, <<sent.val>>)[1]) ELSE Failed
        /\ sent.kind = "cstring" => DecodeCString(parcel.bytes) = IF parcel.whole THEN Got(sent.val) ELSE Failed
        /\ sent.kind = "list" =>
              parcel.whole <=> \A n \in 0 .. Len(sent.val) : DecodeList(parcel.bytes, n) = SubSeq(sent.val, 1, n)
        /\ sent.kind = "pack" /\ parcel.whole => \A fmt \in PackFormats :
              Unpack(fmt, parcel.bytes) =
                  IF CalcSize(fmt) > PackHeader /\ SameTags(ItemsOf(fmt), sent.types) THEN Got(CastAll(ItemsOf(fmt), sent.val))
                  ELSE Failed
=============================================================================
