------------------------------- MODULE Tools -------------------------------
(***************************************************************************)
(* The command line tools (app/): cp, rm, mkfs, addblocks, cat and ls, run *)
(* one after the other on one container and on local files.  whargv.c and  *)
(* WHEFSApp.c read the arguments, the first word being the container; then *)
(* the tool works, file by file and chunk by chunk; atexit() closes the    *)
(* container.  A tool may be killed between any two steps, a device may    *)
(* refuse bytes or lose what it buffered.                                  *)
(*                                                                         *)
(* An argument is a sequence of characters and words; a file holds units   *)
(* of a block each, "?" being one of which the code leaves open what it    *)
(* holds.  Blocks are not counted: growing may fail.  A name of the model  *)
(* has two characters or more (whefs_string.c, line 49, leaves the copy of *)
(* a shorter one without its end).                                         *)
(***************************************************************************)
EXTENDS Integers, SequencesExt

CONSTANTS
    Matches(_, _),  \* whether a pattern matches a name: GlobMatches
    CommandLines,   \* [tool, args]
    Worlds,         \* [container, local]: what the tools start from
    MaxRuns,        \* bound: tools run
    NumberOf,       \* the words that are numbers
    IdSize,         \* values of a whefs_id_type, and of an uint16_t
    MinBlock,       \* the smallest block size
    MaxLength,      \* WHEFS_MAX_FILENAME_LENGTH
    BufferLength    \* units read and written at once

VARIABLE desk
(* container: [state, blocks, length, inodes]; local: the local files; was: both when the tool started; runs; job *)

After(s, n) == SubSeq(s, n + 1, Len(s))

-----------------------------------------------------------------------------
(* whargv_global_parse *)

(* An entry is a word or a flag with a value, <<>> being none. A dash alone is a flag without a name. *)
Word(arg) == [word |-> TRUE, key |-> "", val |-> arg]
Flag(key, rest) ==
    [word |-> FALSE, key |-> key, val |-> IF rest # <<>> /\ rest[1] = "=" THEN Tail(rest) ELSE rest]

Entry(arg) ==
    CASE arg[1] # "-" -> Word(arg)
      [] arg \in {<<"-">>, <<"-", "-">>} -> Flag("", <<>>)
      [] Len(arg) > 2 /\ arg[2] = "-" -> Flag(arg[3], After(arg, 3))
      [] OTHER -> Flag(arg[2], After(arg, 2))

(* An empty argument ends the command line: what follows it is not looked at. *)
Entries(args) ==
    LET n == Min({i \in 1 .. Len(args) : args[i] = <<>>} \cup {Len(args) + 1}) - 1
    IN  [i \in 1 .. n |-> Entry(args[i])]

-----------------------------------------------------------------------------
(* ArgSpec *)

Arg(type, target) == [type |-> type, target |-> target]

HelpKeys == {"?", "help", "V", "version"}
SharedKeys == {"v", "verbose", "D", "debug-flags"}

(* What each tool does with its own flags; those of ls add a command. *)
ArgSpecs ==
    [cp |-> ("i" :> Arg("invert", "export")) @@ ("x" :> Arg("bool", "export")),
     rm |-> ("n" :> Arg("bool", "dry")) @@ ("m" :> Arg("bool", "missing")),
     mkfs |-> ("n" :> Arg("bool", "dry")) @@ ("i" :> Arg("id", "inodes")) @@ ("c" :> Arg("id", "blocks"))
              @@ ("b" :> Arg("uint32", "size")) @@ ("s" :> Arg("id", "length")),
     addblocks |-> ("a" :> Arg("id", "count")),
     cat |-> <<>>,
     ls |-> ("1" :> Arg("command", "inodes")) @@ ("i" :> Arg("command", "inodes"))
            @@ ("b" :> Arg("command", "blocks")) @@ ("dump-core-magic" :> Arg("magic", "magic"))]

Defaults == [export |-> FALSE, dry |-> FALSE, missing |-> FALSE,
             inodes |-> 3, blocks |-> 6, size |-> MinBlock, length |-> 2, count |-> 0]

Opens(tool) == tool \notin {"cp", "mkfs"}      \* WHEFSApp_NoOpen

ValToBool(val) == val = <<>> \/ val[1] \in {"t", "T", "1", "y", "Y"}

(* A number keeps the width of its target. *)
Narrowed(arg, val) == NumberOf[val[1]] % IF arg.type = "id" THEN IdSize ELSE IdSize * IdSize

IsNumeric(arg) == arg.type \in {"id", "uint32"}

(* ArgSpec_convert: an error, or the target's new value. *)
ConvertError(arg, val) ==
    CASE IsNumeric(arg) /\ val = <<>> -> "ArgError"
      [] IsNumeric(arg) /\ val # <<>> /\ val[1] \notin DOMAIN NumberOf -> "RangeError"
      [] OTHER -> "OK"

Converted(arg, val) ==
    CASE arg.type = "bool" -> ValToBool(val)
      [] arg.type = "invert" -> ~ValToBool(val)
      [] OTHER -> Narrowed(arg, val)

-----------------------------------------------------------------------------
(* The container and the local files *)

FreeInode == [used |-> FALSE, name |-> <<>>, data |-> <<>>]
NoContainer == [state |-> "none", blocks |-> 0, length |-> 0, inodes |-> <<>>]
Fresh(opts) == [state |-> "good", blocks |-> opts.blocks, length |-> opts.length,
                inodes |-> [i \in 1 .. opts.inodes - 1 |-> FreeInode]]     \* the first is the root's

UsedInodes(c) == {i \in DOMAIN c.inodes : c.inodes[i].used}
FileNames(c) == {c.inodes[i].name : i \in UsedInodes(c)} \ {<<>>}
InodeOf(c, name) == Min({i \in UsedInodes(c) : c.inodes[i].name = name})
Files(c) == [name \in FileNames(c) |-> c.inodes[InodeOf(c, name)].data]

With(files, name, data) == (name :> data) @@ files

container == desk.container
local == desk.local
job == desk.job

(* whefs_ls: names of used inodes that match, in the order of the inodes. An inode without a name has the empty one. *)
Ls(pat) ==
    LET hit == SelectSeq([i \in DOMAIN container.inodes |-> i],
                         LAMBDA i : /\ container.inodes[i].used
                                    /\ Matches(pat, container.inodes[i].name))
    IN  [k \in DOMAIN hit |-> container.inodes[hit[k]].name]

NoTool == [at |-> "idle", tool |-> "", todo |-> <<>>, named |-> FALSE, fe |-> <<>>, opts |-> Defaults,
           commands |-> <<>>, did |-> FALSE, rc |-> "OK", help |-> FALSE, began |-> FALSE, done |-> 0,
           names |-> <<>>, left |-> <<>>, existed |-> FALSE, out |-> <<>>, unseen |-> {}]

ToolsInit == desk = [container |-> NoContainer, local |-> <<>>, was |-> <<>>, runs |-> 0, job |-> NoTool]

Job(j) == desk' = [desk EXCEPT !.job = j]
JobAndContainer(j, c) == desk' = [desk EXCEPT !.job = j, !.container = c]
JobAndLocal(j, l) == desk' = [desk EXCEPT !.job = j, !.local = l]

(* The program returns from main; atexit() closes the container, which changes no file. *)
Ended(rc) == [job EXCEPT !.at = "ended", !.rc = rc]

Arrange(world) ==
    /\ desk.runs = 0 /\ job.at = "idle" /\ container = NoContainer /\ local = <<>>
    /\ desk' = [desk EXCEPT !.container = world.container, !.local = world.local]

Run(line) ==
    /\ job.at \in {"idle", "ended", "killed"} /\ desk.runs < MaxRuns
    /\ local # <<>>
    /\ desk' = [desk EXCEPT !.runs = @ + 1, !.was = [container |-> container, local |-> local],
                            !.job = [NoTool EXCEPT !.at = "args", !.tool = line.tool, !.todo = Entries(line.args),
                                                   !.help = line.args = <<>>]]

-----------------------------------------------------------------------------
(* WHEFSApp_init *)

Now == Head(job.todo)
Reading == job.at = "args" /\ job.todo # <<>> /\ ~job.help
Read == [job EXCEPT !.todo = Tail(@)]

TakeHelp ==
    /\ Reading /\ ~Now.word /\ Now.key \in HelpKeys
    /\ Job([Ended("OK") EXCEPT !.help = TRUE])

(* The first word names the container, opened at once unless the tool opens it later. *)
TakeContainer ==
    /\ Reading /\ Now.word /\ ~job.named
    /\ Job(IF Opens(job.tool) /\ container.state # "good" THEN Ended("OpenFailed") ELSE [Read EXCEPT !.named = TRUE])

TakeName ==
    /\ Reading /\ Now.word /\ job.named
    /\ Job([Read EXCEPT !.fe = Append(@, Now.val)])

TakeFlag ==
    LET spec == ArgSpecs[job.tool]
        arg == spec[Now.key]
    IN  /\ Reading /\ ~Now.word /\ Now.key \notin HelpKeys
        /\ Job(CASE Now.key \in SharedKeys -> Read
                 [] Now.key \notin SharedKeys /\ Now.key \notin DOMAIN spec -> Ended("ArgError")
                 [] Now.key \notin SharedKeys /\ Now.key \in DOMAIN spec ->
                      CASE ConvertError(arg, Now.val) # "OK" -> Ended(ConvertError(arg, Now.val))
                        [] arg.type = "command" -> [Read EXCEPT !.commands = Append(@, arg.target), !.did = TRUE]
                        [] arg.type = "magic" -> [Read EXCEPT !.out = Append(@, <<"magic">>)]
                        [] OTHER -> [Read EXCEPT !.opts[arg.target] = Converted(arg, Now.val)])

(* No argument at all shows the help, as an error. *)
ArgsRead ==
    /\ job.at = "args" /\ (job.todo = <<>> \/ job.help)
    /\ Job(IF job.help \/ (Opens(job.tool) /\ ~job.named) THEN Ended("ArgError")
           ELSE [job EXCEPT !.at = "main", !.began = TRUE])

-----------------------------------------------------------------------------
(* main: what each tool checks before it works *)

AtMain(tool) == job.at = "main" /\ job.tool = tool
Loop == [job EXCEPT !.at = "next"]

MainCp ==
    /\ AtMain("cp")
    /\ Job(IF job.fe = <<>> THEN Ended("ArgError") ELSE IF container.state # "good" THEN Ended("OpenFailed") ELSE Loop)

MainCat == AtMain("cat") /\ Job(IF job.fe = <<>> THEN Ended("ArgError") ELSE Loop)

MainRm == AtMain("rm") /\ Job(Loop)

(* The default list comes first, then the commands in the order of their flags. *)
MainLs ==
    /\ AtMain("ls")
    /\ Job([Loop EXCEPT !.commands = IF job.did THEN @ ELSE <<"inodes">>])

AtNext(tool) == job.at = "next" /\ job.tool = tool
Current == job.fe[job.done + 1]
Following == [job EXCEPT !.at = "next", !.done = @ + 1]

LastDone ==
    /\ job.at = "next" /\ job.tool \in {"cp", "rm", "cat", "ls"}
    /\ IF job.tool = "ls" THEN job.commands = <<>> ELSE job.done = Len(job.fe)
    /\ Job(Ended("OK"))

-----------------------------------------------------------------------------
(* cp_import: whefs_import_dev, overwriting *)

Importing == AtNext("cp") /\ ~job.opts.export /\ job.done < Len(job.fe)
Exporting == AtNext("cp") /\ job.opts.export /\ job.done < Len(job.fe)

ImportNoSource ==
    /\ Importing /\ Current \notin DOMAIN local
    /\ Job(Ended("OpenFailed"))

(* The file's inode, or a new one. A name that does not fit leaves the new inode without one. *)
ImportOpen ==
    LET existed == Current \in FileNames(container)
        free == DOMAIN container.inodes \ UsedInodes(container)
        fits == Len(Current) <= container.length
        started == [job EXCEPT !.at = "importing", !.existed = existed, !.left = local[Current]]
    IN  /\ Importing /\ Current \in DOMAIN local
        /\ IF existed THEN Job(started)
           ELSE IF free = {} THEN Job(Ended("RangeError"))
           ELSE JobAndContainer(IF fits THEN started ELSE Ended("RangeError"),
                    [container EXCEPT !.inodes[Min(free)] =
                        [used |-> TRUE, name |-> IF fits THEN Current ELSE <<>>, data |-> <<>>]])

ImportInode == InodeOf(container, Current)
OldData == container.inodes[ImportInode].data
SetData(data) == [container EXCEPT !.inodes[ImportInode].data = data]
Removed == [container EXCEPT !.inodes[ImportInode] = FreeInode]

(* imp->truncate(newFSize): what is beyond the old end is open; an empty source ends here. *)
ImportResize ==
    LET n == Len(local[Current])
        resized == SubSeq(OldData, 1, Min({n, Len(OldData)})) \o [i \in 1 .. n - Min({n, Len(OldData)}) |-> "?"]
    IN  /\ job.at = "importing"
        /\ JobAndContainer(IF n = 0 THEN Following
                           ELSE [job EXCEPT !.at = "copying", !.names = IF n < Len(OldData) THEN <<"shrunk">> ELSE <<>>],
                           SetData(resized))

(* It could not grow: back to the old size, where the last block may have been wiped; a new file is unlinked. *)
ImportTooLarge ==
    LET back == SubSeq(OldData, 1, Len(OldData) - 1) \o <<"?">>
    IN  /\ job.at = "importing" /\ Len(local[Current]) > Len(OldData)
        /\ \E data \in {OldData} \cup IF OldData = <<>> THEN {} ELSE {back} :
              JobAndContainer(Ended("WHEFS_ERR"), IF job.existed THEN SetData(data) ELSE Removed)

(* One round of the copy. The source may give less than it should, and then the loop ends as if it were at its end. *)
ImportChunk ==
    LET size == Len(OldData)
        at == size - Len(job.left)
    IN  /\ job.at = "copying" /\ ~job.opts.export
        /\ \E n \in 0 .. Min({BufferLength, Len(job.left)}) :
              LET written == SubSeq(OldData, 1, at) \o SubSeq(job.left, 1, n) \o SubSeq(OldData, at + n + 1, size)
                  more == After(job.left, n)
              IN  \/ /\ n = Min({BufferLength, Len(job.left)})
                     /\ JobAndContainer(IF more = <<>> THEN Following ELSE [job EXCEPT !.left = more], SetData(written))
                  \/ /\ n < Min({BufferLength, Len(job.left)})      \* the source ends early
                     /\ JobAndContainer([Following EXCEPT !.unseen = @ \cup {Current}], SetData(written))
                  \/ /\ n < Min({BufferLength, Len(job.left)})      \* the list of blocks was cut: a full container
                     /\ job.names = <<"shrunk">>
                     /\ JobAndContainer(Ended("IOError"), SetData(written))

-----------------------------------------------------------------------------
(* cp_export *)

\* Mutant: the local file is opened, and so emptied, before the pseudofile.
ExportOpenLocalFirst ==
    LET found == Current \in FileNames(container)
    IN  /\ Exporting
        /\ JobAndLocal(IF found THEN [job EXCEPT !.at = "copying", !.left = Files(container)[Current]] ELSE Ended("OpenFailed"),
                       With(local, Current, <<>>))

(* The pseudofile, then the local file, which is emptied. *)
ExportOpen ==
    LET found == Current \in FileNames(container)
    IN  /\ Exporting
        /\ IF ~found THEN Job(Ended("OpenFailed"))
           ELSE JobAndLocal([job EXCEPT !.at = "copying", !.left = Files(container)[Current]], With(local, Current, <<>>))

ExportNoLocal ==
    /\ Exporting /\ Current \in FileNames(container)
    /\ Job(Ended("OpenFailed"))

(* One round of the copy. A local file that takes less is an error at once; a pseudofile that gives less than its *)
(* size says ends the loop, and is one when what was copied is compared with that size.                          *)
ExportChunk ==
    LET n == Min({BufferLength, Len(job.left)})
    IN  /\ job.at = "copying" /\ job.opts.export /\ job.left # <<>>
        /\ \E given \in 0 .. n : \E taken \in 0 .. given :
              JobAndLocal(IF taken < given \/ given < n THEN Ended("IOError") ELSE [job EXCEPT !.left = After(@, n)],
                          With(local, Current, local[Current] \o SubSeq(job.left, 1, taken)))

(* dest->finalize: what the device had buffered may be refused now, and nobody looks. *)
ExportClose ==
    /\ job.at = "copying" /\ job.opts.export /\ job.left = <<>>
    /\ \E kept \in 0 .. Len(local[Current]) :
          JobAndLocal(IF kept < Len(local[Current]) THEN [Following EXCEPT !.unseen = @ \cup {Current}] ELSE Following,
                      With(local, Current, SubSeq(local[Current], 1, kept)))

-----------------------------------------------------------------------------
(* rm_doit *)

RmList ==
    LET found == Ls(Current)
    IN  /\ AtNext("rm") /\ job.done < Len(job.fe)
        /\ Job(CASE found # <<>> -> [job EXCEPT !.at = "removing", !.names = found]
                 [] found = <<>> /\ job.opts.missing -> Following
                 [] OTHER -> Ended("RangeError"))

Unlinked(name) == [container EXCEPT !.inodes[InodeOf(container, name)] = FreeInode]
Wiped(name) == [container EXCEPT !.inodes[InodeOf(container, name)].data = [i \in DOMAIN @ |-> "?"]]

(* whefs_unlink_filename: the empty name is an ArgError; a failure may come after the blocks are wiped. *)
RmOne ==
    LET name == Head(job.names)
        next == IF Len(job.names) = 1 THEN Following ELSE [job EXCEPT !.names = Tail(@)]
    IN  /\ job.at = "removing"
        /\ IF job.opts.dry THEN Job(next)
           ELSE IF name = <<>> THEN Job(Ended("ArgError"))
           ELSE \/ JobAndContainer(next, Unlinked(name))
                \/ \E c \in {container, Wiped(name)} : JobAndContainer(Ended("IOError"), c)

-----------------------------------------------------------------------------
(* mkfs and addblocks *)

(* Without the name of a container strcmp() is given a null pointer. *)
MainMkfs ==
    LET opts == job.opts
    IN  /\ AtMain("mkfs")
        /\ Job(CASE opts.dry -> Ended("OK")
                 [] ~opts.dry /\ opts.blocks < opts.inodes -> Ended("RangeError")
                 [] ~opts.dry /\ opts.blocks >= opts.inodes /\ opts.length > MaxLength -> Ended("RangeError")
                 [] OTHER -> IF job.named THEN Loop ELSE [job EXCEPT !.at = "killed"])

(* The file is opened for writing, and so emptied, before whefs_mkfs_dev looks at the options. *)
MkfsOpen ==
    /\ AtNext("mkfs")
    /\ \/ JobAndContainer([job EXCEPT !.at = "making"], [NoContainer EXCEPT !.state = "broken"])
       \/ Job(Ended("AccessError"))

(* Nobody looks whether the magic and the options were written. *)
MkfsMake ==
    LET opts == job.opts
        good == opts.inodes >= 2 /\ opts.size >= MinBlock /\ opts.length > 0
    IN  /\ job.at = "making"
        /\ \/ good /\ JobAndContainer(Ended("OK"), Fresh(opts))
           \/ good /\ JobAndContainer([Ended("OK") EXCEPT !.unseen = {"records"}], container)
           \/ JobAndContainer(Ended(IF good THEN "IOError" ELSE "RangeError"), NoContainer)

MainAddblocks ==
    LET total == (container.blocks + job.opts.count) % IdSize
    IN  /\ AtMain("addblocks")
        /\ Job(CASE job.opts.count = 0 -> Ended("ArgError")
                 [] job.opts.count > 0 /\ total < container.blocks -> Ended("RangeError")
                 [] OTHER -> Loop)

(* whefs_fs_append_blocks: the file grows and cannot be opened until size and options say so; then the blocks are wiped. *)
AppendFile ==
    /\ AtNext("addblocks")
    /\ \/ JobAndContainer([job EXCEPT !.at = "appending"], [container EXCEPT !.state = "broken"])
       \/ Job(Ended("IOError"))

(* Nobody looks whether the size and the options were written; an error is one of wiping the blocks. *)
AppendRecords ==
    /\ job.at = "appending"
    /\ \E size, options, wiped \in BOOLEAN :
          JobAndContainer([Ended(IF wiped THEN "OK" ELSE "IOError") EXCEPT
                              !.unseen = IF size /\ options THEN {} ELSE {"records"}],
                          [container EXCEPT !.state = IF size THEN "good" ELSE "broken",
                                            !.blocks = IF options THEN @ + job.opts.count ELSE @])

-----------------------------------------------------------------------------
(* cat and ls *)

CatOpen ==
    /\ AtNext("cat") /\ job.done < Len(job.fe)
    /\ Job(IF Current \in FileNames(container) THEN [job EXCEPT !.at = "catting", !.left = Files(container)[Current]]
           ELSE Ended("IOError"))

(* whio_stream_copy to the standard output; its answer is not looked at. *)
CatChunk ==
    LET n == Min({BufferLength, Len(job.left)})
        Out(taken) == [job EXCEPT !.out = @ \o SubSeq(job.left, 1, taken), !.left = After(@, n)]
    IN  /\ job.at = "catting"
        /\ \E taken \in 0 .. n :
              Job(CASE taken < n -> [Out(taken) EXCEPT !.at = "next", !.done = @ + 1, !.unseen = @ \cup {Current}]
                    [] taken = n /\ n = BufferLength -> Out(n)
                    [] OTHER -> [Out(n) EXCEPT !.at = "next", !.done = @ + 1])

(* ls_dump_inodes and ls_dump_blocks: the files that match one of the names, if there are any; those with blocks only. *)
LsCommand ==
    LET command == Head(job.commands)
        Shown(i) == /\ container.inodes[i].used /\ container.inodes[i].name # <<>>
                    /\ job.fe = <<>> \/ \E k \in DOMAIN job.fe : Matches(job.fe[k], container.inodes[i].name)
                    /\ command = "blocks" => container.inodes[i].data # <<>>
        shown == SelectSeq([i \in DOMAIN container.inodes |-> i], Shown)
    IN  /\ AtNext("ls") /\ job.commands # <<>>
        /\ Job([job EXCEPT !.commands = Tail(@), !.out = @ \o [k \in DOMAIN shown |-> container.inodes[shown[k]].name]])

-----------------------------------------------------------------------------
(* The process dies; of what an export wrote only a part may have left its buffer. *)
Kill ==
    /\ job.at \notin {"idle", "ended", "killed"}
    /\ IF job.at = "copying" /\ job.opts.export
       THEN \E kept \in 0 .. Len(local[Current]) :
               JobAndLocal([job EXCEPT !.at = "killed"], With(local, Current, SubSeq(local[Current], 1, kept)))
       ELSE Job([job EXCEPT !.at = "killed"])

ToolsNext ==
    \/ \E world \in Worlds : Arrange(world)
    \/ \E line \in CommandLines : Run(line)
    \/ TakeHelp \/ TakeContainer \/ TakeName \/ TakeFlag \/ ArgsRead
    \/ MainCp \/ MainCat \/ MainRm \/ MainLs \/ MainMkfs \/ MainAddblocks \/ LastDone
    \/ ImportNoSource \/ ImportOpen \/ ImportResize \/ ImportTooLarge \/ ImportChunk
    \/ ExportOpen \/ ExportNoLocal \/ ExportChunk \/ ExportClose
    \/ RmList \/ RmOne
    \/ MkfsOpen \/ MkfsMake \/ AppendFile \/ AppendRecords
    \/ CatOpen \/ CatChunk \/ LsCommand
    \/ Kill

-----------------------------------------------------------------------------
Over == job.at \in {"ended", "killed"}
Succeeded == job.at = "ended" /\ job.rc = "OK" /\ ~job.help
Before == Files(desk.was.container)

(* cp: source and destination of the copies. *)
CpHonest ==
    LET source == IF job.opts.export THEN Files(container) ELSE local
        source0 == IF job.opts.export THEN Before ELSE desk.was.local
        dest == IF job.opts.export THEN local ELSE Files(container)
        dest0 == IF job.opts.export THEN desk.was.local ELSE Before
        copied == {job.fe[i] : i \in 1 .. job.done}
        failing == IF job.began /\ job.done < Len(job.fe) THEN {Current} ELSE {}
        Kept(name) == (name \in DOMAIN dest <=> name \in DOMAIN dest0) /\ (name \in DOMAIN dest0 => dest[name] = dest0[name])
    IN  /\ source = source0
        /\ Succeeded => copied = Range(job.fe) /\ copied # {}
        /\ \A name \in copied \ failing : name \in DOMAIN dest /\ (name \notin job.unseen => dest[name] = source[name])
        /\ \A name \in (DOMAIN dest \cup DOMAIN dest0) \ (copied \cup failing) : Kept(name)
        /\ \A name \in failing \ copied :
              /\ name \in DOMAIN dest0 => name \in DOMAIN dest
              /\ name \notin DOMAIN source => Kept(name)
              /\ job.at = "ended" /\ ~job.opts.export /\ name \in DOMAIN dest => name \in DOMAIN dest0

RmHonest ==
    LET files == Files(container)
        Chosen(name) == \E i \in DOMAIN job.fe : Matches(job.fe[i], name)
    IN  /\ local = desk.was.local
        /\ DOMAIN files \subseteq DOMAIN Before
        /\ \A name \in DOMAIN Before : ~Chosen(name) => name \in DOMAIN files /\ files[name] = Before[name]
        /\ Succeeded =>
              /\ job.opts.dry \/ \A name \in DOMAIN files : ~Chosen(name)
              /\ job.opts.missing \/ \A i \in DOMAIN job.fe : \E name \in DOMAIN Before \cup {<<>>} : Matches(job.fe[i], name)

MkfsHonest ==
    /\ local = desk.was.local
    /\ Succeeded /\ ~job.opts.dry /\ job.unseen = {} => container = Fresh(job.opts) /\ container.blocks < IdSize
    /\ ~Succeeded => container = desk.was.container \/ container.state # "good"

AddblocksHonest ==
    LET was == desk.was.container
    IN  /\ local = desk.was.local
        /\ container.inodes = was.inodes
        /\ container.blocks \in {was.blocks, was.blocks + job.opts.count} /\ container.blocks < IdSize
        /\ job.unseen = {} /\ job.at = "ended" => container.state = "good" \/ container.blocks = was.blocks
        /\ job.unseen = {} /\ Succeeded => container.state = "good" /\ container.blocks > was.blocks

CatHonest ==
    LET Text(n) == FlattenSeq([i \in 1 .. n |-> Before[job.fe[i]]])
    IN  /\ job.at = "ended" /\ job.unseen = {} => job.out = Text(job.done)
        /\ Succeeded => Range(job.fe) \subseteq DOMAIN Before
        /\ job.at = "ended" /\ job.done < Len(job.fe) /\ job.began => Current \notin DOMAIN Before

(***************************************************************************)
(* What a tool reports is what it did.  After success cp has copied every  *)
(* file it was given, rm has removed exactly the files that match, mkfs    *)
(* has left an empty container of the options given, addblocks the same    *)
(* files in a larger one, cat has printed every file; whenever a tool ends *)
(* or dies, files it was not asked to touch are as they were, the ones it  *)
(* had finished are whole, and a file cp could not copy has not come into  *)
(* being; help, dry runs, cat and ls change nothing.  Losses the code does *)
(* not look at are left out (unseen): a source that ends early, bytes      *)
(* refused when a local file is closed or by the standard output, and the  *)
(* records mkfs and addblocks write without a look at the result.          *)
(***************************************************************************)
ToolsHonest ==
    Over =>
        /\ job.help \/ job.opts.dry \/ ~job.began \/ job.tool \in {"cat", "ls"} =>
              container = desk.was.container /\ local = desk.was.local
        /\ job.tool = "cp" => CpHonest
        /\ job.tool = "rm" => RmHonest
        /\ job.tool = "mkfs" => MkfsHonest
        /\ job.tool = "addblocks" => AddblocksHonest
        /\ job.tool = "cat" => CatHonest
=============================================================================
