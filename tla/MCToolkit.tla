----------------------------- MODULE MCToolkit -----------------------------
(***************************************************************************)
(* The small machines side by side: a container's bytes, the parcels of    *)
(* the encoders, glob patterns, printf, the open handles of a container and*)
(* the command line tools.  They share nothing, so a run of them picks a   *)
(* bench and works there; the others stay as they begin.                   *)
(***************************************************************************)
EXTENDS Encoding, Glob, Printf, Tools, Handles

VARIABLE bench

vars == <<bench, store, parcel, pattern, print, desk, handlesVars>>

Benches == {"store", "parcel", "glob", "print", "tools", "handles"}

Init ==
    /\ bench \in Benches
    /\ store = NoStore /\ parcel = NoParcel
    /\ GlobInit
    /\ PrintInit
    /\ ToolsInit
    /\ HandlesInit

Next ==
    /\ UNCHANGED bench
    /\ \/ bench = "store" /\ StoreNext /\ UNCHANGED <<pattern, print, desk, handlesVars>>
       \/ bench = "parcel" /\ ParcelNext /\ UNCHANGED <<pattern, print, desk, handlesVars>>
       \/ bench = "glob" /\ GlobNext /\ UNCHANGED <<store, parcel, print, desk, handlesVars>>
       \/ bench = "print" /\ PrintNext /\ UNCHANGED <<store, parcel, pattern, desk, handlesVars>>
       \/ bench = "tools" /\ ToolsNext /\ UNCHANGED <<store, parcel, pattern, print, handlesVars>>
       \/ bench = "handles" /\ HandlesNext /\ UNCHANGED <<store, parcel, pattern, print, desk>>

Spec == Init /\ [][Next]_vars

-----------------------------------------------------------------------------
(* Encoding *)

Opt(bs, bc, ic, fl, m) == [block_size |-> bs, block_count |-> bc, inode_count |-> ic, filename_length |-> fl, magic |-> m]
MCGeometries == {Opt(2, 2, 2, 2, <<1>>), Opt(1, 3, 1, 3, <<>>)}
MCMagic == <<1>>
MCPackFormats == {<<"1">>, <<"-", "1">>, <<"2">>, <<"+", "2">>, <<"2", " ", "2">>, <<"1", "2">>, <<"4">>, <<"2", "x">>, <<"x">>, <<"-">>, <<>>}

-----------------------------------------------------------------------------
(* Glob *)

MCPieces == {<<"*">>, <<"?">>, <<"[">>, <<"]">>, <<"\\">>, <<"%">>, <<"_">>, <<"a">>,
             <<"[", "a", "]">>, <<"[", "^", "a", "]">>, <<"[", "A", "-", "a", "]">>, <<"[", "^", "]", "A", "-", "]", "]">>, <<"[", "?", "-", "B", "-", "]">>}
MCSubjects == SeqOf({"a", "B", "]"}, 2) \cup {<<c>> : c \in {"A", "*", "[", "\\", "-"}} \cup {<<"a", "a", "A">>, <<"B", "a", "a">>}

-----------------------------------------------------------------------------
(* Printf *)

Phrase(fmt, args) == [fmt |-> fmt, args |-> args]
MCPhrases == {
    Phrase(<<"a", "b">>, <<>>),
    Phrase(<<"%">>, <<>>),
    Phrase(<<"%", "d">>, <<-12>>),
    Phrase(<<"%", "0", "+", "4", "i">>, <<3>>),
    Phrase(<<"%", "-", "3", "u">>, <<-1>>),
    Phrase(<<"%", "#", "o">>, <<9>>),
    Phrase(<<"%", "#", ".", "3", "l", "x">>, <<250>>),
    Phrase(<<"%", "2", "r">>, <<11>>),
    Phrase(<<"%", "0", "*", ".", "*", "d">>, <<999, -1, -7>>),
    Phrase(<<"%", "-", "*", "c">>, <<-3, "a">>),
    Phrase(<<"%", ".", "2", "c">>, <<"b">>),
    Phrase(<<"%", "4", "s">>, <<<<"a", "b">>>>),
    Phrase(<<"%", "s">>, <<<<>>>>),
    Phrase(<<"%", "h">>, <<<<"a", "<", "b">>>>),
    Phrase(<<"%", "t">>, <<<<"+", "a">>>>),
    Phrase(<<"%", "T">>, <<<<"a", "+", "%", "2", "B">>>>),
    Phrase(<<"%", "5", "n">>, <<0>>),
    Phrase(<<"%", "5", "%">>, <<>>),
    Phrase(<<"%", "Q">>, <<<<"'", "a">>>>) }

-----------------------------------------------------------------------------
(* Tools *)

MCNumbers == ("0" :> 0) @@ ("1" :> 1) @@ ("2" :> 2) @@ ("3" :> 3) @@ ("6" :> 6) @@ ("9" :> 9) @@ ("12" :> 12)
Fs == <<"fs">>
A == <<"a", "a">>
B == <<"a", "b">>
L == <<"b", "a", "b">>
Line(tool, args) == [tool |-> tool, args |-> args]
MCLines == {
    Line("cp", <<Fs, A, B>>), Line("cp", <<<<"-", "x", "=", "1">>, Fs, A, B, A>>), Line("cp", <<Fs, <<"-", "x">>, B, L>>),
    Line("cp", <<<<"-", "i", "=", "n">>, Fs, L>>), Line("cp", <<Fs, L, A>>), Line("cp", <<Fs>>), Line("cp", <<<<"-", "-", "help">>>>),
    Line("cp", <<>>),
    Line("rm", <<Fs, <<"*">>>>), Line("rm", <<Fs, <<"-", "m">>, A, <<"?", "b">>>>), Line("rm", <<<<"-", "n">>, Fs, <<"a", "?">>, L>>),
    Line("rm", <<Fs, <<>>, A>>), Line("rm", <<Fs, B, B>>), Line("rm", <<A>>), Line("rm", <<<<"-">>, Fs>>),
    Line("mkfs", <<<<"-", "c", "9">>, Fs>>), Line("mkfs", <<Fs, <<"-", "i", "1">>>>), Line("mkfs", <<<<"-", "c">>, Fs>>),
    Line("mkfs", <<<<"-", "s", "q">>>>), Line("mkfs", <<<<"-", "n">>, Fs, <<"-", "b", "=", "0">>>>), Line("mkfs", <<<<"-", "i", "2">>, <<"-", "-", "verbose">>>>),
    Line("mkfs", <<Fs, <<"-", "s", "=", "12">>>>), Line("mkfs", <<Fs, <<"-", "c", "12">>, <<"-", "i", "3">>>>),
    Line("addblocks", <<<<"-", "a", "1">>, Fs>>), Line("addblocks", <<<<"-", "a", "3">>, Fs>>), Line("addblocks", <<Fs>>),
    Line("addblocks", <<<<"-", "-", "V">>>>), Line("addblocks", <<<<"-", "-">>>>), Line("addblocks", <<<<"-", "v">>>>),
    Line("cat", <<Fs, A, B>>), Line("cat", <<Fs>>), Line("cat", <<Fs, L>>),
    Line("ls", <<Fs>>), Line("ls", <<<<"-", "1">>, Fs, <<"a", "*">>>>), Line("ls", <<Fs, <<"-", "b">>, <<"-", "i">>>>),
    Line("ls", <<<<"-", "-", "dump-core-magic">>>>), Line("ls", <<<<"-", "?">>, Fs>>) }
MCInode(name, data) == [used |-> TRUE, name |-> name, data |-> data]
MCLocal == (A :> <<"p", "q", "p">>) @@ (B :> <<>>) @@ (L :> <<"q">>)
MCWorlds == {
    [container |-> [state |-> "good", blocks |-> 6, length |-> 2, inodes |-> <<MCInode(A, <<"q">>), FreeInode>>], local |-> MCLocal],
    [container |-> [state |-> "good", blocks |-> 6, length |-> 3, inodes |-> <<FreeInode, MCInode(B, <<"p", "p">>), MCInode(A, <<"q", "q", "q", "p">>)>>], local |-> MCLocal],
    [container |-> NoContainer, local |-> MCLocal] }
=============================================================================
