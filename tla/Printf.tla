------------------------------- MODULE Printf -------------------------------
(***************************************************************************)
(* The printf of the library (whprintf.c): whprintfv hands the text piece  *)
(* by piece to an appender.  That of a stream or of a device may take less *)
(* than it is given and says how much; that of a device calls an empty     *)
(* piece an error; that of whprintf_str takes a piece whole or, when       *)
(* memory runs out, answers -1.                                            *)
(*                                                                         *)
(* A format is a sequence of one-character strings, an argument a number   *)
(* or such a sequence.  An int holds IntSize values.  The build is the one  *)
(* the makefiles make: WHPRINTF_OMIT_SQL is 1 (line 60), so %q, %Q and %w   *)
(* are no conversions.  Floating point conversions are left out: no phrase  *)
(* has one.                                                                *)
(***************************************************************************)
EXTENDS Integers, SequencesExt

CONSTANTS
    Phrases,    \* [fmt, args]: what formats are put together from
    MaxPhrases, \* bound: phrases of a format
    IntSize,    \* values of an int (2^32)
    Rooms       \* how many characters a sink has room for

VARIABLE print
(* fmt, args: what is left to print; said: number of phrases; sink, room; text: what was handed to the appender; *)
(* out: what it took; count: outCount; sum: pfrc; refused: an appender failed; piecemeal: a string went out     *)
(* character by character; fields: the conversions and arguments of the numbers printed; at: where whprintfv is. *)

BufSize == 350      \* WHPRINTF_BUF_SIZE

Spaces(n) == [i \in 1 .. n |-> " "]
Zeros(n) == [i \in 1 .. n |-> "0"]
Drop(s, n) == SubSeq(s, n + 1, Len(s))

(* The length of the longest prefix of s over S. *)
Span(s, S) == Min({i \in 1 .. Len(s) : s[i] \notin S} \cup {Len(s) + 1}) - 1

DigitChars == <<"0", "1", "2", "3", "4", "5", "6", "7", "8", "9">>
HexChars == DigitChars \o <<"A", "B", "C", "D", "E", "F">>
LowHexChars == DigitChars \o <<"a", "b", "c", "d", "e", "f">>
DigitValue(set, c) == SelectInSeq(set, LAMBDA d : d = c) - 1
Number(set, base, s) == FoldLeft(LAMBDA sum, c : sum * base + DigitValue(set, c), 0, s)

-----------------------------------------------------------------------------
(* Reading a conversion *)

RadixInfo ==
    LET Info(base, signed, set, prefix) == [base |-> base, signed |-> signed, set |-> set, prefix |-> prefix]
    IN  ("d" :> Info(10, TRUE, HexChars, <<>>)) @@ ("i" :> Info(10, TRUE, HexChars, <<>>))
        @@ ("u" :> Info(10, FALSE, HexChars, <<>>)) @@ ("o" :> Info(8, FALSE, HexChars, <<"0">>))
        @@ ("x" :> Info(16, FALSE, LowHexChars, <<"0", "x">>)) @@ ("X" :> Info(16, FALSE, HexChars, <<"0", "X">>))
        @@ ("p" :> Info(16, FALSE, HexChars, <<"0", "x">>)) @@ ("r" :> Info(10, TRUE, HexChars, <<>>))

StringLetters == {"s", "z", "h", "t", "T"}
Letters == DOMAIN RadixInfo \cup StringLetters \cup {"%", "c", "n"}

(* A number in the format, or the next argument in place of a star. *)
Numeral(s, args) ==
    LET n == Span(s, Range(DigitChars))
    IN  IF s # <<>> /\ s[1] = "*" THEN [val |-> args[1], rest |-> Tail(s), args |-> Tail(args)]
        ELSE [val |-> Number(DigitChars, 10, SubSeq(s, 1, n)), rest |-> Drop(s, n), args |-> args]

Abs(n) == IF n < 0 THEN -n ELSE n

(* s follows the percent sign: flags, width, precision, length modifiers, letter. *)
Conversion(s, args) ==
    LET flags == SubSeq(s, 1, Span(s, {"-", "+", " ", "#", "!", "0"}))
        width == Numeral(Drop(s, Len(flags)), args)
        dot == width.rest # <<>> /\ width.rest[1] = "."
        precision == IF dot THEN Numeral(Tail(width.rest), width.args) ELSE [width EXCEPT !.val = -1]
        longs == Min({2, Span(precision.rest, {"l"})})
        rest == Drop(precision.rest, longs)
        letter == IF rest = <<>> THEN "" ELSE rest[1]
        exact == IF dot THEN Abs(precision.val) ELSE -1
    IN  [left |-> "-" \in Range(flags) \/ width.val < 0, plus |-> "+" \in Range(flags),
         blank |-> " " \in Range(flags), alt |-> "#" \in Range(flags), zero |-> "0" \in Range(flags),
         width |-> Min({Abs(width.val), BufSize - 10}),
         precision |-> IF letter \in StringLetters THEN exact ELSE Min({exact, BufSize - 40}),
         letter |-> letter, rest |-> Drop(rest, 1), args |-> precision.args]

-----------------------------------------------------------------------------
(* The text of a conversion *)

Digits(v, base, set) ==
    LET n == CHOOSE k \in 1 .. 9 : v < base^k /\ (k > 1 => v >= base^(k - 1))
    IN  [i \in 1 .. n |-> set[1 + ((v \div base^(n - i)) % base)]]

Ordinal(v) ==
    IF v % 10 >= 4 \/ v % 10 = 0 \/ (v \div 10) % 10 = 1 THEN <<"t", "h">>
    ELSE << <<"s", "t">>, <<"n", "d">>, <<"r", "d">> >>[v % 10]

Sign(conv, v) ==
    CASE ~RadixInfo[conv.letter].signed -> <<>>
      [] OTHER -> IF v < 0 THEN <<"-">> ELSE IF conv.plus THEN <<"+">> ELSE IF conv.blank THEN <<" ">> ELSE <<>>

\* Mutant: zeros fill the whole width and the sign comes on top.
ZerosAndSign(conv, sign) == IF conv.zero THEN Max({conv.precision, conv.width}) ELSE conv.precision

(* How many digits the zero flag or the precision ask for. *)
LeastDigits(conv, sign) ==
    IF conv.zero THEN Max({conv.precision, conv.width - Len(sign)}) ELSE conv.precision

NumberText(conv, arg) ==
    LET info == RadixInfo[conv.letter]
        v == IF info.signed THEN Abs(arg) ELSE arg % IntSize
        sign == Sign(conv, arg)
        body == Digits(v, info.base, info.set) \o IF conv.letter = "r" THEN Ordinal(v) ELSE <<>>
        padded == Zeros(Max({0, LeastDigits(conv, sign) - Len(body)})) \o body
        signed == sign \o padded
        prefix == IF conv.alt /\ v # 0 /\ (info.prefix = <<>> \/ signed[1] # Last(info.prefix)) THEN info.prefix ELSE <<>>
    IN  prefix \o signed

CharText(conv, c) == [i \in 1 .. IF conv.precision >= 0 THEN conv.precision ELSE 1 |-> c]

(* The codes of the characters that are not letters or digits. *)
CodeOf == (" " :> 32) @@ ("\"" :> 34) @@ ("%" :> 37) @@ ("&" :> 38) @@ ("'" :> 39) @@ ("+" :> 43) @@ ("<" :> 60)

Escaped(c) ==
    IF c \in DOMAIN CodeOf THEN <<"%", HexChars[1 + (CodeOf[c] \div 16)], HexChars[1 + (CodeOf[c] % 16)]>> ELSE <<c>>

HtmlOf(c) ==
    CASE c = "<" -> <<"&", "l", "t", ";">>
      [] c = "&" -> <<"&", "a", "m", "p", ";">>
      [] OTHER -> <<c>>

(* What one unit of an encoded string, at its start, stands for: an escape that is not one stays as it is. *)
Unit(s) == IF s[1] = "%" THEN 3 ELSE 1
Decoded(u) ==
    LET code == Number(HexChars, 16, Tail(u))
    IN  CASE Len(u) = 3 /\ Range(Tail(u)) \subseteq Range(HexChars) /\ code \in Range(CodeOf) ->
                <<CHOOSE c \in DOMAIN CodeOf : CodeOf[c] = code>>
          [] u = <<"+">> -> <<" ">>
          [] OTHER -> u

RECURSIVE Units(_)
Units(s) == IF s = <<>> THEN <<>> ELSE <<SubSeq(s, 1, Unit(s))>> \o Units(Drop(s, Unit(s)))

Each(s, F(_)) == [i \in 1 .. Len(s) |-> F(s[i])]

(***************************************************************************)
(* The calls a conversion makes: each is the sequence of pieces handed to  *)
(* the appender between two looks at its answer.  A string goes out before *)
(* its field is padded, as if it had no characters.  %n hands on nothing:  *)
(* it stores the count.                                                    *)
(***************************************************************************)
Calls(conv) ==
    LET arg == conv.args[1]
        pad(n) == IF conv.width > n THEN <<<<Spaces(conv.width - n)>>>> ELSE <<>>
        Field(text) == IF conv.left THEN <<<<text>>>> \o pad(Len(text)) ELSE pad(Len(text)) \o <<<<text>>>>
        letter == conv.letter
    IN  CASE letter = "%" -> Field(<<"%">>)
          [] letter = "c" -> IF conv.precision = 0 THEN pad(0) ELSE Field(CharText(conv, arg))
          [] letter \in DOMAIN RadixInfo -> Field(NumberText(conv, arg))
          [] letter \in {"s", "z"} -> <<<<arg>>>> \o pad(0)
          [] letter = "h" -> <<Each(arg, HtmlOf)>> \o pad(0)
          [] letter = "t" -> <<Each(arg, Escaped)>> \o pad(0)
          [] letter = "T" -> <<Each(Units(arg), Decoded)>> \o pad(0)
          [] letter = "n" -> <<>>

-----------------------------------------------------------------------------
(* The appenders *)

(* The answer to one piece: how much was taken, or -1. The appender of a device takes an empty piece for an error. *)
Answer(p, piece) ==
    CASE p.sink = "stream" -> Min({Len(piece), p.room})
      [] p.sink = "device" -> IF piece = <<>> THEN -1 ELSE Min({Len(piece), p.room})
      [] p.sink = "string" -> IF Len(piece) > p.room THEN -1 ELSE Len(piece)

Handed(p, piece) ==
    LET n == Answer(p, piece)
        taken == Max({n, 0})
    IN  [p EXCEPT !.text = @ \o piece, !.out = @ \o SubSeq(piece, 1, taken), !.room = @ - taken,
                  !.sum = @ + n, !.refused = IF n < 0 THEN TRUE ELSE @]

\* Mutant: a negative answer is counted like any other.
CountedAnyway(p) == [p EXCEPT !.count = @ + p.sum, !.sum = 0]

(* WHPRINTF_CHECKERR *)
Checked(p) == IF p.sum < 0 THEN [p EXCEPT !.at = "stopped"] ELSE [p EXCEPT !.count = @ + p.sum, !.sum = 0]

CallAppender(p, pieces) ==
    IF p.at = "stopped" THEN p ELSE Checked(FoldLeft(Handed, [p EXCEPT !.sum = 0], pieces))

-----------------------------------------------------------------------------
(* whprintfv *)

PrintInit ==
    print = [fmt |-> <<>>, args |-> <<>>, phrases |-> 0, sink |-> "none", room |-> 0, text |-> <<>>, out |-> <<>>,
             count |-> 0, sum |-> 0, refused |-> FALSE, piecemeal |-> FALSE, fields |-> {}, at |-> "writing"]

(* The client writes its format. *)
Say(phrase) ==
    /\ print.at = "writing" /\ print.phrases < MaxPhrases
    /\ print' = [print EXCEPT !.fmt = @ \o phrase.fmt, !.args = @ \o phrase.args, !.phrases = @ + 1]

CallPrintf(sink, room) ==
    /\ print.at = "writing"
    /\ print' = [print EXCEPT !.sink = sink, !.room = room, !.at = "printing"]

(* Up to the next percent sign the format is text. *)
PrintLiteral ==
    LET n == Min({i \in 1 .. Len(print.fmt) : print.fmt[i] = "%"} \cup {Len(print.fmt) + 1}) - 1
    IN  /\ print.at = "printing" /\ n > 0
        /\ print' = [CallAppender(print, <<SubSeq(print.fmt, 1, n)>>) EXCEPT !.fmt = Drop(@, n)]

(* A percent sign that ends the format prints itself. *)
PrintLastPercent ==
    /\ print.at = "printing" /\ print.fmt = <<"%">>
    /\ print' = [CallAppender(print, <<<<"%">>>>) EXCEPT !.fmt = <<>>]

Convert ==
    LET conv == Conversion(Tail(print.fmt), print.args)
        ran == FoldLeft(CallAppender, print, Calls(conv))
        number == conv.letter \in DOMAIN RadixInfo
    IN  /\ print.at = "printing" /\ Len(print.fmt) > 1 /\ print.fmt[1] = "%"
        /\ conv.letter \in Letters
        /\ print' = [ran EXCEPT !.fmt = conv.rest,
                                !.args = IF conv.letter = "%" THEN conv.args ELSE Tail(conv.args),
                                !.fields = IF number THEN @ \cup {<<[conv EXCEPT !.rest = <<>>, !.args = <<>>], conv.args[1]>>} ELSE @,
                                !.piecemeal = @ \/ conv.letter \in {"h", "t", "T"}]

(* A letter that converts nothing, or no more, ends the call. *)
UnknownConversion ==
    /\ print.at = "printing" /\ Len(print.fmt) > 1 /\ print.fmt[1] = "%"
    /\ Conversion(Tail(print.fmt), print.args).letter \notin Letters
    /\ print' = [print EXCEPT !.at = "stopped"]

PrintEnds ==
    /\ print.at = "printing" /\ print.fmt = <<>>
    /\ print' = [print EXCEPT !.at = "ended"]

PrintNext ==
    \/ \E phrase \in Phrases : Say(phrase)
    \/ \E sink \in {"device", "stream", "string"}, room \in Rooms : CallPrintf(sink, room)
    \/ PrintLiteral
    \/ PrintLastPercent
    \/ Convert
    \/ UnknownConversion
    \/ PrintEnds

-----------------------------------------------------------------------------
(* What a reader of a printed number makes of it: the sign, the prefix of its base, the digits. *)
ReadsAs(conv, text) ==
    LET info == RadixInfo[conv.letter]
        negative == text[1] = "-"
        unsigned == IF text[1] \in {"-", "+", " "} THEN Tail(text) ELSE text
        digits == Drop(unsigned, IF conv.alt /\ Len(info.prefix) = 2 /\ IsPrefix(info.prefix, unsigned) THEN 2 ELSE 0)
        ordinal == IF conv.letter = "r" THEN SubSeq(digits, 1, Len(digits) - 2) ELSE digits
        v == Number(info.set, info.base, Drop(ordinal, Span(ordinal, {"0"})))
    IN  IF negative THEN -v ELSE v

(***************************************************************************)
(* What went out is the beginning of the text the format asks for, as much *)
(* of it as the sink has room for, and the count, which is returned and    *)
(* stored by %n, is its length.  When an appender fails nothing is handed   *)
(* to it any more and the count that had gone out is returned: so whprintf.h *)
(* 87-93 has it, where the comment at whprintf.c:731-732 says -1.  %h, %t   *)
(* and %T, which go on within their string (lines 484, 541, 606), are the   *)
(* exception.  Every number printed reads back as its argument, fills its   *)
(* field to the width exactly unless it is longer by itself, and never      *)
(* outgrows the conversion buffer.                                         *)
(***************************************************************************)
PrintedIsAsked ==
    /\ ~(print.piecemeal /\ print.refused) => IsPrefix(print.out, print.text) /\ print.count = Len(print.out)
    /\ print.sink \in {"device", "stream"} => print.out = print.text \/ print.room = 0
    /\ \A f \in print.fields :
          LET conv == f[1]
              arg == f[2]
              text == NumberText(conv, arg)
          IN  /\ ReadsAs(conv, text) = IF RadixInfo[conv.letter].signed THEN arg ELSE arg % IntSize
              /\ Len(text) < BufSize
              /\ conv.zero /\ ~conv.alt =>
                    Len(text) = Max({conv.width, Len(NumberText([conv EXCEPT !.zero = FALSE], arg))})
=============================================================================
