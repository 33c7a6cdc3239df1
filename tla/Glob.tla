-------------------------------- MODULE Glob --------------------------------
(***************************************************************************)
(* Pattern matching (whglob.c): whglob_matches, by which whefs_ls, rm and  *)
(* the command line choose names, and whglob_matches_like.                 *)
(*                                                                         *)
(* A pattern and a name are sequences of characters: what READ_UTF8 makes  *)
(* of their bytes.  patternCompare is translated as Compare; InLanguage is *)
(* the reference, from the rules of whglob.h: what a pattern's tokens      *)
(* spell.                                                                  *)
(***************************************************************************)
EXTENDS Integers, SequencesExt

CONSTANTS
    Pieces,      \* what patterns are put together from
    MaxPattern,  \* bound: a pattern this long is not extended
    Subjects     \* the strings they are compared with

VARIABLE pattern

(* The characters used, in the order of their codes. *)
Chars == <<"%", "*", "-", "?", "A", "B", "[", "\\", "]", "^", "_", "a", "b">>

Code(c) == SelectInSeq(Chars, LAMBDA d : d = c)
Between(lo, c, hi) == Code(lo) <= Code(c) /\ Code(c) <= Code(hi)

Lower(c) == CASE c = "A" -> "a" [] c = "B" -> "b" [] OTHER -> c

NoChar == ""
None == NoChar

GlobRules == [all |-> "*", one |-> "?", set |-> "[", noCase |-> FALSE, esc |-> "\\"]
LikeRules(noCase) == [all |-> "%", one |-> "_", set |-> NoChar, noCase |-> noCase, esc |-> "%"]

Same(rules, c, d) == IF rules.noCase THEN Lower(c) = Lower(d) ELSE c = d

Rest(s, n) == SubSeq(s, n + 1, Len(s))

-----------------------------------------------------------------------------
(* patternCompare *)

(* The characters of a set, up to the bracket that closes it; prior may start a range. *)
RECURSIVE Walk(_, _, _)
Walk(p, c, prior) ==
    IF p = <<>> THEN [closed |-> FALSE, seen |-> FALSE, rest |-> p]
    ELSE IF p[1] = "]" THEN [closed |-> TRUE, seen |-> FALSE, rest |-> Tail(p)]
    ELSE LET range == p[1] = "-" /\ prior # None /\ Len(p) > 1 /\ p[2] # "]"
             after == IF range THEN Walk(Rest(p, 2), c, None) ELSE Walk(Tail(p), c, p[1])
             here == IF range THEN Between(prior, c, p[2]) ELSE c = p[1]
         IN  [after EXCEPT !.seen = @ \/ here]

(* p follows the bracket: a caret inverts the set, and a bracket that comes first is a member. *)
InSet(p, c) ==
    LET invert == p # <<>> /\ p[1] = "^"
        q == IF invert THEN Tail(p) ELSE p
        first == q # <<>> /\ q[1] = "]"
        walk == Walk(IF first THEN Tail(q) ELSE q, c, None)
    IN  [matched |-> walk.closed /\ (walk.seen \/ (first /\ c = "]")) # invert, rest |-> walk.rest]

\* Mutant: a question mark in a run of wildcards takes no character.
NoneOfRun(rules, run) == 0

(* A run of wildcards takes a character for each that stands for one. *)
OnesOfRun(rules, run) == Len(SelectSeq(run, LAMBDA c : c = rules.one))

RECURSIVE Compare(_, _, _, _)
Compare(rules, p, s, escaped) ==
    LET c == p[1]
        run == SubSeq(p, 1, Min({i \in 1 .. Len(p) : p[i] \notin {rules.all, rules.one}} \cup {Len(p) + 1}) - 1)
        ones == OnesOfRun(rules, run)
        left == Rest(s, ones)
        next == Rest(p, Len(run))
        literal == IF next[1] = rules.esc THEN Tail(next) ELSE next
    IN  CASE p = <<>> -> s = <<>>
          [] p # <<>> /\ ~escaped /\ c = rules.all ->
                /\ ones <= Len(s)
                /\ \/ next = <<>>
                   \/ /\ next[1] # rules.set
                      /\ literal # <<>>
                      /\ \E i \in 1 .. Len(left) :
                            /\ Same(rules, literal[1], left[i])
                            /\ Compare(rules, Tail(literal), Rest(left, i), FALSE)
          [] p # <<>> /\ ~escaped /\ c = rules.one ->
                s # <<>> /\ Compare(rules, Tail(p), Tail(s), FALSE)
          [] p # <<>> /\ c = rules.set ->
                /\ s # <<>>
                /\ InSet(Tail(p), s[1]).matched
                /\ Compare(rules, InSet(Tail(p), s[1]).rest, Tail(s), escaped)
          [] p # <<>> /\ ~escaped /\ c = rules.esc /\ c # rules.all -> Compare(rules, Tail(p), s, TRUE)
          [] OTHER ->
                s # <<>> /\ Same(rules, c, s[1]) /\ Compare(rules, Tail(p), Tail(s), FALSE)

GlobMatches(p, s) == Compare(GlobRules, p, s, FALSE)
LikeMatches(p, s, caseSensitive) == Compare(LikeRules(~caseSensitive), p, s, FALSE)

-----------------------------------------------------------------------------
(* The reference: a pattern is a sequence of tokens; each takes one character of a set, or, the star, any number of any. *)

Every == Range(Chars)
Star == [many |-> TRUE, of |-> Every]
One(S) == [many |-> FALSE, of |-> S]

(* The set between two brackets, by the rules of whglob.h; patterns of the model have one range at most in a set. *)
Members(content) ==
    LET n == Len(content)
        dashes == {i \in 2 .. n - 1 : content[i] = "-"}
    IN  {content[i] : i \in (1 .. n) \ dashes}
        \cup {c \in Every : \E i \in dashes : Between(content[i - 1], c, content[i + 1])}

(* Where the set that opens at i closes: 0 when nowhere. *)
Closing(p, i) ==
    LET start == IF i < Len(p) /\ p[i + 1] = "^" THEN i + 2 ELSE i + 1
        ends == {j \in start + 1 .. Len(p) : p[j] = "]"}
    IN  IF ends = {} THEN 0 ELSE Min(ends)

Folded(rules, S) == IF rules.noCase THEN {c \in Every : \E d \in S : Lower(c) = Lower(d)} ELSE S

RECURSIVE Tokens(_, _)
Tokens(rules, p) ==
    IF p = <<>> THEN <<>>
    ELSE LET end == Closing(p, 1)
             inverted == Len(p) > 1 /\ p[2] = "^"
         IN  CASE p[1] = rules.all -> <<Star>> \o Tokens(rules, Tail(p))
               [] p[1] = rules.one -> <<One(Every)>> \o Tokens(rules, Tail(p))
               [] p[1] = rules.set /\ end = 0 -> <<One({})>>
               [] p[1] = rules.set /\ end > 0 ->
                     <<One(IF inverted THEN Every \ Members(SubSeq(p, 3, end - 1)) ELSE Members(SubSeq(p, 2, end - 1)))>>
                     \o Tokens(rules, Rest(p, end))
               [] p[1] = rules.esc /\ p[1] # rules.all ->
                     (IF Len(p) > 1 THEN <<One({p[2]})>> ELSE <<>>) \o Tokens(rules, Rest(p, 2))
               [] OTHER -> <<One(Folded(rules, {p[1]}))>> \o Tokens(rules, Tail(p))

(* Every token gets its part of s. *)
RECURSIVE InLanguage(_, _)
InLanguage(tokens, s) ==
    IF tokens = <<>> THEN s = <<>>
    ELSE \E n \in IF tokens[1].many THEN 0 .. Len(s) ELSE {1} \cap 1 .. Len(s) :
            /\ \A i \in 1 .. n : s[i] \in tokens[1].of
            /\ InLanguage(Tail(tokens), Rest(s, n))

-----------------------------------------------------------------------------
GlobInit == pattern = <<>>

(* One more piece. *)
Extend(piece) ==
    /\ Len(pattern) < MaxPattern
    /\ pattern' = pattern \o piece

GlobNext == \E piece \in Pieces : Extend(piece)

(***************************************************************************)
(* Three forms the code treats otherwise than whglob.h says, and which the *)
(* property leaves out: a set behind a star never matches (line 225), a    *)
(* bracket behind a backslash still opens a set (line 252), and a          *)
(* backslash that ends a pattern matches nothing behind a star only.       *)
(***************************************************************************)
ByTheRules(p) ==
    /\ \A i \in 1 .. Len(p) - 1 : p[i] = "\\" => p[i + 1] # "["
    /\ \A i \in 1 .. Len(p) : \A j \in i + 1 .. Len(p) :
          (p[i] = "*" /\ \A k \in i .. j - 1 : p[k] \in {"*", "?"}) =>
              /\ p[j] # "["
              /\ j = Len(p) => p[j] # "\\"

(* A pattern matches exactly the strings its tokens spell, by glob rules and by LIKE rules with and without case. *)
GlobAgrees ==
    \A s \in Subjects :
        /\ ByTheRules(pattern) => GlobMatches(pattern, s) = InLanguage(Tokens(GlobRules, pattern), s)
        /\ \A caseSensitive \in BOOLEAN :
              LikeMatches(pattern, s, caseSensitive) = InLanguage(Tokens(LikeRules(~caseSensitive), pattern), s)
=============================================================================
