-------------------------------- MODULE Files --------------------------------
(***************************************************************************)
(* What whefs.h promises of pseudofiles: each is a string of bytes of its   *)
(* own.  A write replaces bytes from a position on, and what lies between   *)
(* the old end and that position reads as zeroes; so do the bytes a         *)
(* truncation adds.  A container that is full takes the first bytes only.   *)
(***************************************************************************)
EXTENDS Naturals, Sequences

CONSTANTS File, Data, MaxSize   \* Data: the strings of bytes clients write

VARIABLES
    exists,  \* the files there are
    content  \* file -> its bytes

vars == <<exists, content>>

Init ==
    /\ exists = {}
    /\ content = [f \in File |-> <<>>]

\* The string s up to n bytes, filled with zeroes.
Resized(s, n) == [k \in 1 .. n |-> IF k <= Len(s) THEN s[k] ELSE 0]

\* The string s with d written over it from position pos on.
Overwritten(s, pos, d) ==
    LET end == pos + Len(d)
    IN  [k \in 1 .. IF end > Len(s) THEN end ELSE Len(s) |->
            IF k \in pos + 1 .. end THEN d[k - pos] ELSE IF k <= Len(s) THEN s[k] ELSE 0]

Create(f) ==
    /\ f \notin exists
    /\ exists' = exists \cup {f}
    /\ UNCHANGED content

Remove(f) ==
    /\ f \in exists
    /\ exists' = exists \ {f}
    /\ content' = [content EXCEPT ![f] = <<>>]

Write(f, pos, d) ==
    /\ f \in exists
    /\ \E n \in 1 .. Len(d) :
          content' = [content EXCEPT ![f] = Overwritten(@, pos, SubSeq(d, 1, n))]
    /\ UNCHANGED exists

Truncate(f, n) ==
    /\ f \in exists
    /\ content' = [content EXCEPT ![f] = Resized(@, n)]
    /\ UNCHANGED exists

\* (A write or truncation that leaves a file as it was is a stuttering step.)
Next == \E f \in File :
    \/ Create(f) \/ Remove(f)
    \/ /\ content'[f] # content[f]
       /\ \E n \in 0 .. MaxSize : Truncate(f, n) \/ \E d \in Data : Write(f, n, d)

Spec == Init /\ [][Next]_vars
=============================================================================
