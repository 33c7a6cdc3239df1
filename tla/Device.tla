-------------------------------- MODULE Device --------------------------------
(***************************************************************************)
(* What the whio_dev interface promises of a device and of the views that   *)
(* are fenced into it (sub-devices, block devices): one string of bytes, a  *)
(* cursor per view.  A view changes and reads bytes inside its window only, *)
(* at its own cursor, and moves that cursor by what was transferred; no     *)
(* other cursor moves with it.  Only a seek takes the device's own cursor   *)
(* along, where whio_devs.h has it independent of the views.                *)
(***************************************************************************)
EXTENDS Integers, Sequences

CONSTANTS
    View,
    Whole,     \* the view of the device itself
    Placed,    \* the views that are sought to a place before every transfer
    MaxPos

VARIABLES
    bytes,   \* the bytes of the device
    at,      \* view -> its cursor, a position in bytes
    window,  \* view -> [lo, hi]: the bytes from lo up to hi, hi not included
    moved    \* the bytes the last call transferred

vars == <<bytes, at, window, moved>>

Init ==
    /\ at \in [View -> 0..MaxPos]
    /\ moved = <<>>

Position == 0..MaxPos

\* The cursors after a seek of view v: the device's own cursor goes along.
SoughtTo(v, p) == [at EXCEPT ![v] = p, ![Whole] = p]

\* View v was at p and went on by n: every other cursor stays.
WentOn(v, p, n) == at[v] = p /\ at' = [at EXCEPT ![v] = p + n]

\* View v was sought to p and went on by n.
WentFrom(v, p, n) == v \in Placed /\ at' = [SoughtTo(v, p) EXCEPT ![v] = p + n]

\* A window whose upper end is 0.  whio_devs.h and whio_dev_subdev.c call it
\* unlimited; the handlers for reading and writing let nothing through.
Shut(w) == w.hi = 0

Within(p, n, w) == ~Shut(w) /\ w.lo <= p /\ p + n <= w.hi

\* Only n bytes from p on differ, and those of a hole before p.
SameElsewhere(p, n) ==
    /\ \A i \in 1..Len(bytes) : i \notin p + 1..p + n => bytes'[i] = bytes[i]
    /\ Len(bytes') = IF p + n > Len(bytes) THEN p + n ELSE Len(bytes)

\* View v transfers bytes, which lie at p afterwards.
Transfer(v, p) ==
    LET n == Len(moved') IN
    /\ Within(p, n, window[v])
    /\ WentOn(v, p, n) \/ WentFrom(v, p, n)
    /\ p + n <= Len(bytes') /\ SubSeq(bytes', p + 1, p + n) = moved'
    /\ UNCHANGED window

\* Where the transfer that has left the cursor of v behind began.
From(v) == at'[v] - Len(moved')

Put(v) == moved' # <<>> /\ Transfer(v, From(v)) /\ SameElsewhere(From(v), Len(moved'))

Get(v) == moved' # <<>> /\ Transfer(v, From(v)) /\ UNCHANGED bytes

\* A transfer that moves nothing, or a truncation: the end of the device may
\* move, and what lies before both ends stays.
Settle(v) ==
    /\ at' = at \/ \E p \in Position : WentFrom(v, p, 0)
    /\ \A i \in 1..Len(bytes) : i <= Len(bytes') => bytes'[i] = bytes[i]
    /\ moved' = <<>> /\ UNCHANGED window

\* A seek.
Place(v) ==
    /\ \E p \in Position : at' = SoughtTo(v, p)
    /\ moved' = <<>> /\ UNCHANGED <<bytes, window>>

Rebound(v) ==
    /\ v # Whole
    /\ \E w \in [lo : Position, hi : Position] :
          window' = [window EXCEPT ![v] = w] /\ at' = [at EXCEPT ![v] = w.lo]
    /\ moved' = <<>> /\ UNCHANGED bytes

Next == \E v \in View : Put(v) \/ Get(v) \/ Settle(v) \/ Place(v) \/ Rebound(v)

Spec == Init /\ [][Next]_vars
=============================================================================
