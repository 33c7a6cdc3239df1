------------------------------ MODULE SharedUse ------------------------------
(***************************************************************************)
(* What the lock of a container promises the programs that share it: at any *)
(* moment either one program uses the container and may write, or any       *)
(* number of them use it and only read.                                     *)
(***************************************************************************)
CONSTANT Process

VARIABLE use  \* process -> how it uses the container: "no", "read" or "write"

Init == use = [p \in Process |-> "no"]

Compatible(p, how) ==
    \A q \in Process \ {p} : use[q] = "no" \/ (use[q] = "read" /\ how = "read")

Enter(p, how) ==
    /\ use[p] = "no" /\ how \in {"read", "write"}
    /\ Compatible(p, how)
    /\ use' = [use EXCEPT ![p] = how]

Leave(p) == use' = [use EXCEPT ![p] = "no"]

Next == \E p \in Process : Leave(p) \/ \E how \in {"read", "write"} : Enter(p, how)

Spec == Init /\ [][Next]_use
=============================================================================
