------------------------------- MODULE MCNames -------------------------------
(* Names "ac" and "bB" have the same hash: 33 * 'a' + 'c' = 33 * 'b' + 'B'. *)
EXTENDS Names
MCHashOf == ("" :> 0) @@ ("ac" :> 1) @@ ("bB" :> 1) @@ ("x" :> 2) @@ ("long" :> 3)
=============================================================================
