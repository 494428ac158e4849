----------------------------- MODULE AbstractMove -----------------------------
(***************************************************************************)
(* What a move of a file system promises to its callers: each part of the  *)
(* file system is at any time whole in the old or in the new place, and    *)
(* the move ends with all of it in one of them, or says that it broke.     *)
(* The promise is off once the disk has lost data, or the move has taken   *)
(* for copied what was not.                                                *)
(***************************************************************************)
EXTENDS Integers

VARIABLES
    size,           \* parts the file system has
    old, new,       \* parts which are whole in the old and in the new place
    bad,            \* the promise is off
    result          \* moving, moved, unmoved or broken

vars == <<size, old, new, bad, result>>

Parts == 0 .. size - 1

Init ==
    /\ size \in Nat \ {0}
    /\ old = Parts /\ new = {}
    /\ bad = FALSE
    /\ result = "moving"

\* Parts are copied forth or back.
Transfer ==
    /\ old' \in SUBSET Parts /\ new' \in SUBSET Parts
    /\ bad => bad'
    /\ bad' \/ old' \union new' = Parts

Work == result = "moving" /\ result' = "moving" /\ Transfer /\ UNCHANGED size

\* The move ends, with a last transfer when that is what failed.
End ==
    /\ result = "moving"
    /\ result' \in {"moved", "unmoved", "broken"}
    /\ Transfer
    /\ result' = "moved" /\ ~bad' => new' = Parts
    /\ result' = "unmoved" /\ ~bad' => old' = Parts
    /\ UNCHANGED size

Next == Work \/ End

Spec == Init /\ [][Next]_vars /\ <>(result # "moving")
=============================================================================
