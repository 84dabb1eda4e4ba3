----------------------------- MODULE StemCache -----------------------------
(***************************************************************************)
(* What the stem cache promises, whatever happens on the disk: a shelf of  *)
(* complete splits.  An entry is there whole or not at all, it is put      *)
(* there in one step, made from a version the source has had, and never    *)
(* changes while it is there.  Module StemStore implements it.             *)
(***************************************************************************)
EXTENDS Integers

CONSTANTS Key,  \* a source track and a recipe
          None

VARIABLES src,    \* the version of each source file
          shelf   \* the version of the source each complete split was made from, or None

vars == <<src, shelf>>

Init == /\ src = [k \in Key |-> 0]
        /\ shelf \in [Key -> {0, None}]

Put(k) == /\ shelf[k] = None
          /\ \E v \in 0..src[k] : shelf' = [shelf EXCEPT ![k] = v]
          /\ UNCHANGED src

\* Evicted, cleared, about to be replaced, or lost in a crash.
Lose == /\ \E K \in SUBSET Key : shelf' = [k \in Key |-> IF k \in K THEN None ELSE shelf[k]]
        /\ UNCHANGED src

Edit(k) == src' = [src EXCEPT ![k] = @ + 1] /\ UNCHANGED shelf

Next == Lose \/ \E k \in Key : Put(k) \/ Edit(k)

Spec == Init /\ [][Next]_vars

=============================================================================
