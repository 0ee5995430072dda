----------------------------- MODULE LogContract -----------------------------
(***************************************************************************)
(* What a reader of /var/log/syshealthd.log* may count on: a sequence of   *)
(* generations, the newest first, of which only the two newest ever grow;  *)
(* a generation is dropped when Keep newer ones have been archived. The    *)
(* stanza and the dispatcher together implement it (LogRotation).          *)
(***************************************************************************)
EXTENDS Naturals, Sequences

CONSTANT Keep     \* how many archived generations are kept: "rotate 14"

VARIABLES
    kept,         \* the generations, each the set of its records
    written       \* records are numbered in the order they are written

LogInit == kept = <<>> /\ written = 0

Create == kept = <<>> /\ kept' = <<{}>> /\ UNCHANGED written

\* The next record is in the newest generation, in the one before, or in none.
Write ==
    /\ written' = written + 1
    /\ \/ \E g \in DOMAIN kept \intersect {1, 2} :
            kept' = [kept EXCEPT ![g] = @ \union {written'}]
       \/ UNCHANGED kept

\* A generation with something in it is archived, and the oldest dropped.
Archive ==
    /\ kept # <<>> /\ kept[1] # {}
    /\ kept' = [i \in 1..(IF Len(kept) > Keep THEN Keep + 1 ELSE Len(kept) + 1) |->
                   IF i = 1 THEN {} ELSE kept[i - 1]]
    /\ UNCHANGED written

LogSpec == LogInit /\ [][Create \/ Write \/ Archive]_<<kept, written>>

=============================================================================
