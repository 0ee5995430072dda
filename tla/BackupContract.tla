--------------------------- MODULE BackupContract ---------------------------
(***************************************************************************)
(* What a directory of backups promises, without its files, its processes  *)
(* and their crashes: a store of whole backups, each under the second in   *)
(* which it was started. A backup enters the store in one step and is not  *)
(* altered there; it leaves when its lifetime is over, and does not come   *)
(* back. Of a second in which two backups were started nothing is promised.*)
(***************************************************************************)
EXTENDS Naturals

CONSTANTS
    Time,
    Lifetime,     \* how long a backup stays at least
    Content,
    Missing

VARIABLES
    clock,
    store,        \* the backup of each second, Missing when there is none
    shared        \* whether two backups were started in a second

vars == <<clock, store, shared>>

Init ==
    /\ clock = 1
    /\ store = [s \in Time |-> Missing]
    /\ shared = [s \in Time |-> FALSE]

Expired(s) == clock - s >= Lifetime

\* Nothing but the backup of s changes.
Only(s) == store' = [store EXCEPT ![s] = store'[s]] /\ UNCHANGED clock

Announce(s) ==
    /\ store[s] = Missing /\ store'[s] \in Content
    /\ ~shared[s] /\ s <= clock /\ ~Expired(s)
    /\ Only(s) /\ UNCHANGED shared

Release(s) ==
    /\ store[s] # Missing /\ store'[s] = Missing
    /\ Expired(s)
    /\ Only(s) /\ UNCHANGED shared

\* Two backups can only share the present second.
Share(s) ==
    /\ s = clock
    /\ ~shared[s] /\ shared' = [shared EXCEPT ![s] = TRUE]
    /\ store'[s] = Missing
    /\ Only(s)

Advance == clock' = clock + 1 /\ UNCHANGED <<store, shared>>

Next == Advance \/ \E s \in Time : Announce(s) \/ Release(s) \/ Share(s)

Spec == Init /\ [][Next]_vars

=============================================================================
