---------------------------- MODULE LeakContract ----------------------------
(***************************************************************************)
(* What the leak detector promises, without its queues: from the samples   *)
(* it was given, the processes it flags. A sample is a function from the   *)
(* pids it lists to their resident sizes; trace holds the latest of them,  *)
(* oldest first. A process is judged on the samples since it last entered  *)
(* the listing: it is flagged when it has grown in each of the latest      *)
(* Threshold - 1 intervals, and by MinGrowth over all of those samples.    *)
(***************************************************************************)
EXTENDS Naturals, Sequences

CONSTANTS Pid, Size, WindowSize, Threshold, MinGrowth

VARIABLES trace, suspects

Sample == UNION {[S -> Size] : S \in SUBSET Pid}

\* Where the uninterrupted run of samples that list p begins, Len(t) + 1 when
\* the latest does not.
RunStart(t, p) ==
    CHOOSE i \in 1..Len(t) + 1 :
        /\ \A j \in i..Len(t) : p \in DOMAIN t[j]
        /\ i > 1 => p \notin DOMAIN t[i - 1]

Grew(t, p) ==
    LET start == RunStart(t, p)
        last  == Len(t)
    IN  /\ last - start + 1 >= Threshold
        /\ \A i \in last - Threshold + 2..last : t[i][p] > t[i - 1][p]
        /\ t[last][p] >= t[start][p] + MinGrowth

Init == trace = <<>> /\ suspects = {}

Next ==
    \E s \in Sample :
        LET longer == Append(trace, s)
        IN  /\ trace' = IF Len(longer) > WindowSize THEN Tail(longer) ELSE longer
            /\ suspects' = {p \in Pid : Grew(trace', p)}

Spec == Init /\ [][Next]_<<trace, suspects>>

=============================================================================
