---------------------------- MODULE LeakDetector ----------------------------
(***************************************************************************)
(* MemoryLeakDetector of daemon/collectors/memory.py: between two rounds   *)
(* processes start, grow, shrink, exit and leave their pid to another; in  *)
(* a round one listing of ps is read, its largest processes are appended   *)
(* to one bounded queue per pid, the growing ones are flagged and the      *)
(* queues of all other pids are deleted.                                   *)
(***************************************************************************)
EXTENDS Naturals, Sequences, FiniteSets

CONSTANTS
    Pid,          \* the pids of the host, numbers: ps lists them in order
    MaxSize,      \* bound on a resident size, in the units ps is rounded to
    WindowSize,   \* sample_window_size
    Threshold,    \* consecutive_growth_threshold
    MinGrowth,    \* min_growth_mb
    TrackTopN     \* track_top_n_processes

ASSUME LeakAssumption ==
    /\ Pid \subseteq Nat /\ IsFiniteSet(Pid)
    /\ MaxSize \in Nat /\ MinGrowth \in Nat /\ TrackTopN \in Nat
    /\ WindowSize \in Nat \ {0} /\ Threshold \in Nat \ {0}

VARIABLES
    size,         \* resident size of the process that has each pid, NoProcess if none
    history,      \* self.history, <<>> for a pid that is not in it
    suspects,     \* the pids analyze_leaks last returned
    trace         \* history variable: the latest samples, as LeakContract has them

vars == <<size, history, suspects, trace>>

Size      == 0..MaxSize
NoProcess == MaxSize + 1

TypeOK ==
    /\ size \in [Pid -> Size \union {NoProcess}]
    /\ history \in [Pid -> Seq(Size)]
    /\ \A p \in Pid : Len(history[p]) <= WindowSize
    /\ suspects \subseteq Pid

Init ==
    /\ size = [p \in Pid |-> NoProcess]
    /\ history = [p \in Pid |-> <<>>]
    /\ suspects = {}
    /\ trace = <<>>

-----------------------------------------------------------------------------
(* The processes of the host *)

\* A process starts with a pid that is free, also one that has been in use:
\* analyze_leaks cannot tell the two apart.
Start(p) ==
    /\ size[p] = NoProcess
    /\ \E s \in Size : size' = [size EXCEPT ![p] = s]
    /\ UNCHANGED <<history, suspects, trace>>

Resize(p) ==
    /\ size[p] # NoProcess
    /\ \E s \in Size \ {size[p]} : size' = [size EXCEPT ![p] = s]
    /\ UNCHANGED <<history, suspects, trace>>

Stop(p) ==
    /\ size[p] # NoProcess
    /\ size' = [size EXCEPT ![p] = NoProcess]
    /\ UNCHANGED <<history, suspects, trace>>

-----------------------------------------------------------------------------
(* analyze_leaks *)

\* The stable sort by size, largest first, of ps's listing in pid order.
Before(q, p) == size[q] > size[p] \/ (size[q] = size[p] /\ q < p)

Running == {p \in Pid : size[p] # NoProcess}

\* Mutant: one process too many survives the slice.
TopNAndOne == {p \in Running : Cardinality({q \in Running : Before(q, p)}) <= TrackTopN}

TopN == {p \in Running : Cardinality({q \in Running : Before(q, p)}) < TrackTopN}

\* deque(maxlen=window_size).append
Push(queue, e) ==
    IF Len(queue) < WindowSize THEN Append(queue, e) ELSE Append(Tail(queue), e)

\* Mutant: the count of increases is not reset by a sample that did not grow.
IncreasesNoReset(queue) ==
    Cardinality({i \in 2..Len(queue) : queue[i] > queue[i - 1]})

\* The loop over the samples: the number of increases that end at the last one.
Increases(queue) ==
    LET count[i \in 1..Len(queue)] ==
            IF i > 1 /\ queue[i] > queue[i - 1] THEN count[i - 1] + 1 ELSE 0
    IN  count[Len(queue)]

IsSuspect(queue) ==
    /\ Len(queue) >= Threshold
    /\ Increases(queue) >= Threshold - 1
    /\ queue[Len(queue)] >= queue[1] + MinGrowth

\* Mutant: the queues of the pids that are not listed are kept.
UpdatedUnpruned(listed) ==
    [p \in Pid |-> IF p \in listed
                   THEN Push(history[p], size[p])
                   ELSE history[p]]

\* The queues after a round over the processes listed: appended to, or pruned.
Updated(listed) ==
    [p \in Pid |-> IF p \in listed
                   THEN Push(history[p], size[p])
                   ELSE <<>>]

\* One round. sample_processes lists nothing when ps fails or times out.
AnalyzeLeaks ==
    \E listed \in {TopN, {}} :
        /\ history' = Updated(listed)
        /\ suspects' = {p \in listed : IsSuspect(history'[p])}
        /\ trace' = LET longer == Append(trace, [p \in listed |-> size[p]])
                    IN  IF Len(longer) > WindowSize THEN Tail(longer) ELSE longer
        /\ UNCHANGED size

Next ==
    \/ \E p \in Pid : Start(p) \/ Resize(p) \/ Stop(p)
    \/ AnalyzeLeaks

Spec == Init /\ [][Next]_vars

-----------------------------------------------------------------------------
(* What the detector keeps *)

\* The queues and the loop over them flag exactly the processes that the
\* contract flags from the samples alone.
Contract == INSTANCE LeakContract WITH trace <- trace, suspects <- suspects
MeetsLeakContract == Contract!Spec

\* However many processes come and go, no more than TrackTopN pids are tracked.
TrackedBounded == Cardinality({p \in Pid : history[p] # <<>>}) <= TrackTopN

\* A pid's queue holds the sizes of its uninterrupted run of recent samples: no
\* gap is papered over, and none of the run that fits the window is missing.
QueueIsRecentRun ==
    \A p \in Pid :
        LET start == Contract!RunStart(trace, p)
        IN  /\ Len(history[p]) = Len(trace) + 1 - start
            /\ \A i \in 1..Len(history[p]) :
                   history[p][i] = trace[start + i - 1][p]

=============================================================================
