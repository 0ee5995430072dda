-------------------------- MODULE LeakDetectorProofs --------------------------
(***************************************************************************)
(* What LeakDetector keeps, for any host, window and number of tracked     *)
(* processes: how many queues there are, that each holds exactly the       *)
(* recent samples, that the loop over a queue counts the increases that    *)
(* end at its last sample, and so that the detector implements its         *)
(* contract.                                                               *)
(***************************************************************************)
EXTENDS LeakDetector, FiniteSetTheorems, WellFoundedInduction, TLAPS

Samples == UNION {[S -> Size] : S \in SUBSET Pid}

\* Where the samples in p's queue begin in the trace.
First(p) == Len(trace) + 1 - Len(history[p])

\* The queue is the end of t from `first` on, and before it there is a sample without p.
RunOf(queue, t, p, first) ==
    /\ Len(queue) <= Len(t)
    /\ \A j \in first..Len(t) : p \in DOMAIN t[j]
    /\ first > 1 => p \notin DOMAIN t[first - 1]
    /\ \A i \in 1..Len(queue) : queue[i] = t[first + i - 1][p]

IsRun(p) == RunOf(history[p], trace, p, First(p))

RunInv ==
    /\ trace \in Seq(Samples) /\ Len(trace) <= WindowSize
    /\ \A p \in Pid : IsRun(p)

Inv == TypeOK /\ TrackedBounded /\ RunInv

-----------------------------------------------------------------------------
(* The slice *)

LEMMA Sizes ==
    ASSUME TypeOK
    PROVE  /\ \A p \in Running : size[p] \in Nat /\ size[p] \in Size /\ p \in Nat
           /\ Running \in SUBSET Pid /\ TopN \in SUBSET Running
BY LeakAssumption DEF TypeOK, Running, TopN, Size, NoProcess

Ahead(p) == {q \in Running : Before(q, p)}

LEMMA AheadFinite ==
    ASSUME TypeOK, NEW p
    PROVE  IsFiniteSet(Ahead(p)) /\ Cardinality(Ahead(p)) \in Nat
<1>1. Ahead(p) \in SUBSET Pid
  BY Sizes DEF Ahead
<1> QED BY <1>1, LeakAssumption, FS_Subset, FS_CardinalityType

\* Of two processes, the one behind has more processes ahead of it.
LEMMA RankGrows ==
    ASSUME TypeOK, NEW p \in Running, NEW q \in Running, Before(p, q)
    PROVE  Cardinality(Ahead(p)) # Cardinality(Ahead(q))
<1>1. Ahead(p) \subseteq Ahead(q)
  BY Sizes DEF Ahead, Before
<1>2. p \in Ahead(q) /\ p \notin Ahead(p)
  BY Sizes DEF Ahead, Before
<1> QED BY <1>1, <1>2, AheadFinite, FS_Subset

\* The slice is no longer than TrackTopN: ranks differ, and lie below it.
LEMMA SliceBounded ==
    ASSUME TypeOK
    PROVE  IsFiniteSet(TopN) /\ Cardinality(TopN) <= TrackTopN
<1> DEFINE rank == [p \in TopN |-> Cardinality(Ahead(p))]
           ranks == 0..TrackTopN - 1
<1>1. rank \in [TopN -> ranks]
  BY AheadFinite, LeakAssumption DEF TopN, Ahead
<1>2. \A p, q \in TopN : p # q => rank[p] # rank[q]
  <2> SUFFICES ASSUME NEW p \in TopN, NEW q \in TopN, p # q
               PROVE  Cardinality(Ahead(p)) # Cardinality(Ahead(q))
    OBVIOUS
  <2>1. Before(p, q) \/ Before(q, p)
    BY Sizes DEF Before
  <2> QED BY <2>1, Sizes, RankGrows
<1>3. rank \in Injection(TopN, ranks)
  BY <1>1, <1>2 DEF Injection, IsInjective
<1>4. IsFiniteSet(ranks) /\ Cardinality(ranks) = TrackTopN
  BY LeakAssumption, FS_Interval
<1> QED BY <1>3, <1>4, FS_Injection

-----------------------------------------------------------------------------
(* One round *)

LEMMA PushEffect ==
    ASSUME NEW queue \in Seq(Size), Len(queue) <= WindowSize, NEW e \in Size
    PROVE  /\ Push(queue, e) \in Seq(Size)
           /\ Len(queue) < WindowSize =>
                /\ Len(Push(queue, e)) = Len(queue) + 1
                /\ \A i \in 1..Len(queue) + 1 :
                     Push(queue, e)[i] = IF i <= Len(queue) THEN queue[i] ELSE e
           /\ Len(queue) = WindowSize =>
                /\ Len(Push(queue, e)) = WindowSize
                /\ \A i \in 1..WindowSize :
                     Push(queue, e)[i] = IF i < WindowSize THEN queue[i + 1] ELSE e
<1>1. WindowSize \in Nat \ {0} /\ Len(queue) \in Nat
  BY LeakAssumption
<1>2. CASE Len(queue) < WindowSize
  BY <1>1, <1>2 DEF Push
<1>3. CASE Len(queue) = WindowSize
  <2>1. Tail(queue) \in Seq(Size) /\ Len(Tail(queue)) = WindowSize - 1
        /\ \A i \in 1..WindowSize - 1 : Tail(queue)[i] = queue[i + 1]
    BY <1>1, <1>3
  <2> QED BY <1>1, <1>3, <2>1 DEF Push
<1> QED BY <1>1, <1>2, <1>3

\* The window that the contract keeps of the trace.
Slid(sample) ==
    LET longer == Append(trace, sample)
    IN  IF Len(longer) > WindowSize THEN Tail(longer) ELSE longer

LEMMA SlidEffect ==
    ASSUME RunInv, NEW sample \in Samples
    PROVE  /\ Slid(sample) \in Seq(Samples)
           /\ Len(trace) < WindowSize =>
                /\ Len(Slid(sample)) = Len(trace) + 1
                /\ \A i \in 1..Len(trace) + 1 :
                     Slid(sample)[i] = IF i <= Len(trace) THEN trace[i] ELSE sample
           /\ Len(trace) = WindowSize =>
                /\ Len(Slid(sample)) = WindowSize
                /\ \A i \in 1..WindowSize :
                     Slid(sample)[i] = IF i < WindowSize THEN trace[i + 1] ELSE sample
<1> DEFINE longer == Append(trace, sample)
<1>1. WindowSize \in Nat \ {0} /\ Len(trace) \in Nat /\ trace \in Seq(Samples)
  BY LeakAssumption DEF RunInv
<1>2. longer \in Seq(Samples) /\ Len(longer) = Len(trace) + 1
      /\ \A i \in 1..Len(trace) + 1 : longer[i] = IF i <= Len(trace) THEN trace[i] ELSE sample
  BY <1>1
<1>3. CASE Len(trace) < WindowSize
  BY <1>1, <1>2, <1>3 DEF Slid
<1>4. CASE Len(trace) = WindowSize
  <2>1. Slid(sample) = Tail(longer)
    BY <1>1, <1>2, <1>4 DEF Slid
  <2>2. Tail(longer) \in Seq(Samples) /\ Len(Tail(longer)) = WindowSize
        /\ \A i \in 1..WindowSize : Tail(longer)[i] = longer[i + 1]
    BY <1>1, <1>2, <1>4
  <2> QED BY <1>1, <1>2, <1>4, <2>1, <2>2
<1> QED BY <1>1, <1>3, <1>4 DEF RunInv

\* What a round does to the trace and to each queue.
LEMMA RoundEffect ==
    ASSUME TypeOK, NEW listed \in SUBSET Running,
           trace' = Slid([p \in listed |-> size[p]]), history' = Updated(listed)
    PROVE  /\ [p \in listed |-> size[p]] \in Samples
           /\ \A p \in listed : /\ size[p] \in Size /\ history[p] \in Seq(Size)
                                /\ history'[p] = Push(history[p], size[p])
           /\ \A p \in Pid \ listed : history'[p] = <<>>
<1>1. \A p \in listed : p \in Pid /\ size[p] \in Size
  BY Sizes
<1>2. [p \in listed |-> size[p]] \in [listed -> Size] /\ listed \in SUBSET Pid
  BY <1>1
<1> QED BY <1>1, <1>2 DEF Samples, Updated, TypeOK

LEMMA EmptyQueue == Len(<<>>) = 0
OBVIOUS

\* A process that is not listed has an empty queue, and is not in the latest sample.
LEMMA GapIsRun ==
    ASSUME TypeOK, RunInv, NEW listed \in SUBSET Running,
           trace' = Slid([p \in listed |-> size[p]]), history' = Updated(listed),
           NEW p \in Pid \ listed
    PROVE  IsRun(p)'
<1> DEFINE sample == [q \in listed |-> size[q]]
           L == Len(trace')
<1>1. sample \in Samples /\ history'[p] = <<>>
  BY RoundEffect
<1>2. L \in Nat /\ L >= 1 /\ trace'[L] = sample
  <2>1. WindowSize \in Nat \ {0} /\ Len(trace) \in Nat /\ Len(trace) <= WindowSize
    BY LeakAssumption DEF RunInv
  <2>2. trace' = Slid(sample)
    OBVIOUS
  <2> HIDE DEF sample
  <2>3. CASE Len(trace) < WindowSize
    <3>1. L = Len(trace) + 1
      BY <1>1, <2>2, <2>3, SlidEffect
    <3>2. trace'[Len(trace) + 1] = sample
      BY <1>1, <2>1, <2>2, <2>3, SlidEffect
    <3> QED BY <2>1, <3>1, <3>2
  <2>4. CASE Len(trace) = WindowSize
    <3>1. L = WindowSize
      BY <1>1, <2>2, <2>4, SlidEffect
    <3>2. trace'[WindowSize] = sample
      BY <1>1, <2>1, <2>2, <2>4, SlidEffect
    <3> QED BY <2>1, <3>1, <3>2
  <2> QED BY <2>1, <2>3, <2>4
<1>3. Len(history'[p]) = 0 /\ First(p)' = L + 1
  BY <1>1, <1>2, EmptyQueue DEF First
<1>4. p \notin DOMAIN sample
  OBVIOUS
<1> QED BY <1>2, <1>3, <1>4 DEF IsRun, RunOf

\* A process that is listed has its run continued, or started.
LEMMA ListedIsRun ==
    ASSUME TypeOK, RunInv, NEW listed \in SUBSET Running,
           trace' = Slid([p \in listed |-> size[p]]), history' = Updated(listed),
           NEW p \in listed
    PROVE  IsRun(p)'
<1> DEFINE sample == [q \in listed |-> size[q]]
           t == trace
           h == history[p]
           u == trace'
           k == history'[p]
<1>1. /\ p \in Pid /\ sample \in Samples /\ h \in Seq(Size) /\ k = Push(h, size[p])
      /\ size[p] \in Size /\ p \in DOMAIN sample /\ sample[p] = size[p]
  BY RoundEffect, Sizes
<1>2. /\ WindowSize \in Nat \ {0} /\ Len(t) \in Nat /\ Len(t) <= WindowSize
      /\ Len(h) \in Nat /\ Len(h) <= Len(t) /\ Len(h) <= WindowSize
  BY <1>1, LeakAssumption DEF RunInv, IsRun, RunOf, TypeOK
<1>3. /\ \A j \in Len(t) + 1 - Len(h)..Len(t) : p \in DOMAIN t[j]
      /\ Len(t) + 1 - Len(h) > 1 => p \notin DOMAIN t[Len(t) - Len(h)]
      /\ \A i \in 1..Len(h) : h[i] = t[Len(t) - Len(h) + i][p]
  <2>1. IsRun(p)
    BY <1>1 DEF RunInv
  <2>2. First(p) = Len(t) + 1 - Len(h) /\ First(p) - 1 = Len(t) - Len(h)
        /\ \A i \in 1..Len(h) : First(p) + i - 1 = Len(t) - Len(h) + i
    BY <1>2 DEF First
  <2> QED BY <2>1, <2>2 DEF IsRun, RunOf
<1>4. ASSUME /\ Len(k) <= Len(u)
             /\ \A j \in Len(u) + 1 - Len(k)..Len(u) : p \in DOMAIN u[j]
             /\ Len(u) + 1 - Len(k) > 1 => p \notin DOMAIN u[Len(u) + 1 - Len(k) - 1]
             /\ \A i \in 1..Len(k) : k[i] = u[Len(u) + 1 - Len(k) + i - 1][p]
      PROVE  IsRun(p)'
  <2>1. RunOf(k, u, p, Len(u) + 1 - Len(k))
    <3> HIDE DEF t, h, u, k, sample
    <3> DEFINE f == Len(u) + 1 - Len(k)
    <3>2. /\ Len(k) <= Len(u)
          /\ \A j \in f..Len(u) : p \in DOMAIN u[j]
          /\ f > 1 => p \notin DOMAIN u[f - 1]
          /\ \A i \in 1..Len(k) : k[i] = u[f + i - 1][p]
      BY <1>4
    <3> HIDE DEF f
    <3>3. RunOf(k, u, p, f)
      BY <3>2 DEF RunOf
    <3> QED BY <3>3 DEF f
  <2> QED BY <2>1 DEF IsRun, First
<1>p. /\ Len(h) < WindowSize =>
           /\ Len(k) = Len(h) + 1
           /\ \A i \in 1..Len(h) + 1 : k[i] = IF i <= Len(h) THEN h[i] ELSE size[p]
      /\ Len(h) = WindowSize =>
           /\ Len(k) = WindowSize
           /\ \A i \in 1..WindowSize : k[i] = IF i < WindowSize THEN h[i + 1] ELSE size[p]
  <2> HIDE DEF h, k
  <2> DEFINE q == Push(h, size[p])
  <2>1. /\ Len(h) < WindowSize =>
             /\ Len(q) = Len(h) + 1
             /\ \A i \in 1..Len(h) + 1 : q[i] = IF i <= Len(h) THEN h[i] ELSE size[p]
        /\ Len(h) = WindowSize =>
             /\ Len(q) = WindowSize
             /\ \A i \in 1..WindowSize : q[i] = IF i < WindowSize THEN h[i + 1] ELSE size[p]
    <3>1. h \in Seq(Size) /\ Len(h) <= WindowSize /\ size[p] \in Size
      BY <1>1, <1>2
    <3> QED BY <3>1, PushEffect, Zenon
  <2>2. k = q
    BY <1>1
  <2> HIDE DEF q
  <2> QED BY <2>1, <2>2
<1>c. Len(t) < WindowSize \/ (Len(t) = WindowSize /\ Len(h) < WindowSize)
        \/ (Len(t) = WindowSize /\ Len(h) = WindowSize)
  <2> HIDE DEF t, h
  <2> QED BY <1>2
<1>5. CASE Len(t) < WindowSize
  <2>1. /\ Len(u) = Len(t) + 1
        /\ \A i \in 1..Len(t) + 1 : u[i] = IF i <= Len(t) THEN t[i] ELSE sample
    BY <1>1, <1>5, SlidEffect
  <2>2. /\ Len(k) = Len(h) + 1
        /\ \A i \in 1..Len(h) + 1 : k[i] = IF i <= Len(h) THEN h[i] ELSE size[p]
    BY <1>2, <1>5, <1>p
  <2> HIDE DEF t, h, u, k, sample
  <2>3. ASSUME NEW j \in Len(u) + 1 - Len(k)..Len(u) PROVE p \in DOMAIN u[j]
    <3>1. j \in Len(t) + 1 - Len(h)..Len(t) + 1
      BY <1>2, <2>1, <2>2
    <3>2. CASE j <= Len(t)
      <4>1. j \in Len(t) + 1 - Len(h)..Len(t) /\ j \in 1..Len(t) + 1
        BY <1>2, <3>1, <3>2
      <4> QED BY <1>3, <2>1, <3>2, <4>1
    <3>3. CASE j = Len(t) + 1
      BY <1>1, <1>2, <2>1, <3>3
    <3> QED BY <1>2, <3>1, <3>2, <3>3
  <2>4. ASSUME Len(u) + 1 - Len(k) > 1 PROVE p \notin DOMAIN u[Len(u) + 1 - Len(k) - 1]
    <3>1. Len(u) + 1 - Len(k) - 1 = Len(t) - Len(h) /\ Len(t) - Len(h) \in 1..Len(t)
      BY <1>2, <2>1, <2>2, <2>4
    <3>2. u[Len(t) - Len(h)] = t[Len(t) - Len(h)]
      BY <1>2, <2>1, <3>1
    <3>3. p \notin DOMAIN t[Len(t) - Len(h)]
      BY <1>2, <1>3, <3>1
    <3> QED BY <3>1, <3>2, <3>3
  <2>5. ASSUME NEW i \in 1..Len(k) PROVE k[i] = u[Len(u) + 1 - Len(k) + i - 1][p]
    <3>1. Len(u) + 1 - Len(k) + i - 1 = Len(t) - Len(h) + i
      BY <1>2, <2>1, <2>2
    <3>2. CASE i <= Len(h)
      <4>1. i \in 1..Len(h) /\ k[i] = h[i] /\ u[Len(t) - Len(h) + i] = t[Len(t) - Len(h) + i]
        BY <1>2, <2>1, <2>2, <3>2
      <4> QED BY <1>3, <3>1, <4>1
    <3>3. CASE i = Len(h) + 1
      BY <1>1, <1>2, <2>1, <2>2, <3>1, <3>3
    <3> QED BY <1>2, <2>2, <3>2, <3>3
  <2>6. Len(k) <= Len(u)
    BY <1>2, <2>1, <2>2
  <2> USE DEF t, h, u, k, sample
  <2> QED BY <1>4, <2>3, <2>4, <2>5, <2>6
<1>6. CASE Len(t) = WindowSize /\ Len(h) < WindowSize
  <2>1. /\ Len(u) = WindowSize
        /\ \A i \in 1..WindowSize : u[i] = IF i < WindowSize THEN t[i + 1] ELSE sample
    BY <1>1, <1>6, SlidEffect
  <2>2. /\ Len(k) = Len(h) + 1
        /\ \A i \in 1..Len(h) + 1 : k[i] = IF i <= Len(h) THEN h[i] ELSE size[p]
    BY <1>6, <1>p
  <2> HIDE DEF t, h, u, k, sample
  <2>3. \A j \in Len(u) + 1 - Len(k)..Len(u) : p \in DOMAIN u[j]
    BY <1>1, <1>2, <1>3, <1>6, <2>1, <2>2
  <2>4. Len(u) + 1 - Len(k) > 1 => p \notin DOMAIN u[Len(u) + 1 - Len(k) - 1]
    BY <1>1, <1>2, <1>3, <1>6, <2>1, <2>2
  <2>5. ASSUME NEW i \in 1..Len(k) PROVE k[i] = u[Len(u) + 1 - Len(k) + i - 1][p]
    <3>1. Len(u) + 1 - Len(k) + i - 1 = Len(t) - Len(h) + i - 1
      BY <1>2, <1>6, <2>1, <2>2
    <3>2. CASE i <= Len(h)
      <4>1. k[i] = h[i] /\ u[Len(t) - Len(h) + i - 1] = t[Len(t) - Len(h) + i]
        BY <1>2, <1>6, <2>1, <2>2, <3>2
      <4> QED BY <1>2, <1>3, <2>2, <3>1, <3>2, <4>1
    <3>3. CASE i = Len(h) + 1
      BY <1>1, <1>2, <1>6, <2>1, <2>2, <3>1, <3>3
    <3> QED BY <1>2, <2>2, <3>2, <3>3
  <2>6. Len(k) <= Len(u)
    BY <1>2, <1>6, <2>1, <2>2
  <2> USE DEF t, h, u, k, sample
  <2> QED BY <1>4, <2>3, <2>4, <2>5, <2>6
<1>7. CASE Len(t) = WindowSize /\ Len(h) = WindowSize
  <2>1. /\ Len(u) = WindowSize
        /\ \A i \in 1..WindowSize : u[i] = IF i < WindowSize THEN t[i + 1] ELSE sample
    BY <1>1, <1>7, SlidEffect
  <2>2. /\ Len(k) = WindowSize
        /\ \A i \in 1..WindowSize : k[i] = IF i < WindowSize THEN h[i + 1] ELSE size[p]
    BY <1>7, <1>p
  <2> HIDE DEF t, h, u, k, sample
  <2>3. \A j \in 1..WindowSize : p \in DOMAIN u[j]
    BY <1>1, <1>2, <1>3, <1>7, <2>1
  <2>4. ASSUME NEW i \in 1..WindowSize PROVE k[i] = u[i][p]
    <3>1. CASE i < WindowSize
      <4>1. h[i + 1] = t[Len(t) - Len(h) + (i + 1)][p] /\ Len(t) - Len(h) + (i + 1) = i + 1
        BY <1>2, <1>3, <1>7, <3>1
      <4> QED BY <2>1, <2>2, <3>1, <4>1
    <3>2. CASE i = WindowSize
      BY <1>1, <2>1, <2>2, <3>2
    <3> QED BY <1>2, <3>1, <3>2
  <2>5. Len(u) + 1 - Len(k) = 1 /\ \A i \in 1..WindowSize : Len(u) + 1 - Len(k) + i - 1 = i
    BY <1>2, <2>1, <2>2
  <2>6. /\ Len(k) <= Len(u)
        /\ \A j \in Len(u) + 1 - Len(k)..Len(u) : p \in DOMAIN u[j]
        /\ Len(u) + 1 - Len(k) > 1 => p \notin DOMAIN u[Len(u) + 1 - Len(k) - 1]
        /\ \A i \in 1..Len(k) : k[i] = u[Len(u) + 1 - Len(k) + i - 1][p]
    BY <1>2, <2>1, <2>2, <2>3, <2>4, <2>5
  <2> USE DEF t, h, u, k, sample
  <2> QED BY <1>4, <2>6
<1> QED BY <1>c, <1>5, <1>6, <1>7

LEMMA RoundNext ==
    ASSUME TypeOK, RunInv, AnalyzeLeaks
    PROVE  TypeOK' /\ TrackedBounded' /\ RunInv'
<1>1. PICK listed \in {TopN, {}} :
        /\ history' = Updated(listed)
        /\ suspects' = {p \in listed : IsSuspect(history'[p])}
        /\ trace' = Slid([p \in listed |-> size[p]])
        /\ UNCHANGED size
  BY DEF AnalyzeLeaks, Slid
<1>2. listed \in SUBSET Running /\ listed \subseteq Pid
  BY Sizes
<1>3. ASSUME NEW p \in Pid
      PROVE  history'[p] \in Seq(Size) /\ Len(history'[p]) <= WindowSize
  <2>1. CASE p \in listed
    <3>1. history[p] \in Seq(Size) /\ Len(history[p]) <= WindowSize /\ size[p] \in Size
          /\ history'[p] = Push(history[p], size[p])
      BY <1>1, <1>2, <2>1, RoundEffect DEF TypeOK
    <3>2. Len(history[p]) \in Nat /\ WindowSize \in Nat
      BY <3>1, LeakAssumption
    <3> HIDE DEF Size
    <3>3. Push(history[p], size[p]) \in Seq(Size) /\ Len(Push(history[p], size[p])) <= WindowSize
      <4>1. CASE Len(history[p]) < WindowSize
        BY <3>1, <3>2, <4>1, PushEffect
      <4>2. CASE Len(history[p]) = WindowSize
        BY <3>1, <3>2, <4>2, PushEffect
      <4> QED BY <3>1, <3>2, <4>1, <4>2
    <3> QED BY <3>1, <3>3
  <2>2. CASE p \notin listed
    <3>1. history'[p] = <<>>
      BY <1>1, <1>2, <2>2, RoundEffect
    <3>2. <<>> \in Seq(Size)
      OBVIOUS
    <3>3. Len(history'[p]) = 0 /\ 0 <= WindowSize
      BY <3>1, EmptyQueue, LeakAssumption
    <3> QED BY <3>1, <3>2, <3>3
  <2> QED BY <2>1, <2>2
<1>4. TypeOK'
  <2>1. DOMAIN history' = Pid /\ history' = [p \in Pid |-> history'[p]]
    BY <1>1 DEF Updated
  <2>2. history' \in [Pid -> Seq(Size)]
    BY <1>3, <2>1
  <2>3. suspects' \subseteq Pid
    BY <1>1, <1>2
  <2> QED BY <1>1, <1>3, <2>2, <2>3 DEF TypeOK
<1>5. TrackedBounded'
  <2> DEFINE tracked == {p \in Pid : history'[p] # <<>>}
  <2>1. tracked \subseteq listed
    BY <1>1, <1>2, RoundEffect
  <2>2. IsFiniteSet(TopN) /\ Cardinality(TopN) <= TrackTopN /\ tracked \in SUBSET TopN
    BY <2>1, SliceBounded
  <2>3. Cardinality(tracked) <= Cardinality(TopN) /\ IsFiniteSet(tracked)
    BY <2>2, FS_Subset
  <2>4. Cardinality(tracked) <= TrackTopN
    <3> HIDE DEF tracked
    <3> QED BY <2>2, <2>3, FS_CardinalityType, LeakAssumption
  <2> QED BY <2>4 DEF TrackedBounded
<1>6. RunInv'
  <2>1. \A p \in Pid : IsRun(p)'
    BY <1>1, <1>2, ListedIsRun, GapIsRun
  <2>2. [p \in listed |-> size[p]] \in Samples
    BY <1>1, <1>2, RoundEffect
  <2>3. trace' \in Seq(Samples) /\ Len(trace') <= WindowSize
    <3> DEFINE sample == [p \in listed |-> size[p]]
    <3>1. Len(trace) \in Nat /\ WindowSize \in Nat /\ Len(trace) <= WindowSize
      BY LeakAssumption DEF RunInv
    <3> HIDE DEF sample
    <3>2. Slid(sample) \in Seq(Samples) /\ Len(Slid(sample)) <= WindowSize
      <4>1. CASE Len(trace) < WindowSize
        BY <2>2, <3>1, <4>1, SlidEffect DEF sample
      <4>2. CASE Len(trace) = WindowSize
        BY <2>2, <3>1, <4>2, SlidEffect DEF sample
      <4> QED BY <3>1, <4>1, <4>2
    <3> QED BY <1>1, <3>2 DEF sample
  <2> QED BY <2>1, <2>3 DEF RunInv
<1> QED BY <1>4, <1>5, <1>6

LEMMA HostNext ==
    ASSUME Inv, \/ \E p \in Pid : Start(p) \/ Resize(p) \/ Stop(p)
                \/ UNCHANGED vars
    PROVE  Inv'
<1>1. UNCHANGED <<history, suspects, trace>>
  BY DEF Start, Resize, Stop, vars
<1>2. size' \in [Pid -> Size \union {NoProcess}]
  <2>1. CASE UNCHANGED vars
    BY <2>1 DEF Inv, TypeOK, vars
  <2>2. ASSUME NEW p \in Pid, Start(p) \/ Resize(p) \/ Stop(p)
        PROVE  \E s \in Size \union {NoProcess} : size' = [size EXCEPT ![p] = s]
    BY <2>2 DEF Start, Resize, Stop
  <2> QED BY <2>1, <2>2 DEF Inv, TypeOK
<1>3. TypeOK' /\ TrackedBounded'
  BY <1>1, <1>2 DEF Inv, TypeOK, TrackedBounded
<1>4. RunInv'
  BY <1>1 DEF Inv, RunInv, IsRun, First
<1> QED BY <1>3, <1>4 DEF Inv

-----------------------------------------------------------------------------
(* The theorems *)

\* The contract's start of a run is the only place where one can start.
LEMMA StartIsFirst ==
    ASSUME TypeOK, RunInv, NEW p \in Pid PROVE Contract!RunStart(trace, p) = First(p)
<1> DEFINE Begins(i) == /\ \A j \in i..Len(trace) : p \in DOMAIN trace[j]
                        /\ i > 1 => p \notin DOMAIN trace[i - 1]
<1>1. Len(trace) \in Nat /\ Len(history[p]) \in Nat /\ IsRun(p)
  BY DEF TypeOK, RunInv
<1>2. First(p) \in 1..Len(trace) + 1 /\ Begins(First(p))
  <2>1. Len(history[p]) <= Len(trace)
    BY <1>1 DEF IsRun, RunOf
  <2>2. First(p) \in 1..Len(trace) + 1
    <3>1. \A a, b \in Nat : b <= a => a + 1 - b \in 1..a + 1
      OBVIOUS
    <3> QED BY <1>1, <2>1, <3>1 DEF First
  <2> QED BY <1>1, <2>2 DEF IsRun, RunOf
<1>3. ASSUME NEW i \in 1..Len(trace) + 1, NEW k \in 1..Len(trace) + 1, Begins(i), Begins(k), i < k
      PROVE  FALSE
  <2>1. k - 1 \in i..Len(trace) /\ k > 1
    BY <1>1, <1>3
  <2> QED BY <1>3, <2>1
<1> HIDE DEF Begins
<1>4. \A i \in 1..Len(trace) + 1 : Begins(i) => i = First(p)
  BY <1>1, <1>2, <1>3
<1>5. (CHOOSE i \in 1..Len(trace) + 1 : Begins(i)) = First(p)
  BY <1>2, <1>4
<1> QED BY <1>5 DEF Begins, Contract!RunStart

LEMMA InvInit == Init => Inv
<1> SUFFICES ASSUME Init PROVE Inv
  OBVIOUS
<1>1. TypeOK
  BY EmptyQueue, LeakAssumption DEF Init, TypeOK
<1>2. TrackedBounded
  <2>1. {p \in Pid : history[p] # <<>>} = {}
    BY DEF Init
  <2>2. Cardinality({p \in Pid : history[p] # <<>>}) = 0
    BY <2>1, FS_EmptySet
  <2> QED BY <2>2, LeakAssumption DEF TrackedBounded
<1>3. RunInv
  <2>1. trace = <<>> /\ Len(trace) = 0 /\ \A p \in Pid : Len(history[p]) = 0
    BY EmptyQueue DEF Init
  <2>2. \A p \in Pid : First(p) = 1
    BY <2>1 DEF First
  <2> QED BY <2>1, <2>2, LeakAssumption DEF RunInv, IsRun, RunOf
<1> QED BY <1>1, <1>2, <1>3 DEF Inv

LEMMA InvHolds == Spec => []Inv
<1>1. Inv /\ [Next]_vars => Inv'
  BY RoundNext, HostNext DEF Inv, Next
<1> QED BY <1>1, InvInit, PTL DEF Spec

\* Type correctness: no queue is longer than the window.
THEOREM TypeOKHolds == Spec => []TypeOK
<1>1. Inv => TypeOK
  BY DEF Inv
<1> QED BY <1>1, InvHolds, PTL

\* The memory of the detector is bounded, for any number of processes on the host.
THEOREM TrackingIsBounded == Spec => []TrackedBounded
<1>1. Inv => TrackedBounded
  BY DEF Inv
<1> QED BY <1>1, InvHolds, PTL

\* Every queue is the recent run of its pid in the contract's trace.
THEOREM QueuesAreRecentRuns == Spec => []QueueIsRecentRun
<1>1. ASSUME Inv PROVE QueueIsRecentRun
  <2> SUFFICES ASSUME NEW p \in Pid
               PROVE  /\ Len(history[p]) = Len(trace) + 1 - Contract!RunStart(trace, p)
                      /\ \A i \in 1..Len(history[p]) :
                           history[p][i] = trace[Contract!RunStart(trace, p) + i - 1][p]
    BY DEF QueueIsRecentRun
  <2>1. Contract!RunStart(trace, p) = First(p)
    BY <1>1, StartIsFirst DEF Inv
  <2>2. Len(trace) \in Nat /\ Len(history[p]) \in Nat /\ IsRun(p)
    BY <1>1 DEF Inv, TypeOK, RunInv
  <2>3. Len(history[p]) = Len(trace) + 1 - First(p)
    BY <2>2 DEF First
  <2> QED BY <2>1, <2>2, <2>3 DEF IsRun, RunOf
<1> QED BY <1>1, InvHolds, PTL

-----------------------------------------------------------------------------
(* The loop over a queue *)

\* Any nonempty set of naturals has a least element.
LEMMA LeastNat ==
    ASSUME NEW B \in SUBSET Nat, B # {}
    PROVE  \E n \in B : \A m \in B : n <= m
<1>1. \E n \in B : \A m \in B : ~(<<m, n>> \in OpToRel(<, Nat))
  BY NatLessThanWellFounded, WFMin
<1>2. \A m, n \in Nat : m < n => <<m, n>> \in OpToRel(<, Nat)
  BY DEF OpToRel
<1>3. PICK n \in B : \A m \in B : ~(<<m, n>> \in OpToRel(<, Nat))
  BY <1>1
<1>4. \A m \in B : ~(m < n)
  BY <1>2, <1>3
<1> QED BY <1>4

Rises(queue, i) == i > 1 /\ queue[i] > queue[i - 1]

\* The values the loop's counter takes.
IsCount(count, queue) ==
    count = [i \in 1..Len(queue) |-> IF Rises(queue, i) THEN count[i - 1] + 1 ELSE 0]

LEMMA IncreasesUnfolds ==
    ASSUME NEW queue
    PROVE  Increases(queue) = (CHOOSE count : IsCount(count, queue))[Len(queue)]
BY DEF Increases, IsCount, Rises

\* The distances from i back to a sample that did not rise: the counter is the least.
Falls(queue, i) == {d \in 0..i - 1 : ~Rises(queue, i - d)}
Nearest(queue, i) ==
    CHOOSE d \in Falls(queue, i) : \A e \in Falls(queue, i) : d <= e

LEMMA CountExists ==
    ASSUME NEW queue, Len(queue) \in Nat
    PROVE  \E count : IsCount(count, queue)
<1> DEFINE count == [i \in 1..Len(queue) |-> Nearest(queue, i)]
<1>1. ASSUME NEW i \in 1..Len(queue)
      PROVE  /\ Nearest(queue, i) \in Falls(queue, i)
             /\ \A e \in Falls(queue, i) : Nearest(queue, i) <= e
  <2>1. i - 1 \in Falls(queue, i)
    BY DEF Falls, Rises
  <2>2. Falls(queue, i) \in SUBSET Nat
    BY DEF Falls
  <2>3. \E d \in Falls(queue, i) : \A e \in Falls(queue, i) : d <= e
    BY <2>1, <2>2, LeastNat
  <2> QED BY <2>3 DEF Nearest
<1>2. ASSUME NEW i \in 1..Len(queue), ~Rises(queue, i)
      PROVE  Nearest(queue, i) = 0
  <2>1. 0 \in Falls(queue, i)
    BY <1>2 DEF Falls
  <2> QED BY <1>1, <2>1 DEF Falls
<1>3. ASSUME NEW i \in 1..Len(queue), Rises(queue, i)
      PROVE  i - 1 \in 1..Len(queue) /\ Nearest(queue, i) = Nearest(queue, i - 1) + 1
  <2>1. i - 1 \in 1..Len(queue)
    BY <1>3 DEF Rises
  <2>2. ASSUME NEW d \in Falls(queue, i) PROVE d - 1 \in Falls(queue, i - 1)
    <3>1. d # 0
      BY <1>3 DEF Falls
    <3>2. (i - 1) - (d - 1) = i - d
      BY DEF Falls
    <3> QED BY <3>1, <3>2 DEF Falls
  <2>3. ASSUME NEW d \in Falls(queue, i - 1) PROVE d + 1 \in Falls(queue, i)
    <3>1. i - (d + 1) = (i - 1) - d
      BY DEF Falls
    <3> QED BY <2>1, <3>1 DEF Falls
  <2> DEFINE a == Nearest(queue, i)
             b == Nearest(queue, i - 1)
  <2>4. a \in Falls(queue, i) /\ b \in Falls(queue, i - 1) /\ a \in Int /\ b \in Int
    BY <1>1, <2>1 DEF Falls
  <2>5. b <= a - 1 /\ a <= b + 1
    BY <1>1, <2>1, <2>2, <2>3, <2>4
  <2> HIDE DEF a, b
  <2>6. a = b + 1
    BY <2>4, <2>5
  <2> QED BY <2>1, <2>6 DEF a, b
<1>4. ASSUME NEW i \in 1..Len(queue)
      PROVE  Nearest(queue, i) = IF Rises(queue, i) THEN count[i - 1] + 1 ELSE 0
  BY <1>2, <1>3
<1>5. IsCount(count, queue)
  BY <1>4 DEF IsCount
<1> QED BY <1>5

\* The counter at m is k or more when the latest k samples up to m all rose.
Counts(count, queue, m) ==
    /\ count[m] \in Nat
    /\ \A k \in 0..m : count[m] >= k <=> \A i \in m - k + 1..m : Rises(queue, i)

LEMMA CountStep ==
    ASSUME NEW queue, Len(queue) \in Nat, NEW count, IsCount(count, queue),
           NEW m \in 1..Len(queue), m > 1 => Counts(count, queue, m - 1)
    PROVE  Counts(count, queue, m)
<1>1. count[m] = IF Rises(queue, m) THEN count[m - 1] + 1 ELSE 0
  BY DEF IsCount
<1>2. CASE ~Rises(queue, m)
  <2>1. count[m] = 0
    BY <1>1, <1>2
  <2>2. ASSUME NEW k \in 0..m
        PROVE  count[m] >= k <=> \A i \in m - k + 1..m : Rises(queue, i)
    <3>1. CASE k = 0
      BY <2>1, <3>1
    <3>2. CASE k # 0
      <4>1. m \in m - k + 1..m /\ ~(count[m] >= k)
        BY <2>1, <3>2
      <4> QED BY <1>2, <4>1
    <3> QED BY <3>1, <3>2
  <2> QED BY <2>1, <2>2 DEF Counts
<1>3. CASE Rises(queue, m)
  <2>1. m > 1
    BY <1>3 DEF Rises
  <2>2. /\ count[m - 1] \in Nat
        /\ \A k \in 0..m - 1 :
             count[m - 1] >= k <=> \A i \in (m - 1) - k + 1..m - 1 : Rises(queue, i)
    BY <2>1 DEF Counts
  <2>3. count[m] = count[m - 1] + 1
    BY <1>1, <1>3
  <2>4. ASSUME NEW k \in 0..m
        PROVE  count[m] >= k <=> \A i \in m - k + 1..m : Rises(queue, i)
    <3>1. CASE k = 0
      BY <2>2, <2>3, <3>1
    <3>2. CASE k # 0
      <4>1. k - 1 \in 0..m - 1 /\ (m - 1) - (k - 1) + 1 = m - k + 1
        BY <3>2
      <4>2. count[m] >= k <=> count[m - 1] >= k - 1
        BY <2>2, <2>3
      <4>3. count[m - 1] >= k - 1 <=> \A i \in m - k + 1..m - 1 : Rises(queue, i)
        BY <2>2, <4>1
      <4>4. \A i \in m - k + 1..m : i = m \/ i \in m - k + 1..m - 1
        OBVIOUS
      <4>5. \A i \in m - k + 1..m - 1 : i \in m - k + 1..m
        OBVIOUS
      <4> QED BY <1>3, <4>2, <4>3, <4>4, <4>5
    <3> QED BY <3>1, <3>2
  <2> QED BY <2>2, <2>3, <2>4 DEF Counts
<1> QED BY <1>2, <1>3

\* Induction over the queue, by the least sample that would be an exception.
LEMMA CountIsRise ==
    ASSUME NEW queue, Len(queue) \in Nat, NEW count, IsCount(count, queue),
           NEW m \in 1..Len(queue)
    PROVE  Counts(count, queue, m)
<1> DEFINE Wrong == {i \in 1..Len(queue) : ~Counts(count, queue, i)}
<1>1. CASE Wrong # {}
  <2>1. Wrong \in SUBSET Nat
    OBVIOUS
  <2>2. PICK i \in Wrong : \A j \in Wrong : i <= j
    BY <1>1, <2>1, LeastNat
  <2>3. i > 1 => i - 1 \in 1..Len(queue) /\ i - 1 \notin Wrong
    BY <2>2
  <2>4. i > 1 => Counts(count, queue, i - 1)
    BY <2>3
  <2>5. Counts(count, queue, i)
    BY <2>4, CountStep
  <2> QED BY <2>2, <2>5
<1> QED BY <1>1

\* What the loop finds: Threshold - 1 increases or more end at the last sample.
LEMMA IncreasesMeaning ==
    ASSUME NEW queue \in Seq(Size), Len(queue) >= Threshold
    PROVE  Increases(queue) >= Threshold - 1 <=>
           \A i \in Len(queue) - Threshold + 2..Len(queue) : queue[i] > queue[i - 1]
<1> DEFINE count == CHOOSE c : IsCount(c, queue)
           n == Len(queue)
<1>1. Threshold \in Nat \ {0} /\ n \in Nat /\ n \in 1..n /\ Threshold - 1 \in 0..n
  BY LeakAssumption
<1>2. IsCount(count, queue)
  BY <1>1, CountExists
<1> HIDE DEF count
<1>3. Counts(count, queue, n)
  BY <1>1, <1>2, CountIsRise
<1>4. Increases(queue) = count[n]
  BY IncreasesUnfolds DEF count
<1>5. Increases(queue) >= Threshold - 1 <=>
      \A i \in n - (Threshold - 1) + 1..n : Rises(queue, i)
  BY <1>1, <1>3, <1>4 DEF Counts
<1>6. n - (Threshold - 1) + 1 = n - Threshold + 2
  BY <1>1
<1>7. \A i \in n - Threshold + 2..n : Rises(queue, i) <=> queue[i] > queue[i - 1]
  BY <1>1 DEF Rises
<1> QED BY <1>5, <1>6, <1>7

-----------------------------------------------------------------------------
(* The contract *)

\* A queue is flagged when the contract flags its pid.
JudgedAlike == \A p \in Pid : IsSuspect(history[p]) <=> Contract!Grew(trace, p)

LEMMA InvJudgedAlike == Inv => JudgedAlike
<1> SUFFICES ASSUME Inv, NEW p \in Pid
             PROVE  IsSuspect(history[p]) <=> Contract!Grew(trace, p)
  BY DEF JudgedAlike
<1> DEFINE h == history[p]
           t == trace
           n == Len(t)
           first == First(p)
<1>1. /\ h \in Seq(Size) /\ Len(h) \in Nat /\ n \in Nat /\ Len(h) <= n /\ first = n + 1 - Len(h)
      /\ \A i \in 1..Len(h) : h[i] = t[first + i - 1][p]
  BY DEF Inv, TypeOK, RunInv, IsRun, RunOf, First
<1>2. Contract!RunStart(trace, p) = first
  BY StartIsFirst DEF Inv
<1>3. Contract!Grew(trace, p) <=>
        /\ n - first + 1 >= Threshold
        /\ \A i \in n - Threshold + 2..n : t[i][p] > t[i - 1][p]
        /\ t[n][p] >= t[first][p] + MinGrowth
  BY <1>2 DEF Contract!Grew
<1>4. Threshold \in Nat \ {0}
  BY LeakAssumption
<1> HIDE DEF h, t, n, first
<1>5. n - first + 1 = Len(h)
  BY <1>1
<1>6. CASE ~(Len(h) >= Threshold)
  BY <1>3, <1>5, <1>6 DEF IsSuspect, h
<1>7. CASE Len(h) >= Threshold
  <2>1. Increases(h) >= Threshold - 1 <=>
        \A i \in Len(h) - Threshold + 2..Len(h) : h[i] > h[i - 1]
    BY <1>1, <1>7, IncreasesMeaning
  <2>2. ASSUME NEW i \in Len(h) - Threshold + 2..Len(h)
        PROVE  h[i] = t[first + i - 1][p] /\ h[i - 1] = t[first + i - 2][p]
    <3>1. first \in Int /\ Len(h) \in Nat
      BY <1>1
    <3>2. i \in 1..Len(h) /\ i - 1 \in 1..Len(h)
      BY <1>4, <1>7, <3>1
    <3>3. first + (i - 1) - 1 = first + i - 2
      BY <3>1
    <3> QED BY <1>1, <3>2, <3>3
  <2>3. ASSUME NEW j \in n - Threshold + 2..n
        PROVE  /\ j - first + 1 \in Len(h) - Threshold + 2..Len(h)
               /\ first + (j - first + 1) - 1 = j /\ first + (j - first + 1) - 2 = j - 1
    BY <1>1, <1>4
  <2>4. ASSUME NEW i \in Len(h) - Threshold + 2..Len(h)
        PROVE  first + i - 1 \in n - Threshold + 2..n /\ (first + i - 1) - 1 = first + i - 2
    BY <1>1, <1>4
  <2>5. (\A i \in Len(h) - Threshold + 2..Len(h) : h[i] > h[i - 1]) <=>
        (\A j \in n - Threshold + 2..n : t[j][p] > t[j - 1][p])
    <3>1. ASSUME \A i \in Len(h) - Threshold + 2..Len(h) : h[i] > h[i - 1],
                 NEW j \in n - Threshold + 2..n
          PROVE  t[j][p] > t[j - 1][p]
      <4> DEFINE i == j - first + 1
      <4>1. i \in Len(h) - Threshold + 2..Len(h) /\ first + i - 1 = j /\ first + i - 2 = j - 1
        BY <2>3
      <4> HIDE DEF i
      <4>2. h[i] > h[i - 1] /\ h[i] = t[j][p] /\ h[i - 1] = t[j - 1][p]
        BY <2>2, <3>1, <4>1
      <4> QED BY <4>2
    <3>2. ASSUME \A j \in n - Threshold + 2..n : t[j][p] > t[j - 1][p],
                 NEW i \in Len(h) - Threshold + 2..Len(h)
          PROVE  h[i] > h[i - 1]
      <4> DEFINE j == first + i - 1
      <4>1. j \in n - Threshold + 2..n /\ j - 1 = first + i - 2
        BY <2>4
      <4>2. h[i] = t[j][p] /\ h[i - 1] = t[first + i - 2][p]
        BY <2>2
      <4> HIDE DEF j
      <4>3. t[j][p] > t[j - 1][p]
        BY <3>2, <4>1
      <4> QED BY <4>1, <4>2, <4>3
    <3> QED BY <3>1, <3>2
  <2>6. h[Len(h)] = t[n][p] /\ h[1] = t[first][p]
    <3>1. first \in Int /\ Len(h) \in Nat /\ n \in Nat /\ first = n + 1 - Len(h)
      BY <1>1
    <3>2. 1 \in 1..Len(h) /\ Len(h) \in 1..Len(h)
      BY <1>4, <1>7, <3>1
    <3>3. first + Len(h) - 1 = n /\ first + 1 - 1 = first
      BY <3>1
    <3> QED BY <1>1, <3>2, <3>3
  <2>7. IsSuspect(h) <=> /\ Increases(h) >= Threshold - 1
                         /\ h[Len(h)] >= h[1] + MinGrowth
    BY <1>7 DEF IsSuspect
  <2>8. IsSuspect(h) <=> Contract!Grew(trace, p)
    BY <1>3, <1>5, <1>7, <2>1, <2>5, <2>6, <2>7
  <2> QED BY <2>8 DEF h
<1> QED BY <1>6, <1>7

LEMMA RoundMeetsContract ==
    ASSUME Inv, AnalyzeLeaks, JudgedAlike'
    PROVE  Contract!Next
<1>1. PICK listed \in {TopN, {}} :
        /\ history' = Updated(listed)
        /\ suspects' = {p \in listed : IsSuspect(history'[p])}
        /\ trace' = Slid([p \in listed |-> size[p]])
  BY DEF AnalyzeLeaks, Slid
<1> DEFINE sample == [p \in listed |-> size[p]]
<1>2. listed \in SUBSET Running /\ listed \subseteq Pid
  BY Sizes DEF Inv
<1>3. sample \in Samples /\ \A p \in Pid \ listed : history'[p] = <<>>
  BY <1>1, <1>2, RoundEffect DEF Inv
<1>4. ~IsSuspect(<<>>)
  BY EmptyQueue, LeakAssumption DEF IsSuspect
<1>5. \A p \in Pid : IsSuspect(history'[p]) <=> Contract!Grew(trace', p)
  BY DEF JudgedAlike
<1>6. suspects' = {p \in Pid : Contract!Grew(trace', p)}
  BY <1>1, <1>2, <1>3, <1>4, <1>5
<1>7. sample \in Contract!Sample
  BY <1>3 DEF Contract!Sample, Samples
<1> HIDE DEF sample
<1>8. trace' = Slid(sample)
  BY <1>1 DEF sample
<1> QED BY <1>6, <1>7, <1>8 DEF Contract!Next, Slid

\* The detector implements its contract: with one bounded queue per tracked pid it
\* flags, after every round, exactly the processes that the samples themselves show
\* to have grown.
THEOREM DetectorMeetsContract == Spec => MeetsLeakContract
<1>1. Init => Contract!Init
  BY DEF Init, Contract!Init
<1>2. Inv /\ JudgedAlike' /\ [Next]_vars => [Contract!Next]_<<trace, suspects>>
  <2> SUFFICES ASSUME Inv, JudgedAlike', [Next]_vars
               PROVE  Contract!Next \/ UNCHANGED <<trace, suspects>>
    OBVIOUS
  <2>1. CASE AnalyzeLeaks
    BY <2>1, RoundMeetsContract
  <2>2. CASE \E p \in Pid : Start(p) \/ Resize(p) \/ Stop(p)
    BY <2>2 DEF Start, Resize, Stop
  <2>3. CASE UNCHANGED vars
    BY <2>3 DEF vars
  <2> QED BY <2>1, <2>2, <2>3 DEF Next
<1> QED BY <1>1, <1>2, InvHolds, InvJudgedAlike, PTL DEF Spec, MeetsLeakContract, Contract!Spec

-----------------------------------------------------------------------------
(***************************************************************************)
(* What being flagged means for the process.                               *)
(***************************************************************************)

\* From sample i to sample j the queue rises by one or more at each step.
Climbs(queue, from, to) ==
    \A i, j \in from..to : i <= j => queue[j] >= queue[i] + (j - i)

LEMMA RisesClimb ==
    ASSUME NEW queue \in Seq(Size), NEW from \in 1..Len(queue),
           \A i \in from + 1..Len(queue) : queue[i] > queue[i - 1]
    PROVE  Climbs(queue, from, Len(queue))
<1> DEFINE n == Len(queue)
<1>1. n \in Nat /\ from \in Nat /\ 1 <= from /\ from <= n
  OBVIOUS
<1>2. \A i \in 1..n : queue[i] \in Nat
  BY LeakAssumption DEF Size
<1> SUFFICES ASSUME NEW i \in from..n, NEW k \in from..n, i <= k
             PROVE  queue[k] >= queue[i] + (k - i)
  BY DEF Climbs
<1> DEFINE Bad == {j \in i..n : ~(queue[j] >= queue[i] + (j - i))}
<1>3. CASE Bad # {}
  <2>1. Bad \in SUBSET Nat
    BY <1>1
  <2>2. PICK j \in Bad : \A m \in Bad : j <= m
    BY <1>3, <2>1, LeastNat
  <2>3. j \in i..n /\ ~(queue[j] >= queue[i] + (j - i))
    OBVIOUS
  <2>4. queue[i] \in Nat /\ queue[j] \in Nat /\ i \in Nat /\ j \in Nat
    BY <1>1, <1>2, <2>3
  <2>5. j # i
    BY <2>3, <2>4
  <2>6. j - 1 \in i..n /\ j \in from + 1..n /\ j - 1 \in 1..n
    BY <1>1, <2>3, <2>4, <2>5
  <2>7. queue[j - 1] >= queue[i] + ((j - 1) - i)
    <3>1. j - 1 \notin Bad
      BY <2>2, <2>4
    <3> QED BY <2>6, <3>1
  <2>8. queue[j] > queue[j - 1] /\ queue[j - 1] \in Nat
    BY <1>2, <2>6
  <2>9. ~(queue[j] >= queue[i] + (j - i))
    BY <2>3
  <2> HIDE DEF n, Bad
  <2> QED BY <2>4, <2>7, <2>8, <2>9
<1>4. CASE Bad = {}
  <2>1. k \in i..n
    BY <1>1
  <2>2. k \notin Bad
    BY <1>4
  <2> QED BY <2>1, <2>2
<1> QED BY <1>3, <1>4

\* The latest Threshold samples of a flagged process.
Climbing(queue) ==
    /\ Len(queue) >= Threshold
    /\ Climbs(queue, Len(queue) - Threshold + 1, Len(queue))
    /\ queue[Len(queue)] >= queue[1] + MinGrowth

SuspectsClimb == \A p \in suspects : Climbing(history[p])

Flagged == \A p \in suspects : IsSuspect(history[p])

\* A process is only flagged when each of its latest Threshold samples exceeds every
\* earlier one of them, by as much as they are apart, and the last exceeds the first
\* of the queue by MinGrowth: one dip or one standstill among them clears it,
\* however much it has grown.
THEOREM FlaggedHaveClimbed == Spec => []SuspectsClimb
<1>1. Init => Flagged
  BY DEF Init, Flagged
<1>2. Inv /\ Flagged /\ [Next]_vars => Flagged'
  <2> SUFFICES ASSUME Inv, Flagged, [Next]_vars PROVE Flagged'
    OBVIOUS
  <2>1. CASE AnalyzeLeaks
    <3>1. PICK listed \in {TopN, {}} : suspects' = {p \in listed : IsSuspect(history'[p])}
      BY <2>1 DEF AnalyzeLeaks
    <3>2. \A p \in suspects' : IsSuspect(history'[p])
      BY <3>1
    <3> QED BY <3>2 DEF Flagged
  <2>2. CASE (\E p \in Pid : Start(p) \/ Resize(p) \/ Stop(p)) \/ UNCHANGED vars
    BY <2>2 DEF Start, Resize, Stop, vars, Flagged
  <2> QED BY <2>1, <2>2 DEF Next
<1>3. Inv /\ Flagged => SuspectsClimb
  <2> SUFFICES ASSUME Inv, Flagged, NEW p \in suspects PROVE Climbing(history[p])
    BY DEF SuspectsClimb
  <2> DEFINE queue == history[p]
  <2>1. queue \in Seq(Size) /\ IsSuspect(queue)
    BY DEF Inv, TypeOK, Flagged
  <2>2. Threshold \in Nat \ {0} /\ Len(queue) \in Nat /\ Len(queue) >= Threshold
    BY <2>1, LeakAssumption DEF IsSuspect
  <2> HIDE DEF queue
  <2>3. \A i \in Len(queue) - Threshold + 2..Len(queue) : queue[i] > queue[i - 1]
    BY <2>1, <2>2, IncreasesMeaning DEF IsSuspect
  <2>4. Climbs(queue, Len(queue) - Threshold + 1, Len(queue))
    <3>1. Len(queue) - Threshold + 1 \in 1..Len(queue)
      BY <2>2
    <3>2. (Len(queue) - Threshold + 1) + 1 = Len(queue) - Threshold + 2
      BY <2>2
    <3> QED BY <2>1, <2>3, <3>1, <3>2, RisesClimb
  <2>5. Climbing(queue)
    BY <2>1, <2>2, <2>4 DEF Climbing, IsSuspect
  <2> QED BY <2>5 DEF queue
<1> QED BY <1>1, <1>2, <1>3, InvHolds, PTL DEF Spec

=============================================================================
