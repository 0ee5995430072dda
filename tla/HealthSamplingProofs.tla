------------------------ MODULE HealthSamplingProofs ------------------------
(***************************************************************************)
(* What HealthSampling checks, for any mountpoints, percentages, loads,    *)
(* thresholds and lengths of time. Two invariants: one on the tick counts, *)
(* on which the type of a utilization rests, and one that compares, after  *)
(* every reading, what the statuses and the alerts say with the readings.  *)
(***************************************************************************)
EXTENDS HealthSampling, TLAPS

\* What the baseline knows of the counters: neither it nor what was counted is
\* ahead of them, except for an idle counter that has gone back.
TickInv ==
    /\ baseline = NoReading => counted = 0
    /\ pc = "again" => baseline # NoReading
    /\ baseline # NoReading =>
         /\ baseline.busy <= ticks.busy
         /\ setBack \/ baseline.idle <= ticks.idle
    /\ TicksCountedOnce

\* The gravest status and the gravest alert are what the readings call for.
Critical == Reached("critical")
Warned   == Reached("warning") \/ <<"leak", "WARNING">> \in alerts
Judged ==
    /\ (\E c \in Collector : status[c] = "CRITICAL") <=> Critical
    /\ (\E c \in Collector : status[c] # "OK") <=> Critical \/ Warned
    /\ (\E a \in alerts : a[2] = "CRITICAL") <=> Critical
    /\ alerts # {} <=> Critical \/ Warned

\* A round begins with nothing.
IdleOK == pc = "idle" => /\ read = {} /\ alerts = {}
                         /\ status = [c \in Collector |-> "OK"]

VerdictInv ==
    /\ Judged
    /\ IdleOK
    /\ pc = "dispatch" => verdict = Called

Inv == TypeOK /\ TickInv /\ VerdictInv

-----------------------------------------------------------------------------
(* The operators *)

LEMMA LevelMeans ==
    ASSUME NEW resource, NEW value
    PROVE  /\ Level(resource, value) \in Status
           /\ Level(resource, value) = "CRITICAL" <=> value >= thresholds[resource].critical
           /\ Level(resource, value) # "OK" <=>
                \/ value >= thresholds[resource].critical
                \/ value >= thresholds[resource].warning
BY DEF Level, Status

SomeCritical(s) == \E c \in Collector : s[c] = "CRITICAL"
SomeBad(s)      == \E c \in Collector : s[c] # "OK"

\* A status never gets better within a round, and is as grave as what is added.
LEMMA Escalation ==
    ASSUME status \in [Collector -> Status], NEW c \in Collector, NEW level \in Status
    PROVE  /\ Escalate(c, level) \in [Collector -> Status]
           /\ SomeCritical(Escalate(c, level)) <=> SomeCritical(status) \/ level = "CRITICAL"
           /\ SomeBad(Escalate(c, level)) <=> SomeBad(status) \/ level # "OK"
<1> DEFINE new == IF level = "OK" \/ status[c] = "CRITICAL" THEN status[c] ELSE level
<1>1. Escalate(c, level) = [status EXCEPT ![c] = new]
  BY DEF Escalate
<1>2. /\ Escalate(c, level) \in [Collector -> Status]
      /\ Escalate(c, level)[c] = new
      /\ \A d \in Collector : d # c => Escalate(c, level)[d] = status[d]
  BY <1>1 DEF Status
<1> QED BY <1>2 DEF SomeCritical, SomeBad, Status

LEMMA Quotient == \A a \in Nat, b \in Nat \ {0} : a \div b \in Nat
OBVIOUS

LEMMA Clamped == \A n \in Nat : AtMost(Full, n) \in 0..Full
BY DEF AtMost, Full

\* Clamped from above by the code, and not negative since busy ticks only grow.
LEMMA UtilizationType ==
    ASSUME NEW from \in Ticks, NEW to \in Ticks, from.busy <= to.busy, Elapsed(from, to) > 0
    PROVE  Utilization(from, to) \in 0..Full
<1> DEFINE total == Elapsed(from, to)
           scaled == Full * (to.busy - from.busy) + total \div 2
<1>1. /\ from.busy \in Nat /\ from.idle \in Nat /\ to.busy \in Nat /\ to.idle \in Nat
  BY SamplingAssumption DEF Ticks
<1>2. total \in Nat \ {0}
  BY <1>1 DEF Elapsed
<1>3. scaled \in Nat
  BY <1>1, <1>2 DEF Full
<1>4. scaled \div total \in Nat
  BY <1>2, <1>3, Quotient
<1>5. Utilization(from, to) = AtMost(Full, scaled \div total)
  BY DEF Utilization
<1> HIDE DEF total, scaled
<1> QED BY <1>4, <1>5, Clamped

\* One reading more: when the level that is added to a status is what the new
\* readings call for, and the new alerts say so, everything still agrees.
LEMMA JudgedStep ==
    ASSUME Judged, status \in [Collector -> Status], thresholds' = thresholds,
           NEW c \in Collector, NEW level \in Status, NEW X, NEW A,
           status' = Escalate(c, level),
           read' = read \union X, alerts' = alerts \union A,
           level = "CRITICAL" <=> \E r \in X : r[2] >= thresholds[r[1]].critical,
           level # "OK" <=> \/ \E r \in X : \/ r[2] >= thresholds[r[1]].critical
                                            \/ r[2] >= thresholds[r[1]].warning
                            \/ <<"leak", "WARNING">> \in A,
           (\E a \in A : a[2] = "CRITICAL") <=> level = "CRITICAL",
           A # {} <=> level # "OK"
    PROVE  Judged'
<1>1. /\ SomeCritical(status') <=> SomeCritical(status) \/ level = "CRITICAL"
      /\ SomeBad(status') <=> SomeBad(status) \/ level # "OK"
  BY Escalation
<1>2. /\ SomeCritical(status) <=> Critical
      /\ SomeBad(status) <=> Critical \/ Warned
  BY DEF Judged, SomeCritical, SomeBad
<1>3. Critical' <=> Critical \/ level = "CRITICAL"
  BY DEF Critical, Reached
<1>4. (Critical \/ Warned)' <=> Critical \/ Warned \/ level # "OK"
  BY DEF Critical, Warned, Reached
<1>5. (\E a \in alerts' : a[2] = "CRITICAL") <=> Critical'
  BY <1>3 DEF Judged
<1>6. alerts' # {} <=> (Critical \/ Warned)'
  BY <1>4 DEF Judged
<1> QED BY <1>1, <1>2, <1>3, <1>4, <1>5, <1>6 DEF Judged, SomeCritical, SomeBad

-----------------------------------------------------------------------------
(* What an action hands to JudgedStep *)

\* The level of two readings together.
Worse(a, b) == IF "CRITICAL" \in {a, b} THEN "CRITICAL"
               ELSE IF "WARNING" \in {a, b} THEN "WARNING" ELSE "OK"

LEMMA WorseMeans ==
    ASSUME NEW a \in Status, NEW b \in Status
    PROVE  /\ Worse(a, b) \in Status
           /\ Worse(a, b) = "CRITICAL" <=> a = "CRITICAL" \/ b = "CRITICAL"
           /\ Worse(a, b) # "OK" <=> a # "OK" \/ b # "OK"
BY DEF Worse, Status

LEMMA AlertMeans ==
    ASSUME NEW subject, NEW level \in Status
    PROVE  /\ AlertIf(subject, level) # {} <=> level # "OK"
           /\ (\E a \in AlertIf(subject, level) : a[2] = "CRITICAL") <=> level = "CRITICAL"
           /\ subject # "leak" => <<"leak", "WARNING">> \notin AlertIf(subject, level)
<1>1. <<subject, level>>[2] = level
  OBVIOUS
<1>2. CASE level = "OK"
  BY <1>2 DEF AlertIf
<1>3. CASE level # "OK"
  <2>1. AlertIf(subject, level) = {<<subject, level>>}
    BY <1>3 DEF AlertIf
  <2>2. subject # "leak" => <<"leak", "WARNING">> # <<subject, level>>
    OBVIOUS
  <2> QED BY <1>1, <1>3, <2>1, <2>2, Zenon
<1> QED BY <1>2, <1>3

\* Two readings of one collector, with the alerts they give together.
LEMMA PairJudged ==
    ASSUME Judged, status \in [Collector -> Status], thresholds' = thresholds,
           NEW c \in Collector, NEW r1, NEW v1, NEW r2, NEW v2, NEW A,
           status' = Escalate(c, Worse(Level(r1, v1), Level(r2, v2))),
           read' = read \union {<<r1, v1>>, <<r2, v2>>}, alerts' = alerts \union A,
           <<"leak", "WARNING">> \notin A,
           (\E a \in A : a[2] = "CRITICAL") <=>
               Level(r1, v1) = "CRITICAL" \/ Level(r2, v2) = "CRITICAL",
           A # {} <=> Level(r1, v1) # "OK" \/ Level(r2, v2) # "OK"
    PROVE  Judged'
<1> DEFINE X == {<<r1, v1>>, <<r2, v2>>}
           level == Worse(Level(r1, v1), Level(r2, v2))
<1>1. /\ (\E r \in X : r[2] >= thresholds[r[1]].critical) <=>
           v1 >= thresholds[r1].critical \/ v2 >= thresholds[r2].critical
      /\ (\E r \in X : r[2] >= thresholds[r[1]].warning) <=>
           v1 >= thresholds[r1].warning \/ v2 >= thresholds[r2].warning
  OBVIOUS
<1>2. /\ level \in Status
      /\ level = "CRITICAL" <=> Level(r1, v1) = "CRITICAL" \/ Level(r2, v2) = "CRITICAL"
      /\ level # "OK" <=> Level(r1, v1) # "OK" \/ Level(r2, v2) # "OK"
  BY LevelMeans, WorseMeans
<1>3. status' = Escalate(c, level) /\ read' = read \union X
  OBVIOUS
<1> HIDE DEF X, level
<1>4. level = "CRITICAL" <=> \E r \in X : r[2] >= thresholds[r[1]].critical
  BY <1>1, <1>2, LevelMeans
<1>5. level # "OK" <=> \/ \E r \in X : \/ r[2] >= thresholds[r[1]].critical
                                       \/ r[2] >= thresholds[r[1]].warning
                       \/ <<"leak", "WARNING">> \in A
  BY <1>1, <1>2, LevelMeans
<1> QED BY <1>2, <1>3, <1>4, <1>5, JudgedStep

\* The three collectors' readings.
LEMMA CpuJudged ==
    ASSUME TypeOK, Judged, thresholds' = thresholds, NEW l, NEW u, CpuVerdict(l, u)
    PROVE  Judged'
<1> DEFINE level == Worse(Level("load", l), Level("util", u))
           A == AlertIf("cpu", level)
<1>1. /\ status' = Escalate("cpu", level)
      /\ read' = read \union {<<"load", l>>, <<"util", u>>} /\ alerts' = alerts \union A
  BY DEF CpuVerdict, Worse
<1>2. /\ level \in Status
      /\ level = "CRITICAL" <=> Level("load", l) = "CRITICAL" \/ Level("util", u) = "CRITICAL"
      /\ level # "OK" <=> Level("load", l) # "OK" \/ Level("util", u) # "OK"
  BY LevelMeans, WorseMeans
<1>3. status \in [Collector -> Status] /\ "cpu" \in Collector
  BY DEF TypeOK, Collector
<1> HIDE DEF level
<1>4. /\ A # {} <=> level # "OK"
      /\ (\E a \in A : a[2] = "CRITICAL") <=> level = "CRITICAL"
      /\ <<"leak", "WARNING">> \notin A
  BY <1>2, AlertMeans
<1> HIDE DEF A
<1> QED BY <1>1, <1>2, <1>3, <1>4, PairJudged DEF level

LEMMA TwoAlertsJudged ==
    ASSUME TypeOK, Judged, thresholds' = thresholds, NEW c \in Collector,
           NEW r1, NEW v1, NEW r2, NEW v2, NEW s1, NEW s2, s1 # "leak", s2 # "leak",
           status' = Escalate(c, Worse(Level(r1, v1), Level(r2, v2))),
           read' = read \union {<<r1, v1>>, <<r2, v2>>},
           alerts' = alerts \union AlertIf(s1, Level(r1, v1)) \union AlertIf(s2, Level(r2, v2))
    PROVE  Judged'
<1> DEFINE A1 == AlertIf(s1, Level(r1, v1))
           A2 == AlertIf(s2, Level(r2, v2))
<1>1. /\ A1 # {} <=> Level(r1, v1) # "OK"
      /\ (\E a \in A1 : a[2] = "CRITICAL") <=> Level(r1, v1) = "CRITICAL"
      /\ <<"leak", "WARNING">> \notin A1
  BY LevelMeans, AlertMeans
<1>2. /\ A2 # {} <=> Level(r2, v2) # "OK"
      /\ (\E a \in A2 : a[2] = "CRITICAL") <=> Level(r2, v2) = "CRITICAL"
      /\ <<"leak", "WARNING">> \notin A2
  BY LevelMeans, AlertMeans
<1>3. alerts' = alerts \union (A1 \union A2)
  OBVIOUS
<1>4. status \in [Collector -> Status]
  BY DEF TypeOK
<1> HIDE DEF A1, A2
<1>5. /\ A1 \union A2 # {} <=> Level(r1, v1) # "OK" \/ Level(r2, v2) # "OK"
      /\ (\E a \in A1 \union A2 : a[2] = "CRITICAL") <=>
           Level(r1, v1) = "CRITICAL" \/ Level(r2, v2) = "CRITICAL"
      /\ <<"leak", "WARNING">> \notin A1 \union A2
  BY <1>1, <1>2
<1> QED BY <1>3, <1>4, <1>5, PairJudged

LEMMA LeaksJudged == ASSUME TypeOK, Judged, CollectLeaks PROVE Judged'
<1>1. PICK level \in {"OK", "WARNING"} :
        /\ status' = Escalate("memory", level)
        /\ alerts' = alerts \union AlertIf("leak", level)
  BY DEF CollectLeaks
<1>2. /\ thresholds' = thresholds /\ read' = read \union {}
      /\ status \in [Collector -> Status] /\ "memory" \in Collector
  BY DEF CollectLeaks, TypeOK, Collector
<1>3. level \in Status /\ level # "CRITICAL"
  BY DEF Status
<1>4. level # "OK" <=> <<"leak", "WARNING">> \in AlertIf("leak", level)
  BY DEF AlertIf
<1> QED BY <1>1, <1>2, <1>3, <1>4, AlertMeans, JudgedStep

-----------------------------------------------------------------------------
(* Types *)

LEMMA AlertType ==
    ASSUME NEW subject \in Subject, NEW level \in Status
    PROVE  AlertIf(subject, level) \subseteq Subject \X Status
BY DEF AlertIf

LEMMA CpuTypes ==
    ASSUME TypeOK, NEW l \in Load, NEW u \in 0..Full, CpuVerdict(l, u)
    PROVE  /\ pc' = "memory" /\ util' = u
           /\ status' \in [Collector -> Status]
           /\ alerts' \subseteq Subject \X Status
           /\ read' \subseteq Resource \X (0..Full \union Load)
<1> DEFINE level == Worse(Level("load", l), Level("util", u))
<1>1. /\ pc' = "memory" /\ util' = u
      /\ status' = Escalate("cpu", level)
      /\ read' = read \union {<<"load", l>>, <<"util", u>>}
      /\ alerts' = alerts \union AlertIf("cpu", level)
  BY DEF CpuVerdict, Worse
<1>2. level \in Status
  BY LevelMeans, WorseMeans
<1>3. /\ status \in [Collector -> Status] /\ "cpu" \in Collector /\ "cpu" \in Subject
      /\ alerts \subseteq Subject \X Status
      /\ read \subseteq Resource \X (0..Full \union Load)
      /\ "load" \in Resource /\ "util" \in Resource
  BY DEF TypeOK, Collector, Subject, Resource
<1> HIDE DEF level
<1>4. alerts' \subseteq Subject \X Status
  BY <1>1, <1>2, <1>3, AlertType
<1>5. status' \in [Collector -> Status]
  BY <1>1, <1>2, <1>3, Escalation
<1>6. read' \subseteq Resource \X (0..Full \union Load)
  BY <1>1, <1>3
<1> QED BY <1>1, <1>4, <1>5, <1>6

\* An assignment of two readings to a collector.
LEMMA PairTypes ==
    ASSUME TypeOK, NEW c \in Collector, NEW s1 \in Subject, NEW s2 \in Subject,
           NEW r1 \in Resource, NEW v1 \in 0..Full, NEW r2 \in Resource, NEW v2 \in 0..Full,
           status' = Escalate(c, Worse(Level(r1, v1), Level(r2, v2))),
           read' = read \union {<<r1, v1>>, <<r2, v2>>},
           alerts' = alerts \union AlertIf(s1, Level(r1, v1)) \union AlertIf(s2, Level(r2, v2))
    PROVE  /\ status' \in [Collector -> Status]
           /\ alerts' \subseteq Subject \X Status
           /\ read' \subseteq Resource \X (0..Full \union Load)
<1>1. /\ Level(r1, v1) \in Status /\ Level(r2, v2) \in Status
      /\ Worse(Level(r1, v1), Level(r2, v2)) \in Status
  BY LevelMeans, WorseMeans
<1>2. /\ status \in [Collector -> Status]
      /\ alerts \subseteq Subject \X Status
      /\ read \subseteq Resource \X (0..Full \union Load)
  BY DEF TypeOK
<1>3. status' \in [Collector -> Status]
  BY <1>1, <1>2, Escalation
<1>4. alerts' \subseteq Subject \X Status
  BY <1>1, <1>2, AlertType
<1>5. read' \subseteq Resource \X (0..Full \union Load)
  BY <1>2
<1> QED BY <1>3, <1>4, <1>5

\* What CollectMemory and CheckMountpoint read.
LEMMA MemoryReadings ==
    ASSUME CollectMemory
    PROVE  \E ram, swap \in 0..Full :
             /\ status' = Escalate("memory", Worse(Level("ram", ram), Level("swap", swap)))
             /\ alerts' = alerts \union AlertIf("ram", Level("ram", ram))
                                 \union AlertIf("swap", Level("swap", swap))
             /\ read' = read \union {<<"ram", ram>>, <<"swap", swap>>}
<1>1. PICK stats \in MemoryStats :
        /\ status' = Escalate("memory", Worse(Level("ram", stats[1]), Level("swap", stats[2])))
        /\ alerts' = alerts \union AlertIf("ram", Level("ram", stats[1]))
                            \union AlertIf("swap", Level("swap", stats[2]))
        /\ read' = read \union {<<"ram", stats[1]>>, <<"swap", stats[2]>>}
  BY DEF CollectMemory, Worse
<1>2. stats[1] \in 0..Full /\ stats[2] \in 0..Full
  <2>1. \A x \in Percent : x \in 0..Full
    BY SamplingAssumption
  <2>2. 0 \in 0..Full /\ 5000 \in 0..Full
    BY DEF Full
  <2>3. /\ stats[1] \in Percent \/ stats[1] = 5000
        /\ stats[2] \in Percent \/ stats[2] = 0
    <3>1. CASE stats \in Percent \X Percent
      BY <3>1
    <3>2. CASE stats \in Percent \X {0}
      BY <3>2
    <3>3. CASE stats = <<5000, 0>>
      BY <3>3
    <3> QED BY <1>1, <3>1, <3>2, <3>3 DEF MemoryStats
  <2>4. stats[1] \in 0..Full
    BY <2>1, <2>2, <2>3
  <2>5. stats[2] \in 0..Full
    BY <2>1, <2>2, <2>3
  <2> QED BY <2>4, <2>5
<1> QED BY <1>1, <1>2

LEMMA DiskReadings ==
    ASSUME NEW mp \in Mount, CheckMountpoint(mp)
    PROVE  \/ UNCHANGED <<status, alerts, read>>
           \/ \E cap, inode \in 0..Full :
                /\ status' = Escalate("disk", Worse(Level("capacity", cap), Level("inode", inode)))
                /\ alerts' = alerts \union AlertIf("capacity", Level("capacity", cap))
                                    \union AlertIf("inode", Level("inode", inode))
                /\ read' = read \union {<<"capacity", cap>>, <<"inode", inode>>}
<1>1. CASE UNCHANGED <<status, alerts, read>>
  BY <1>1
<1>2. CASE ~UNCHANGED <<status, alerts, read>>
  <2>1. PICK cap \in Percent, inode \in Percent :
          /\ status' = Escalate("disk", Worse(Level("capacity", cap), Level("inode", inode)))
          /\ alerts' = alerts \union AlertIf("capacity", Level("capacity", cap))
                              \union AlertIf("inode", Level("inode", inode))
          /\ read' = read \union {<<"capacity", cap>>, <<"inode", inode>>}
    BY <1>2 DEF CheckMountpoint, Worse
  <2>2. cap \in 0..Full /\ inode \in 0..Full
    BY SamplingAssumption
  <2> QED BY <2>1, <2>2
<1> QED BY <1>1, <1>2

\* A measured utilization, and what it makes of the tick counts.
LEMMA Measured ==
    ASSUME TypeOK, TickInv, Advanced, NEW l \in Load, CpuMeasured(l, baseline, ticks)
    PROVE  /\ \E u \in 0..Full : CpuVerdict(l, u)
           /\ baseline.busy \in Nat /\ ticks.busy \in 0..MaxBusy
           /\ counted' = counted + ticks.busy - baseline.busy
           /\ counted' \in 0..MaxBusy
<1>1. /\ baseline # NoReading /\ baseline \in Ticks /\ ticks \in Ticks
      /\ Elapsed(baseline, ticks) > 0
      /\ baseline.busy <= ticks.busy
  BY DEF TypeOK, TickInv, Advanced
<1>2. Utilization(baseline, ticks) \in 0..Full
  BY <1>1, UtilizationType
<1>3. /\ MaxBusy \in Nat /\ counted \in 0..MaxBusy /\ since \in 0..MaxBusy
      /\ baseline.busy \in 0..MaxBusy /\ ticks.busy \in 0..MaxBusy
      /\ counted <= baseline.busy - since
  BY <1>1, SamplingAssumption DEF TypeOK, Ticks, TickInv, TicksCountedOnce
<1>4. counted' = counted + ticks.busy - baseline.busy
  BY DEF CpuMeasured
<1> QED BY <1>1, <1>2, <1>3, <1>4 DEF CpuMeasured

LEMMA TypeNext == ASSUME TypeOK, TickInv, [Next]_vars PROVE TypeOK'
<1>1. CASE CpuFirst
  <2>1. load' \in Load /\ todo' = Mount
    BY <1>1 DEF CpuFirst
  <2>2. PICK l \in Load : l = load'
    BY <2>1
  <2>3. CASE pc' = "ps" /\ UNCHANGED <<cpuVars, util, status, alerts, read>>
    BY <1>1, <2>1, <2>3 DEF CpuFirst, TypeOK, cpuVars
  <2>4. CASE Advanced /\ CpuMeasured(load', baseline, ticks) /\ baseline' = ticks /\ UNCHANGED since
    <3>1. CpuMeasured(l, baseline, ticks)
      BY <2>2, <2>4
    <3>2. /\ \E u \in 0..Full : CpuVerdict(l, u)
          /\ counted' \in 0..MaxBusy
      BY <2>4, <3>1, Measured
    <3>3. /\ pc' = "memory" /\ util' \in 0..Full
          /\ status' \in [Collector -> Status]
          /\ alerts' \subseteq Subject \X Status
          /\ read' \subseteq Resource \X (0..Full \union Load)
      BY <3>2, CpuTypes
    <3>4. ticks' \in Ticks /\ thresholds' \in Thresholds /\ baseline' \in Ticks
          /\ verdict' \in Status /\ since' \in 0..MaxBusy /\ setBack' \in BOOLEAN
      BY <1>1, <2>4 DEF CpuFirst, TypeOK
    <3> QED BY <2>1, <3>2, <3>3, <3>4 DEF TypeOK
  <2>5. CASE ~Advanced /\ pc' = "again" /\ baseline' = ticks
             /\ since' = (IF baseline = NoReading THEN ticks.busy ELSE since)
             /\ UNCHANGED <<counted, util, status, alerts, read>>
    <3>1. ticks.busy \in 0..MaxBusy
      BY DEF TypeOK, Ticks
    <3> QED BY <1>1, <2>1, <2>5, <3>1 DEF CpuFirst, TypeOK
  <2> QED BY <1>1, <2>3, <2>4, <2>5 DEF CpuFirst
<1>2. CASE CpuAgain
  <2>1. CASE pc' = "ps"
    BY <1>2, <2>1 DEF CpuAgain, TypeOK, cpuVars, CpuMeasured, CpuVerdict
  <2>2. CASE Advanced /\ CpuMeasured(load, baseline, ticks) /\ baseline' = ticks /\ UNCHANGED since
    <3>1. load \in Load
      BY DEF TypeOK
    <3>2. /\ \E u \in 0..Full : CpuVerdict(load, u)
          /\ counted' \in 0..MaxBusy
      BY <2>2, <3>1, Measured
    <3>3. /\ pc' = "memory" /\ util' \in 0..Full
          /\ status' \in [Collector -> Status]
          /\ alerts' \subseteq Subject \X Status
          /\ read' \subseteq Resource \X (0..Full \union Load)
      BY <3>1, <3>2, CpuTypes
    <3>4. ticks' \in Ticks /\ thresholds' \in Thresholds /\ baseline' \in Ticks
          /\ load' \in Load /\ todo' \subseteq Mount
          /\ verdict' \in Status /\ since' \in 0..MaxBusy /\ setBack' \in BOOLEAN
      BY <1>2, <2>2 DEF CpuAgain, TypeOK
    <3> QED BY <3>2, <3>3, <3>4 DEF TypeOK
  <2> QED BY <1>2, <2>1, <2>2 DEF CpuAgain
<1>3. CASE CpuFromPs
  <2>1. PICK u \in Percent \union {AtMost(Full, 100 * l) : l \in Load} : CpuVerdict(load, u)
    BY <1>3 DEF CpuFromPs
  <2>2. u \in 0..Full
    <3>1. CASE u \in Percent
      BY <3>1, SamplingAssumption
    <3>2. CASE u \in {AtMost(Full, 100 * l) : l \in Load}
      <4>1. PICK l \in Load : u = AtMost(Full, 100 * l)
        BY <3>2
      <4>2. 100 * l \in Nat
        BY SamplingAssumption
      <4> QED BY <4>1, <4>2, Clamped
    <3> QED BY <2>1, <3>1, <3>2
  <2>3. load \in Load
    BY DEF TypeOK
  <2>4. /\ pc' = "memory" /\ util' = u
        /\ status' \in [Collector -> Status]
        /\ alerts' \subseteq Subject \X Status
        /\ read' \subseteq Resource \X (0..Full \union Load)
    BY <2>1, <2>2, <2>3, CpuTypes
  <2> QED BY <1>3, <2>2, <2>4 DEF CpuFromPs, TypeOK, cpuVars
<1>4. CASE CollectMemory
  <2>1. /\ "memory" \in Collector /\ "ram" \in Subject /\ "swap" \in Subject
        /\ "ram" \in Resource /\ "swap" \in Resource
    BY DEF Collector, Subject, Resource
  <2>2. /\ status' \in [Collector -> Status]
        /\ alerts' \subseteq Subject \X Status
        /\ read' \subseteq Resource \X (0..Full \union Load)
    BY <1>4, <2>1, MemoryReadings, PairTypes
  <2> QED BY <1>4, <2>2 DEF CollectMemory, TypeOK, cpuVars
<1>5. CASE CollectLeaks
  <2>1. PICK level \in {"OK", "WARNING"} :
          /\ status' = Escalate("memory", level)
          /\ alerts' = alerts \union AlertIf("leak", level)
    BY <1>5 DEF CollectLeaks
  <2>2. level \in Status /\ "memory" \in Collector /\ "leak" \in Subject
        /\ status \in [Collector -> Status] /\ alerts \subseteq Subject \X Status
    BY DEF Status, Collector, Subject, TypeOK
  <2>3. status' \in [Collector -> Status]
    BY <2>1, <2>2, Escalation
  <2>4. alerts' \subseteq Subject \X Status
    BY <2>1, <2>2, AlertType
  <2> QED BY <1>5, <2>3, <2>4 DEF CollectLeaks, TypeOK, cpuVars
<1>6. ASSUME NEW mp \in Mount, CheckMountpoint(mp) PROVE TypeOK'
  <2>1. /\ "disk" \in Collector /\ "capacity" \in Subject /\ "inode" \in Subject
        /\ "capacity" \in Resource /\ "inode" \in Resource
    BY DEF Collector, Subject, Resource
  <2>2. /\ status' \in [Collector -> Status]
        /\ alerts' \subseteq Subject \X Status
        /\ read' \subseteq Resource \X (0..Full \union Load)
    <3>1. CASE UNCHANGED <<status, alerts, read>>
      BY <3>1 DEF TypeOK
    <3>2. CASE ~UNCHANGED <<status, alerts, read>>
      BY <1>6, <2>1, <3>2, DiskReadings, PairTypes
    <3> QED BY <3>1, <3>2
  <2> QED BY <1>6, <2>2 DEF CheckMountpoint, TypeOK, cpuVars
<1>7. CASE CollectDisk \/ Reload \/ UNCHANGED vars
  BY <1>7 DEF CollectDisk, Reload, TypeOK, vars, round, cpuVars
<1>8. CASE SampleSystem
  BY <1>8 DEF SampleSystem, TypeOK, cpuVars, Status
<1>9. CASE Dispatch
  BY <1>9 DEF Dispatch, TypeOK, cpuVars, Status, Collector
<1>10. CASE CpuRuns
  <2>1. /\ ticks \in [busy : 0..MaxBusy, idle : 0..MaxIdle]
        /\ MaxBusy \in Nat /\ MaxIdle \in Nat /\ setBack \in BOOLEAN
    BY SamplingAssumption DEF TypeOK, Ticks
  <2>2. CASE ticks.busy < MaxBusy /\ ticks' = [ticks EXCEPT !.busy = @ + 1] /\ UNCHANGED setBack
    <3>1. ticks.busy + 1 \in 0..MaxBusy
      BY <2>1, <2>2
    <3>2. ticks' \in Ticks
      BY <2>1, <2>2, <3>1 DEF Ticks
    <3> QED BY <1>10, <2>1, <2>2, <3>2 DEF CpuRuns, TypeOK, cpuVars, round
  <2>3. CASE ticks.idle < MaxIdle /\ ticks' = [ticks EXCEPT !.idle = @ + 1] /\ UNCHANGED setBack
    <3>1. ticks.idle + 1 \in 0..MaxIdle
      BY <2>1, <2>3
    <3>2. ticks' \in Ticks
      BY <2>1, <2>3, <3>1 DEF Ticks
    <3> QED BY <1>10, <2>1, <2>3, <3>2 DEF CpuRuns, TypeOK, cpuVars, round
  <2>4. CASE ticks.idle > 0 /\ ticks' = [ticks EXCEPT !.idle = @ - 1] /\ setBack' = TRUE
    <3>1. ticks.idle - 1 \in 0..MaxIdle
      BY <2>1, <2>4
    <3>2. ticks' \in Ticks
      BY <2>1, <2>4, <3>1 DEF Ticks
    <3> QED BY <1>10, <2>1, <2>4, <3>2 DEF CpuRuns, TypeOK, cpuVars, round
  <2> QED BY <1>10, <2>2, <2>3, <2>4 DEF CpuRuns
<1> QED BY <1>1, <1>2, <1>3, <1>4, <1>5, <1>6, <1>7, <1>8, <1>9, <1>10 DEF Next

-----------------------------------------------------------------------------
(* Ticks *)

\* The baseline is moved to the counters of now, and what has passed since is
\* counted, or there is nothing to count.
LEMMA Rebased ==
    ASSUME TypeOK, TickInv, baseline' = ticks, ticks' = ticks, setBack' = setBack,
           \/ /\ Advanced
              /\ counted' = counted + ticks.busy - baseline.busy
              /\ UNCHANGED since
           \/ /\ ~Advanced
              /\ since' = IF baseline = NoReading THEN ticks.busy ELSE since
              /\ UNCHANGED counted
    PROVE  TickInv'
<1>1. /\ ticks \in Ticks /\ ticks # NoReading
      /\ ticks.busy \in Nat /\ ticks.idle \in Nat
      /\ counted \in Nat /\ since \in Nat
  BY SamplingAssumption DEF TypeOK, Ticks
<1>2. /\ baseline'.busy = ticks'.busy /\ baseline'.idle = ticks'.idle
      /\ baseline' # NoReading
  BY <1>1
<1>3. ASSUME baseline # NoReading
      PROVE  /\ baseline.busy \in Nat /\ baseline.idle \in Nat
             /\ baseline.busy <= ticks.busy /\ counted <= baseline.busy - since
             /\ setBack \/ (baseline.idle <= ticks.idle /\ counted = baseline.busy - since)
  BY <1>3 DEF TypeOK, Ticks, TickInv, TicksCountedOnce
<1>4. TicksCountedOnce'
  <2>1. CASE Advanced
    <3>1. baseline # NoReading /\ counted' = counted + ticks.busy - baseline.busy /\ since' = since
      BY <2>1 DEF Advanced
    <3> QED BY <1>1, <1>2, <1>3, <3>1 DEF TicksCountedOnce
  <2>2. CASE ~Advanced /\ baseline = NoReading
    <3>1. counted' = 0 /\ since' = ticks.busy
      BY <2>2 DEF TickInv
    <3> QED BY <1>1, <1>2, <3>1 DEF TicksCountedOnce
  <2>3. CASE ~Advanced /\ baseline # NoReading
    <3>1. counted' = counted /\ since' = since
      BY <2>3
    <3>2. (ticks.busy + ticks.idle) - (baseline.busy + baseline.idle) <= 0
      BY <1>1, <1>3, <2>3 DEF Advanced, Elapsed
    <3> QED BY <1>1, <1>2, <1>3, <2>3, <3>1, <3>2 DEF TicksCountedOnce
  <2> QED BY <2>1, <2>2, <2>3
<1> QED BY <1>1, <1>2, <1>4 DEF TickInv

LEMMA TickNext == ASSUME TypeOK, TickInv, [Next]_vars PROVE TickInv'
<1>1. ASSUME UNCHANGED <<ticks, baseline, since, counted, setBack>>, pc' = "again" => pc = "again"
      PROVE  TickInv'
  BY <1>1 DEF TickInv, TicksCountedOnce
<1>2. CASE CpuFirst
  <2>1. CASE pc' = "ps" /\ UNCHANGED cpuVars
    BY <1>1, <1>2, <2>1 DEF CpuFirst, cpuVars
  <2>2. CASE Advanced /\ CpuMeasured(load', baseline, ticks) /\ baseline' = ticks /\ UNCHANGED since
    BY <1>2, <2>2, Rebased DEF CpuFirst, CpuMeasured
  <2>3. CASE ~Advanced /\ baseline' = ticks
             /\ since' = (IF baseline = NoReading THEN ticks.busy ELSE since) /\ UNCHANGED counted
    BY <1>2, <2>3, Rebased DEF CpuFirst
  <2> QED BY <1>2, <2>1, <2>2, <2>3 DEF CpuFirst
<1>3. CASE CpuAgain
  <2>1. CASE pc' = "ps" /\ UNCHANGED cpuVars
    BY <1>1, <1>3, <2>1 DEF CpuAgain, cpuVars
  <2>2. CASE Advanced /\ CpuMeasured(load, baseline, ticks) /\ baseline' = ticks /\ UNCHANGED since
    BY <1>3, <2>2, Rebased DEF CpuAgain, CpuMeasured
  <2>3. CASE ~Advanced /\ baseline' = ticks /\ UNCHANGED <<since, counted>>
    <3>1. baseline # NoReading
      BY <1>3 DEF CpuAgain, TickInv
    <3> QED BY <1>3, <2>3, <3>1, Rebased DEF CpuAgain
  <2> QED BY <1>3, <2>1, <2>2, <2>3 DEF CpuAgain
<1>4. CASE CpuFromPs
  BY <1>1, <1>4 DEF CpuFromPs, CpuVerdict, cpuVars
<1>5. CASE CollectMemory \/ CollectLeaks \/ CollectDisk \/ SampleSystem \/ Dispatch \/ Reload
           \/ \E mp \in Mount : CheckMountpoint(mp)
  BY <1>1, <1>5 DEF CollectMemory, CollectLeaks, CollectDisk, SampleSystem, Dispatch, Reload,
     CheckMountpoint, cpuVars
<1>6. CASE CpuRuns
  <2>1. /\ ticks.busy \in Nat /\ ticks.idle \in Nat
        /\ baseline # NoReading => baseline.busy \in Nat /\ baseline.idle \in Nat
        /\ ticks \in [busy : 0..MaxBusy, idle : 0..MaxIdle]
    BY DEF TypeOK, Ticks
  <2>2. UNCHANGED <<baseline, since, counted, pc>>
    BY <1>6 DEF CpuRuns, cpuVars
  <2>3. /\ ticks'.busy >= ticks.busy
        /\ setBack' \/ (setBack' = setBack /\ ticks'.idle >= ticks.idle)
        /\ setBack => setBack'
        /\ ticks'.busy \in Nat /\ ticks'.idle \in Int
    BY <1>6, <2>1 DEF CpuRuns
  <2> QED BY <2>1, <2>2, <2>3 DEF TickInv, TicksCountedOnce
<1>7. CASE UNCHANGED vars
  BY <1>1, <1>7 DEF vars, cpuVars
<1> QED BY <1>2, <1>3, <1>4, <1>5, <1>6, <1>7 DEF Next

-----------------------------------------------------------------------------
(* The verdict *)

\* Between rounds thresholds may change, and there is nothing to judge by them.
LEMMA NothingJudged ==
    ASSUME read' = {}, alerts' = {}, status' = [c \in Collector |-> "OK"]
    PROVE  Judged'
BY DEF Judged, Critical, Warned, Reached

LEMMA SameJudged ==
    ASSUME Judged, UNCHANGED <<status, alerts, read, thresholds>>
    PROVE  Judged' /\ Called' = Called
BY DEF Judged, Critical, Warned, Reached, Called

LEMMA IdleNext == ASSUME TypeOK, IdleOK, [Next]_vars PROVE IdleOK'
<1>1. CASE CpuFirst
  BY <1>1 DEF CpuFirst, CpuMeasured, CpuVerdict, IdleOK
<1>2. CASE CpuAgain \/ CpuFromPs
  BY <1>2 DEF CpuAgain, CpuFromPs, CpuMeasured, CpuVerdict, IdleOK
<1>3. CASE CollectMemory \/ CollectLeaks \/ CollectDisk \/ SampleSystem
           \/ \E mp \in Mount : CheckMountpoint(mp)
  BY <1>3 DEF CollectMemory, CollectLeaks, CollectDisk, SampleSystem, CheckMountpoint, IdleOK
<1>4. CASE Dispatch
  BY <1>4 DEF Dispatch, IdleOK
<1>5. CASE Reload \/ CpuRuns \/ UNCHANGED vars
  BY <1>5 DEF Reload, CpuRuns, vars, round, IdleOK
<1> QED BY <1>1, <1>2, <1>3, <1>4, <1>5 DEF Next

LEMMA JudgedNext == ASSUME TypeOK, IdleOK, Judged, [Next]_vars PROVE Judged'
<1>1. CASE CpuFirst
  <2>1. thresholds' = thresholds
    BY <1>1 DEF CpuFirst
  <2>2. CASE UNCHANGED <<status, alerts, read>>
    BY <2>1, <2>2, SameJudged
  <2>3. CASE CpuMeasured(load', baseline, ticks)
    <3>1. \E l : CpuVerdict(l, Utilization(baseline, ticks))
      BY <2>3 DEF CpuMeasured
    <3> QED BY <2>1, <3>1, CpuJudged
  <2> QED BY <1>1, <2>2, <2>3 DEF CpuFirst
<1>2. CASE CpuAgain
  <2>1. thresholds' = thresholds
    BY <1>2 DEF CpuAgain
  <2>2. CASE UNCHANGED <<status, alerts, read>>
    BY <2>1, <2>2, SameJudged
  <2>3. CASE CpuMeasured(load, baseline, ticks)
    BY <2>1, <2>3, CpuJudged DEF CpuMeasured
  <2> QED BY <1>2, <2>2, <2>3 DEF CpuAgain
<1>3. CASE CpuFromPs
  BY <1>3, CpuJudged DEF CpuFromPs
<1>4. CASE CollectMemory
  <2>1. thresholds' = thresholds /\ "memory" \in Collector
    BY <1>4 DEF CollectMemory, Collector
  <2> QED BY <1>4, <2>1, MemoryReadings, TwoAlertsJudged
<1>5. CASE CollectLeaks
  BY <1>5, LeaksJudged
<1>6. ASSUME NEW mp \in Mount, CheckMountpoint(mp) PROVE Judged'
  <2>1. thresholds' = thresholds /\ "disk" \in Collector
    BY <1>6 DEF CheckMountpoint, Collector
  <2>2. CASE UNCHANGED <<status, alerts, read>>
    BY <2>1, <2>2, SameJudged
  <2>3. CASE ~UNCHANGED <<status, alerts, read>>
    BY <1>6, <2>1, <2>3, DiskReadings, TwoAlertsJudged
  <2> QED BY <2>2, <2>3
<1>7. CASE CollectDisk \/ SampleSystem \/ CpuRuns \/ UNCHANGED vars
  BY <1>7, SameJudged DEF CollectDisk, SampleSystem, CpuRuns, vars, round
<1>8. CASE Dispatch
  BY <1>8, NothingJudged DEF Dispatch
<1>9. CASE Reload
  BY <1>9, NothingJudged DEF Reload, IdleOK, round
<1> QED BY <1>1, <1>2, <1>3, <1>4, <1>5, <1>6, <1>7, <1>8, <1>9 DEF Next

\* The verdict of sample_system is the worst of the three statuses.
LEMMA VerdictNext ==
    ASSUME TypeOK, Judged, pc = "dispatch" => verdict = Called, [Next]_vars
    PROVE  (pc = "dispatch" => verdict = Called)'
<1>1. CASE SampleSystem
  <2>1. Called' = Called
    BY <1>1, SameJudged DEF SampleSystem
  <2>2. /\ \A c \in Collector : status[c] \in Status
        /\ Called = IF Critical THEN "CRITICAL" ELSE IF Warned THEN "WARNING" ELSE "OK"
    BY DEF TypeOK, Called, Critical, Warned
  <2>3. verdict' = IF \E c \in Collector : status[c] = "CRITICAL" THEN "CRITICAL"
                   ELSE IF \E c \in Collector : status[c] = "WARNING" THEN "WARNING" ELSE "OK"
    BY <1>1 DEF SampleSystem
  <2>4. (\E c \in Collector : status[c] # "OK") <=>
            \/ \E c \in Collector : status[c] = "CRITICAL"
            \/ \E c \in Collector : status[c] = "WARNING"
    BY <2>2 DEF Status
  <2> QED BY <2>1, <2>2, <2>3, <2>4 DEF Judged
<1>2. CASE CpuRuns \/ UNCHANGED vars
  BY <1>2, SameJudged DEF CpuRuns, vars, round
<1>3. CASE CpuFirst \/ CpuAgain \/ CpuFromPs \/ CollectMemory \/ CollectLeaks \/ CollectDisk
           \/ Dispatch \/ Reload \/ \E mp \in Mount : CheckMountpoint(mp)
  <2>1. pc' # "dispatch"
    BY <1>3 DEF CpuFirst, CpuAgain, CpuFromPs, CpuMeasured, CpuVerdict, CollectMemory,
       CollectLeaks, CollectDisk, Dispatch, Reload, CheckMountpoint, round
  <2> QED BY <2>1
<1> QED BY <1>1, <1>2, <1>3 DEF Next

-----------------------------------------------------------------------------
(* The theorems *)

LEMMA InvInit == Init => Inv
<1> SUFFICES ASSUME Init PROVE Inv
  OBVIOUS
<1>1. TypeOK
  <2>1. ticks \in Ticks /\ since \in 0..MaxBusy /\ counted \in 0..MaxBusy
    BY SamplingAssumption DEF Init, Ticks
  <2>2. /\ thresholds \in Thresholds /\ load \in Load /\ util \in 0..Full
        /\ baseline \in Ticks \union {NoReading} /\ setBack \in BOOLEAN
        /\ pc \in {"idle", "again", "ps", "memory", "leaks", "disk", "overall", "dispatch"}
    <3>1. 0 \in 0..Full
      BY DEF Full
    <3> QED BY <3>1 DEF Init
  <2>3. /\ status \in [Collector -> Status] /\ verdict \in Status
        /\ alerts = {} /\ todo = {} /\ read = {}
    BY DEF Init, Status
  <2> QED BY <2>1, <2>2, <2>3 DEF TypeOK
<1>2. TickInv
  BY DEF Init, TickInv, TicksCountedOnce
<1>3. Judged
  BY DEF Init, Judged, Critical, Warned, Reached
<1> QED BY <1>1, <1>2, <1>3 DEF Init, Inv, VerdictInv, IdleOK

LEMMA InvHolds == Spec => []Inv
<1>1. Inv /\ [Next]_vars => Inv'
  <2> SUFFICES ASSUME Inv, [Next]_vars PROVE Inv'
    OBVIOUS
  <2>1. TypeOK /\ TickInv /\ Judged /\ IdleOK /\ (pc = "dispatch" => verdict = Called)
    BY DEF Inv, VerdictInv
  <2>2. TypeOK' /\ TickInv'
    BY <2>1, TypeNext, TickNext
  <2>3. IdleOK' /\ Judged'
    BY <2>1, IdleNext, JudgedNext
  <2>4. (pc = "dispatch" => verdict = Called)'
    BY <2>1, VerdictNext
  <2> QED BY <2>2, <2>3, <2>4 DEF Inv, VerdictInv
<1> QED BY <1>1, InvInit, PTL DEF Spec

\* TypeOK: in particular a reported utilization is a percentage, however the
\* counters have moved, and every status and alert level is one of the three.
THEOREM TypeOKHolds == Spec => []TypeOK
<1>1. Inv => TypeOK
  BY DEF Inv
<1> QED BY <1>1, InvHolds, PTL

\* TicksCountedOnce: no busy tick enters two reported utilizations, and none is
\* left out while the idle counter does not go back.
THEOREM TicksAreCountedOnce == Spec => []TicksCountedOnce
<1>1. Inv => TicksCountedOnce
  BY DEF Inv, TickInv
<1> QED BY <1>1, InvHolds, PTL

\* VerdictIsWorst: the overall status of a round is what its worst reading calls
\* for, for any thresholds, and the alerts say so.
THEOREM VerdictsAreWorst == Spec => []VerdictIsWorst
<1>1. Inv => VerdictIsWorst
  <2> SUFFICES ASSUME Judged, pc = "dispatch", verdict = Called PROVE VerdictIsWorst
    BY DEF Inv, VerdictInv, VerdictIsWorst
  <2>1. /\ verdict = "OK" <=> ~(Critical \/ Warned)
        /\ verdict = "CRITICAL" <=> Critical
    BY DEF Called, Critical, Warned
  <2> QED BY <2>1 DEF VerdictIsWorst, Judged
<1> QED BY <1>1, InvHolds, PTL

=============================================================================
