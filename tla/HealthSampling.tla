--------------------------- MODULE HealthSampling ---------------------------
(***************************************************************************)
(* One round of sample_system after another: the CPU, memory and disk      *)
(* collectors of daemon/collectors read the host one reading at a time,    *)
(* while it goes on working, and judge what they read by the thresholds in *)
(* force. The CPU collector keeps the tick counts of its latest reading    *)
(* from one round to the next.                                             *)
(*                                                                         *)
(* Percentages are in hundredths, as round(x, 2) leaves them, and loads    *)
(* per core too. The leaks found are those of LeakDetector.                *)
(***************************************************************************)
EXTENDS Integers

CONSTANTS
    Mount,        \* monitored_mountpoints, fixed when the daemon starts
    Percent,      \* the percentages a reading other than the CPU's can give
    Load,         \* the loads per core that can be read
    Thresholds,   \* the thresholds that configuration files give
    MaxBusy,      \* bound on the busy ticks of the CPU
    MaxIdle,      \* bound on its idle ticks
    NoReading     \* an unreadable /proc/stat, and the baseline before the first one

Full == 10000

\* What is compared with a threshold of its own.
Resource == {"load", "util", "ram", "swap", "capacity", "inode"}

ASSUME SamplingAssumption ==
    /\ Percent \subseteq 0..Full
    /\ Load \subseteq Nat
    /\ Thresholds \subseteq [Resource -> [warning : Int, critical : Int]]
    /\ MaxBusy \in Nat /\ MaxIdle \in Nat
    /\ NoReading \notin [busy : Nat, idle : Nat]

VARIABLES
    ticks,        \* the counters of /proc/stat
    thresholds,   \* self.thresholds of the three collectors
    pc,           \* the next reading of the round
    baseline,     \* _prev_total_ticks and _prev_idle_ticks
    load,         \* load_1m of the round
    util,         \* utilization_pct of the latest round
    status,       \* the status of each collector
    alerts,       \* the alerts of the round so far: subject and level
    todo,         \* the mountpoints that are still to be checked
    verdict,      \* overall_status of the latest round
    \* History, read by properties only:
    read,         \* the readings of the round that have thresholds
    since,        \* busy ticks at the first baseline
    counted,      \* busy ticks that reported utilizations have accounted for
    setBack       \* whether the idle counter has ever gone back

round  == <<load, util, status, alerts, todo, verdict, read>>
cpuVars == <<baseline, since, counted>>
vars   == <<ticks, thresholds, pc, cpuVars, round, setBack>>

Ticks     == [busy : 0..MaxBusy, idle : 0..MaxIdle]
Status    == {"OK", "WARNING", "CRITICAL"}
Collector == {"cpu", "memory", "disk"}
Subject   == {"cpu", "ram", "swap", "leak", "capacity", "inode"}

TypeOK ==
    /\ ticks \in Ticks
    /\ thresholds \in Thresholds
    /\ pc \in {"idle", "again", "ps", "memory", "leaks", "disk", "overall", "dispatch"}
    /\ baseline \in Ticks \union {NoReading}
    /\ load \in Load
    /\ util \in 0..Full
    /\ status \in [Collector -> Status]
    /\ alerts \subseteq Subject \X Status
    /\ todo \subseteq Mount
    /\ verdict \in Status
    /\ read \subseteq Resource \X (0..Full \union Load)
    /\ since \in 0..MaxBusy /\ counted \in 0..MaxBusy
    /\ setBack \in BOOLEAN

Init ==
    /\ ticks = [busy |-> 0, idle |-> 0]
    /\ thresholds \in Thresholds
    /\ pc = "idle"
    /\ baseline = NoReading
    /\ load \in Load
    /\ util = 0
    /\ status = [c \in Collector |-> "OK"]
    /\ alerts = {} /\ todo = {} /\ verdict = "OK"
    /\ read = {} /\ since = 0 /\ counted = 0 /\ setBack = FALSE

-----------------------------------------------------------------------------
(* Judging a reading *)

\* How a reading stands against its two thresholds.
Level(resource, value) ==
    IF value >= thresholds[resource].critical THEN "CRITICAL"
    ELSE IF value >= thresholds[resource].warning THEN "WARNING"
    ELSE "OK"

\* Mutant: a warning overwrites what the collector has found so far.
EscalateAlways(c, level) ==
    [status EXCEPT ![c] = IF level = "OK" THEN @ ELSE level]

\* The collector's status after a reading of that level: a warning does not
\* hide what is critical.
Escalate(c, level) ==
    [status EXCEPT ![c] = IF level = "OK" \/ @ = "CRITICAL" THEN @ ELSE level]

AlertIf(subject, level) == IF level = "OK" THEN {} ELSE {<<subject, level>>}

-----------------------------------------------------------------------------
(* CpuCollector *)

Elapsed(from, to) == (to.busy + to.idle) - (from.busy + from.idle)

\* There is a baseline, and the counters have moved on since.
Advanced == baseline # NoReading /\ Elapsed(baseline, ticks) > 0

AtMost(bound, x) == IF x > bound THEN bound ELSE x

\* 1 - idle over total, rounded, and clamped: idle may have gone back.
Utilization(from, to) ==
    LET total == Elapsed(from, to)
    IN  AtMost(Full, (Full * (to.busy - from.busy) + total \div 2) \div total)

\* The end of CpuCollector.collect: load and utilization give one alert.
CpuVerdict(l, u) ==
    LET level == IF "CRITICAL" \in {Level("load", l), Level("util", u)} THEN "CRITICAL"
                 ELSE IF "WARNING" \in {Level("load", l), Level("util", u)} THEN "WARNING"
                 ELSE "OK"
    IN  /\ pc' = "memory"
        /\ util' = u
        /\ status' = Escalate("cpu", level)
        /\ alerts' = alerts \union AlertIf("cpu", level)
        /\ read' = read \union {<<"load", l>>, <<"util", u>>}

\* A utilization measured between two readings of /proc/stat.
CpuMeasured(l, from, to) ==
    /\ CpuVerdict(l, Utilization(from, to))
    /\ counted' = counted + to.busy - from.busy

\* The load, then /proc/stat: measured since the baseline when there is one and
\* the counters have moved on, or else a new baseline and a nap of 100 ms.
CpuFirst ==
    /\ pc = "idle"
    /\ load' \in Load
    /\ todo' = Mount
    /\ \/ /\ pc' = "ps"                                  \* no /proc/stat
          /\ UNCHANGED <<cpuVars, util, status, alerts, read>>
       \/ /\ Advanced
          /\ CpuMeasured(load', baseline, ticks)
          /\ baseline' = ticks
          /\ UNCHANGED since
       \/ /\ ~Advanced
          /\ pc' = "again"
          /\ baseline' = ticks
          /\ since' = IF baseline = NoReading THEN ticks.busy ELSE since
          /\ UNCHANGED <<counted, util, status, alerts, read>>
    /\ UNCHANGED <<ticks, thresholds, verdict, setBack>>

\* Mutant: the baseline stays where the nap began.
CpuAgainOldBaseline ==
    /\ pc = "again"
    /\ \/ pc' = "ps" /\ UNCHANGED <<cpuVars, util, status, alerts, read>>
       \/ /\ Elapsed(baseline, ticks) > 0
          /\ CpuMeasured(load, baseline, ticks)
          /\ UNCHANGED <<baseline, since>>
    /\ UNCHANGED <<ticks, thresholds, load, todo, verdict, setBack>>

\* The reading after the nap, measured since the one before it.
CpuAgain ==
    /\ pc = "again"
    /\ \/ pc' = "ps" /\ UNCHANGED <<cpuVars, util, status, alerts, read>>
       \/ /\ baseline' = ticks
          /\ UNCHANGED since
          /\ \/ /\ Advanced
                /\ CpuMeasured(load, baseline, ticks)
             \/ /\ ~Advanced
                /\ pc' = "ps"
                /\ UNCHANGED <<counted, util, status, alerts, read>>
    /\ UNCHANGED <<ticks, thresholds, load, todo, verdict, setBack>>

\* The sum of ps over the cores, or, when ps fails, an estimate from a load
\* that is read again.
CpuFromPs ==
    /\ pc = "ps"
    /\ \E u \in Percent \union {AtMost(Full, 100 * l) : l \in Load} : CpuVerdict(load, u)
    /\ UNCHANGED <<ticks, thresholds, cpuVars, load, todo, verdict, setBack>>

-----------------------------------------------------------------------------
(* MemoryCollector *)

\* get_memory_stats: /proc/meminfo, or an estimate without swap, or the made-up
\* figures of the last except clause.
MemoryStats == (Percent \X Percent) \union (Percent \X {0}) \union {<<5000, 0>>}

\* RAM and swap, the first half of collect's judgement.
CollectMemory ==
    /\ pc = "memory"
    /\ \E stats \in MemoryStats :
         LET ram  == Level("ram", stats[1])
             swap == Level("swap", stats[2])
             worst == IF "CRITICAL" \in {ram, swap} THEN "CRITICAL"
                      ELSE IF "WARNING" \in {ram, swap} THEN "WARNING" ELSE "OK"
         IN  /\ status' = Escalate("memory", worst)
             /\ alerts' = alerts \union AlertIf("ram", ram) \union AlertIf("swap", swap)
             /\ read' = read \union {<<"ram", stats[1]>>, <<"swap", stats[2]>>}
    /\ pc' = "leaks"
    /\ UNCHANGED <<ticks, thresholds, cpuVars, load, util, todo, verdict, setBack>>

\* The suspects of analyze_leaks: any makes at least a warning.
CollectLeaks ==
    /\ pc = "leaks"
    /\ \E level \in {"OK", "WARNING"} :
         /\ status' = Escalate("memory", level)
         /\ alerts' = alerts \union AlertIf("leak", level)
    /\ pc' = "disk"
    /\ UNCHANGED <<ticks, thresholds, cpuVars, load, util, todo, verdict, read, setBack>>

-----------------------------------------------------------------------------
(* DiskCollector *)

\* Capacity and inodes of one mountpoint, in that order. One that statvfs cannot
\* read is passed over.
CheckMountpoint(mp) ==
    /\ pc = "disk"
    /\ mp \in todo
    /\ todo' = todo \ {mp}
    /\ \/ UNCHANGED <<status, alerts, read>>
       \/ \E cap, inode \in Percent :
            LET first  == Level("capacity", cap)
                second == Level("inode", inode)
                worst  == IF "CRITICAL" \in {first, second} THEN "CRITICAL"
                          ELSE IF "WARNING" \in {first, second} THEN "WARNING" ELSE "OK"
            IN  /\ status' = Escalate("disk", worst)
                /\ alerts' = alerts \union AlertIf("capacity", first)
                                    \union AlertIf("inode", second)
                /\ read' = read \union {<<"capacity", cap>>, <<"inode", inode>>}
    /\ UNCHANGED <<ticks, thresholds, pc, cpuVars, load, util, verdict, setBack>>

CollectDisk ==
    /\ pc = "disk"
    /\ todo = {}
    /\ pc' = "overall"
    /\ UNCHANGED <<ticks, thresholds, cpuVars, round, setBack>>

-----------------------------------------------------------------------------
(* SysHealthDaemon *)

\* sample_system: the worst of the three statuses.
SampleSystem ==
    /\ pc = "overall"
    /\ pc' = "dispatch"
    /\ verdict' = LET statuses == {status[c] : c \in Collector}
                  IN  IF "CRITICAL" \in statuses THEN "CRITICAL"
                      ELSE IF "WARNING" \in statuses THEN "WARNING" ELSE "OK"
    /\ UNCHANGED <<ticks, thresholds, cpuVars, load, util, status, alerts, todo, read, setBack>>

\* dispatch writes the record out; the next round begins with nothing.
Dispatch ==
    /\ pc = "dispatch"
    /\ pc' = "idle"
    /\ status' = [c \in Collector |-> "OK"]
    /\ alerts' = {} /\ read' = {}
    /\ UNCHANGED <<ticks, thresholds, cpuVars, load, util, todo, verdict, setBack>>

\* A reload between two rounds.
Reload ==
    /\ pc = "idle"
    /\ thresholds' \in Thresholds
    /\ UNCHANGED <<ticks, pc, cpuVars, round, setBack>>

\* The CPU works or idles; the kernel may take iowait, part of idle, back.
CpuRuns ==
    /\ \/ /\ ticks.busy < MaxBusy
          /\ ticks' = [ticks EXCEPT !.busy = @ + 1] /\ UNCHANGED setBack
       \/ /\ ticks.idle < MaxIdle
          /\ ticks' = [ticks EXCEPT !.idle = @ + 1] /\ UNCHANGED setBack
       \/ /\ ticks.idle > 0
          /\ ticks' = [ticks EXCEPT !.idle = @ - 1] /\ setBack' = TRUE
    /\ UNCHANGED <<thresholds, pc, cpuVars, round>>

Next ==
    \/ CpuFirst \/ CpuAgain \/ CpuFromPs
    \/ CollectMemory \/ CollectLeaks
    \/ \E mp \in Mount : CheckMountpoint(mp)
    \/ CollectDisk \/ SampleSystem \/ Dispatch
    \/ Reload \/ CpuRuns

Spec == Init /\ [][Next]_vars

-----------------------------------------------------------------------------
(* What a round reports *)

\* What the readings of the round, taken together, call for.
Reached(bound) == \E r \in read : r[2] >= thresholds[r[1]][bound]
Called ==
    IF Reached("critical") THEN "CRITICAL"
    ELSE IF Reached("warning") \/ <<"leak", "WARNING">> \in alerts THEN "WARNING"
    ELSE "OK"

\* The overall status of a round is what its worst reading calls for, in
\* whatever order the collectors met it, whatever the thresholds, and the alerts
\* say so: the gravest of them is as grave, and an OK round has none.
VerdictIsWorst ==
    pc = "dispatch" =>
        /\ verdict = Called
        /\ verdict = "OK" <=> alerts = {}
        /\ verdict = "CRITICAL" <=> \E a \in alerts : a[2] = "CRITICAL"

\* No busy tick enters two reported utilizations, whatever failed readings, first
\* rounds and stalled counters come between; and as long as the idle counter
\* never goes back, none since the first baseline is left out of all of them.
TicksCountedOnce ==
    baseline # NoReading =>
        /\ counted <= baseline.busy - since
        /\ setBack \/ counted = baseline.busy - since

=============================================================================
