------------------------ MODULE SysHealthDaemonProofs ------------------------
(***************************************************************************)
(* Theorems about SysHealthDaemon, for any set of processes and any number *)
(* of edits of the configuration.                                          *)
(***************************************************************************)
EXTENDS SysHealthDaemon, TLAPS

\* The main process of an active unit is a process.
UnitHasMain == unit \in {"running", "stopping"} => mainPid \in Pid

TypeInv == TypeOK /\ UnitHasMain

LEMMA FileOfType ==
    ASSUME TypeOK, NEW p \in Pid
    PROVE  FileOf(p) \in Version /\ FileOf(p) <= version
BY VersionAssumption DEF TypeOK, FileOf, Version

LEMMA LoadableType ==
    ASSUME TypeOK, NEW p \in Pid, NEW v \in Loadable(p)
    PROVE  v \in Version
BY FileOfType, VersionAssumption DEF Loadable, Version

LEMMA NoMemoryType == NoMemory \in Memory
BY VersionAssumption DEF NoMemory, Memory, Version, Path

LEMMA NoSightType == NoSight \in Sight
BY VersionAssumption DEF NoSight, Sight, Version

\* The memory that __init__ leaves.
LEMMA BuiltFields ==
    ASSUME NEW v, NEW f
    PROVE  /\ Built(v, f).pidPath = f /\ Built(v, f).conf = v
           /\ Built(v, f).inForce = [x \in Part |-> v]
BY DEF Built, NoMemory

LEMMA BuiltType ==
    ASSUME NEW v \in Version, NEW f \in Path
    PROVE  Built(v, f) \in Memory
BY DEF Built, NoMemory, Memory

\* What Construct does when it returns.
LEMMA ConstructEffect ==
    ASSUME TypeOK, NEW p \in Pid, Construct(p)
    PROVE  /\ pc[p] = "construct"
           /\ UNCHANGED <<kind, pidFile, version, unit, mainPid, half>>
           /\ \/ End(p, "construct")
              \/ /\ pc' = [pc EXCEPT ![p] = "handlers"]
                 /\ fate' = fate
                 /\ \E v \in Loadable(p) \ BadShape, f \in Path :
                      /\ kind[p] = "service" => f = "run"
                      /\ mem' = [mem EXCEPT ![p] = Built(v, f)]
                 /\ saw' = [saw EXCEPT ![p] = [saw[p] EXCEPT !.read = FileOf(p)]]
<1>1. pc[p] = "construct" /\ UNCHANGED <<kind, pidFile, version, unit, mainPid, half>>
  BY DEF Construct, unitVars
<1>2. saw' = [saw EXCEPT ![p].read = FileOf(p)]
          => saw' = [saw EXCEPT ![p] = [saw[p] EXCEPT !.read = FileOf(p)]]
  BY DEF TypeOK
<1> QED BY <1>1, <1>2, Zenon DEF Construct, Goto

\* A process that ends keeps the types, whatever it does to the files.
LEMMA EndType ==
    ASSUME TypeInv, NEW p \in Pid, NEW how \in Fate, End(p, how),
           UNCHANGED <<kind, version>>,
           unit' = unit \/ (unit = "running" /\ unit' = "stopping"), mainPid' = mainPid,
           pidFile' \in [Path -> Pid \union {Absent, Empty}], half' \in SUBSET Pid
    PROVE  TypeInv'
<1>1. "gone" \in PC
  BY DEF PC
<1> QED BY <1>1, NoMemoryType, NoSightType DEF TypeInv, TypeOK, UnitHasMain, End, Goto

\* A step of the program keeps the types.
LEMMA StepType ==
    ASSUME TypeInv, NEW p \in Pid, Step(p)
    PROVE  TypeInv'
<1> USE DEF TypeInv, TypeOK, UnitHasMain, unitVars, histVars, Goto
<1> pc[p] \in PC
  OBVIOUS
<1> {"unused", "gone", "loop", "finally", "unwind", "construct", "handlers", "openpid",
     "writepid", "arm", "announce", "load", "apply", "sample", "sleep"} = PC
  BY DEF PC, Startup, LoopBody
<1>m. mem[p] \in Memory /\ saw[p] \in Sight
  OBVIOUS
<1>p. mem[p].pidPath \in Path /\ mem[p].conf \in Version
  BY <1>m DEF Memory
<1>f. {"exit", "construct", "openpid", "writepid", "announce"} \subseteq Fate
  BY DEF Fate
<1>1. CASE Construct(p)
  <2>1. CASE End(p, "construct")
    BY <1>1, <2>1, <1>f, ConstructEffect, EndType
  <2>2. CASE ~End(p, "construct")
    <3>1. [saw[p] EXCEPT !.read = FileOf(p)] \in Sight
      BY <1>m, FileOfType DEF Sight
    <3>2. PICK v \in Loadable(p), f \in Path : mem' = [mem EXCEPT ![p] = Built(v, f)]
      BY <1>1, <2>2, ConstructEffect
    <3>3. Built(v, f) \in Memory
      BY LoadableType, BuiltType
    <3> QED BY <1>1, <2>2, <3>1, <3>2, <3>3, ConstructEffect
  <2> QED BY <2>1, <2>2
<1>2. CASE HandleSignals(p)
  BY <1>2 DEF HandleSignals
<1>3. CASE OpenPidFile(p)
  <2>1. CASE End(p, "openpid") /\ pidFile' = pidFile
    BY <1>3, <2>1, <1>f, EndType DEF OpenPidFile
  <2>2. CASE ~(End(p, "openpid") /\ pidFile' = pidFile)
    BY <1>3, <2>2, <1>p DEF OpenPidFile
  <2> QED BY <2>1, <2>2
<1>4. CASE WritePidFile(p)
  <2>1. pidFile' \in [Path -> Pid \union {Absent, Empty}] /\ half' \in SUBSET Pid
    BY <1>4, <1>p DEF WritePidFile
  <2>2. CASE End(p, "writepid")
    BY <1>4, <2>1, <2>2, <1>f, EndType DEF WritePidFile
  <2>3. CASE ~End(p, "writepid")
    BY <1>4, <2>1, <2>3 DEF WritePidFile
  <2> QED BY <2>2, <2>3
<1>5. CASE Arm(p)
  <2>1. [mem[p] EXCEPT !.running = TRUE] \in Memory
    BY <1>m DEF Memory
  <2> QED BY <1>5, <2>1 DEF Arm
<1>12. CASE Announce(p)
  <2>1. CASE End(p, "announce")
    BY <1>12, <2>1, <1>f, EndType DEF Announce
  <2>2. CASE ~End(p, "announce")
    BY <1>12, <2>2 DEF Announce
  <2> QED BY <2>1, <2>2
<1>6. CASE LoopTest(p)
  BY <1>6 DEF LoopTest
<1>7. CASE ReloadLoad(p)
  <2>1. CASE pc' = [pc EXCEPT ![p] = "unwind"] /\ UNCHANGED <<mem, saw>>
    BY <1>7, <2>1 DEF ReloadLoad
  <2>2. CASE ~(pc' = [pc EXCEPT ![p] = "unwind"] /\ UNCHANGED <<mem, saw>>)
    <3>1. PICK v \in Loadable(p) : mem' = [mem EXCEPT ![p].conf = v]
      BY <1>7, <2>2 DEF ReloadLoad
    <3>2. [mem[p] EXCEPT !.conf = v] \in Memory
      BY <1>m, LoadableType DEF Memory
    <3>3. [saw[p] EXCEPT !.read = FileOf(p)] \in Sight
      BY <1>m, FileOfType DEF Sight
    <3> QED BY <1>7, <2>2, <3>1, <3>2, <3>3 DEF ReloadLoad
  <2> QED BY <2>1, <2>2
<1>8. CASE ReloadApply(p)
  <2> DEFINE new == [x \in Part |-> IF x \in HotPart THEN mem[p].conf ELSE mem[p].inForce[x]]
  <2>1. new \in [Part -> Version]
    BY <1>m, <1>p DEF Memory
  <2>2. [mem[p] EXCEPT !.inForce = new, !.reload = FALSE] \in Memory
    BY <1>m, <2>1 DEF Memory
  <2>3. mem' = mem \/ mem' = [mem EXCEPT ![p] = [mem[p] EXCEPT !.inForce = new, !.reload = FALSE]]
    BY <1>8, <1>m DEF ReloadApply, Memory
  <2>4. mem' \in [Pid -> Memory]
    BY <2>2, <2>3
  <2> QED BY <1>8, <2>4 DEF ReloadApply
<1>9. CASE Sample(p)
  BY <1>9 DEF Sample
<1>10. CASE SleepDone(p)
  BY <1>10 DEF SleepDone
<1>11. CASE Finally(p)
  <2>1. pidFile' \in [Path -> Pid \union {Absent, Empty}] /\ half' = half
    BY <1>11, <1>p DEF Finally
  <2> QED BY <1>11, <2>1, <1>f, EndType DEF Finally
<1> QED BY <1>1, <1>2, <1>3, <1>4, <1>5, <1>6, <1>7, <1>8, <1>9, <1>10, <1>11, <1>12 DEF Step

\* What the handlers' own exceptions do, wherever they find the program.
LEMMA RaiseEffect ==
    ASSUME TypeOK, NEW p \in Pid, HandlerRaises(p)
    PROVE  \/ End(p, pc[p]) /\ pc[p] \in Fate /\ ~InLoop(p)
           \/ /\ UNCHANGED <<mem, saw, fate>>
              /\ Handling(p)
              /\ \/ UNCHANGED pc
                 \/ InLoop(p) /\ pc' = [pc EXCEPT ![p] = "unwind"]
BY DEF HandlerRaises, TypeOK, Fate, Goto

\* So does a signal, whoever sends it.
LEMMA SignalType ==
    ASSUME TypeInv, NEW p \in Pid, Terminate(p) \/ HangUp(p) \/ Kill(p),
           unit' = unit \/ (unit = "running" /\ unit' = "stopping"), mainPid' = mainPid
    PROVE  TypeInv'
<1> USE DEF TypeInv, TypeOK, UnitHasMain, unitVars
<1>m. mem[p] \in Memory /\ saw[p] \in Sight
  OBVIOUS
<1>u. UNCHANGED <<kind, pidFile, version, half>>
  BY DEF Terminate, HangUp, Kill
<1>1. ASSUME NEW how \in Fate, End(p, how) PROVE TypeInv'
  BY <1>1, <1>u, EndType
<1>2. CASE Terminate(p) /\ Handling(p) /\ ~HandlerRaises(p)
  <2>1. [mem[p] EXCEPT !.running = FALSE] \in Memory
    BY <1>m DEF Memory
  <2>2. /\ [saw[p] EXCEPT !.asked = "loop"] \in Sight
        /\ [saw[p] EXCEPT !.asked = "startup"] \in Sight
        /\ [saw[p] EXCEPT !.asked = saw[p].asked] \in Sight
    BY <1>m DEF Sight
  <2>3. saw' \in [Pid -> Sight]
    BY <1>2, <2>2 DEF Terminate
  <2>4. mem' = [mem EXCEPT ![p] = [mem[p] EXCEPT !.running = FALSE]] /\ UNCHANGED <<pc, fate>>
    BY <1>2 DEF Terminate
  <2>5. mem' \in [Pid -> Memory]
    BY <2>1, <2>4
  <2> QED BY <1>u, <2>3, <2>4, <2>5
<1>3. CASE HangUp(p) /\ Handling(p) /\ ~HandlerRaises(p)
  <2>1. [mem[p] EXCEPT !.reload = TRUE] \in Memory
    BY <1>m DEF Memory
  <2>2. /\ [saw[p] EXCEPT !.hupClean = saw[p].hupClean] \in Sight
        /\ [saw[p] EXCEPT !.hupClean = FileOf(p)] \in Sight
    BY <1>m, FileOfType DEF Sight
  <2>3. saw' \in [Pid -> Sight]
    BY <1>3, <2>2 DEF HangUp
  <2>4. mem' = [mem EXCEPT ![p] = [mem[p] EXCEPT !.reload = TRUE]] /\ UNCHANGED <<pc, fate>>
    BY <1>3 DEF HangUp
  <2>5. mem' \in [Pid -> Memory]
    BY <2>1, <2>4
  <2> QED BY <1>u, <2>3, <2>4, <2>5
<1>4. CASE HandlerRaises(p)
  <2>1. CASE End(p, pc[p]) /\ pc[p] \in Fate
    BY <2>1, <1>1
  <2>2. CASE ~(End(p, pc[p]) /\ pc[p] \in Fate)
    <3>1. "unwind" \in PC
      BY DEF PC
    <3>2. UNCHANGED <<mem, saw, fate>> /\ (pc' = pc \/ pc' = [pc EXCEPT ![p] = "unwind"])
      BY <1>4, <2>2, RaiseEffect
    <3> QED BY <3>1, <3>2, <1>u
  <2> QED BY <2>1, <2>2
<1>5. {"SIGTERM", "SIGHUP", "killed"} \subseteq Fate
  BY DEF Fate
<1> QED BY <1>1, <1>2, <1>3, <1>4, <1>5 DEF Terminate, HangUp, Kill

\* The process logrotate signals exists and is live.
LEMMA TargetLive ==
    ASSUME TypeInv, LogrotateTarget # Absent
    PROVE  LogrotateTarget \in Pid /\ Live(LogrotateTarget)
BY PidAssumption DEF TypeInv, TypeOK, UnitHasMain, LogrotateTarget, Path

LEMMA TypeInvInit == Init => TypeInv
BY VersionAssumption, NoMemoryType, NoSightType
DEF Init, TypeInv, TypeOK, UnitHasMain, Path, PC, Fate

LEMMA TypeInvNext == TypeInv /\ [Next]_vars => TypeInv'
<1> SUFFICES ASSUME TypeInv, [Next]_vars PROVE TypeInv'
  OBVIOUS
<1> USE DEF TypeInv, TypeOK, UnitHasMain
<1>1. ASSUME NEW p \in Pid, Step(p) PROVE TypeInv'
  BY <1>1, StepType
<1>2. ASSUME NEW p \in Pid, UnitStart(p) \/ StartMonitor(p) PROVE TypeInv'
  BY <1>2 DEF UnitStart, StartMonitor, Spawn, Goto, PC, Startup, unitVars, histVars
<1>3. ASSUME NEW p \in Pid, Signal(p) PROVE TypeInv'
  BY <1>3, SignalType DEF Signal, unitVars
<1>4. CASE UnitStop
  BY <1>4, SignalType DEF UnitStop, histVars
<1>5. CASE UnitStopTimeout
  BY <1>5, SignalType DEF UnitStopTimeout, unitVars
<1>6. CASE UnitReap
  BY <1>6 DEF UnitReap, histVars, Path
<1>7. CASE UnitReload
  BY <1>7, SignalType DEF UnitReload, unitVars
<1>8. CASE Logrotate
  BY <1>8, SignalType, TargetLive DEF Logrotate, unitVars
<1>9. CASE EditConfig
  BY <1>9, VersionAssumption DEF EditConfig, unitVars, histVars
<1>10. CASE UNCHANGED vars
  BY <1>10 DEF vars, unitVars, histVars
<1> QED BY <1>1, <1>2, <1>3, <1>4, <1>5, <1>6, <1>7, <1>8, <1>9, <1>10 DEF Next

\* Every variable keeps its type, and an active unit has a main process.
THEOREM TypeCorrect == Spec => []TypeInv
BY TypeInvInit, TypeInvNext, PTL DEF Spec

\* The type invariant that the runs check.
THEOREM TypeOKHolds == Spec => []TypeOK
<1>1. TypeInv => TypeOK
  BY DEF TypeInv
<1> QED BY <1>1, TypeCorrect, PTL

-----------------------------------------------------------------------------
(***************************************************************************)
(* The pid files. A number in a pid file is that of a process that has got *)
(* past write_pid_file; while it lives the file is the one it will remove; *)
(* when it is dead and the file is the one under /run, it was killed or an *)
(* exception left it where no finally clause covers it.                    *)
(* The second part is what makes the others inductive: Finally removes     *)
(* self.pid_file, and the number must be nowhere else.                     *)
(***************************************************************************)
Published == {"arm", "announce", "loop", "finally", "unwind", "gone"} \union LoopBody

Uncovered == {"killed", "writepid", "arm", "announce", "finally", "unwind"}

PidFileInv ==
    \A f \in Path, p \in Pid : pidFile[f] = p =>
        /\ pc[p] \in Published
        /\ Live(p) => mem[p].pidPath = f
        /\ f = "run" /\ pc[p] = "gone" => fate[p] \in Uncovered

\* A process that ends for one of those reasons, or that holds no pid file.
LEMMA PidFileEnd ==
    ASSUME TypeInv, PidFileInv, NEW p \in Pid, NEW how, End(p, how), UNCHANGED pidFile,
           how \in Uncovered \/ \A f \in Path : pidFile[f] # p
    PROVE  PidFileInv'
BY DEF TypeInv, TypeOK, PidFileInv, Published, LoopBody, Live, Goto, End

LEMMA PidFileStep ==
    ASSUME TypeInv, PidFileInv, NEW p \in Pid, Step(p)
    PROVE  PidFileInv'
<1> USE DEF TypeInv, TypeOK, PidFileInv, Published, LoopBody, Live, Goto, unitVars, histVars
<1>m. mem[p] \in [running : BOOLEAN, reload : BOOLEAN, conf : Version,
                  inForce : [Part -> Version], pidPath : Path]
  BY DEF Memory
<1>1. CASE Construct(p)
  <2>1. \A q \in Pid : q # p => pc'[q] = pc[q] /\ mem'[q] = mem[q] /\ fate'[q] = fate[q]
    BY <1>1, ConstructEffect DEF End
  <2>2. pidFile' = pidFile /\ pc[p] = "construct"
    BY <1>1, ConstructEffect
  <2> QED BY <2>1, <2>2
<1>2. CASE HandleSignals(p)
  BY <1>2 DEF HandleSignals
<1>3. CASE OpenPidFile(p)
  <2>1. CASE End(p, "openpid") /\ UNCHANGED pidFile
    <3>1. \A f \in Path : pidFile[f] # p
      BY <1>3 DEF OpenPidFile
    <3> QED BY <2>1, <3>1, PidFileEnd
  <2>2. CASE ~(End(p, "openpid") /\ UNCHANGED pidFile)
    BY <1>3, <2>2, <1>m, PidAssumption DEF OpenPidFile
  <2> QED BY <2>1, <2>2
<1>4. CASE WritePidFile(p)
  <2>1. CASE End(p, "writepid")
    BY <1>4, <2>1, <1>m DEF WritePidFile, End, Uncovered
  <2>2. CASE ~End(p, "writepid")
    BY <1>4, <2>2, <1>m DEF WritePidFile
  <2> QED BY <2>1, <2>2
<1>5. CASE Arm(p)
  <2>1. \A q \in Pid : mem'[q].pidPath = mem[q].pidPath
    BY <1>5 DEF Arm, Memory
  <2> QED BY <1>5, <2>1 DEF Arm
<1>12. CASE Announce(p)
  <2>1. CASE End(p, "announce")
    BY <1>12, <2>1, PidFileEnd DEF Announce, Uncovered
  <2>2. CASE ~End(p, "announce")
    BY <1>12, <2>2 DEF Announce
  <2> QED BY <2>1, <2>2
<1>6. CASE LoopTest(p)
  BY <1>6 DEF LoopTest
<1>7. CASE ReloadLoad(p)
  <2>1. \A q \in Pid : mem'[q].pidPath = mem[q].pidPath
    <3>1. mem' = mem \/ \E v : mem' = [mem EXCEPT ![p].conf = v]
      BY <1>7 DEF ReloadLoad
    <3> QED BY <3>1, <1>m
  <2> QED BY <1>7, <2>1 DEF ReloadLoad
<1>8. CASE ReloadApply(p)
  <2>1. \A q \in Pid : mem'[q].pidPath = mem[q].pidPath
    <3> DEFINE force == [x \in Part |-> IF x \in HotPart THEN mem[p].conf ELSE mem[p].inForce[x]]
    <3>1. mem' = mem \/ mem' = [mem EXCEPT ![p].inForce = force, ![p].reload = FALSE]
      BY <1>8 DEF ReloadApply
    <3> HIDE DEF force
    <3> QED BY <3>1, <1>m
  <2> QED BY <1>8, <2>1 DEF ReloadApply
<1>9. CASE Sample(p)
  BY <1>9 DEF Sample
<1>10. CASE SleepDone(p)
  BY <1>10 DEF SleepDone
<1>11. CASE Finally(p)
  BY <1>11, <1>m, PidAssumption DEF Finally, End, Path
<1> QED BY <1>1, <1>2, <1>3, <1>4, <1>5, <1>6, <1>7, <1>8, <1>9, <1>10, <1>11, <1>12 DEF Step

LEMMA PidFileSignal ==
    ASSUME TypeInv, PidFileInv, NEW p \in Pid, Live(p),
           Terminate(p) \/ HangUp(p) \/ Kill(p)
    PROVE  PidFileInv'
<1> USE DEF TypeInv, TypeOK, PidFileInv, Published, LoopBody, Live, Goto
<1>u. UNCHANGED pidFile
  BY DEF Terminate, HangUp, Kill
<1>1. CASE Handling(p) /\ (Terminate(p) \/ HangUp(p)) /\ ~HandlerRaises(p)
  <2>0. \/ mem' = [mem EXCEPT ![p] = [mem[p] EXCEPT !.running = FALSE]]
        \/ mem' = [mem EXCEPT ![p] = [mem[p] EXCEPT !.reload = TRUE]]
    BY <1>1 DEF Terminate, HangUp
  <2>m. mem[p] \in [running : BOOLEAN, reload : BOOLEAN, conf : Version,
                    inForce : [Part -> Version], pidPath : Path]
    BY DEF Memory
  <2>1. ASSUME NEW q \in Pid PROVE mem'[q].pidPath = mem[q].pidPath
    <3>1. CASE mem' = [mem EXCEPT ![p] = [mem[p] EXCEPT !.running = FALSE]]
      BY <3>1, <2>m
    <3>2. CASE mem' = [mem EXCEPT ![p] = [mem[p] EXCEPT !.reload = TRUE]]
      BY <3>2, <2>m
    <3> QED BY <2>0, <3>1, <3>2
  <2>2. UNCHANGED <<pc, fate, pidFile>>
    BY <1>1 DEF Terminate, HangUp
  <2> QED BY <2>1, <2>2
<1>2. CASE ~Handling(p) /\ (Terminate(p) \/ HangUp(p))
  BY <1>2 DEF Terminate, HangUp, End, Handling, HandlerRaises
<1>3. CASE Kill(p)
  BY <1>3, PidFileEnd DEF Kill, Uncovered
<1>4. CASE HandlerRaises(p)
  <2>1. CASE End(p, pc[p]) /\ ~InLoop(p)
    <3>1. pc[p] \in Uncovered \/ \A f \in Path : pidFile[f] # p
      BY <2>1 DEF InLoop, Uncovered
    <3> QED BY <2>1, <3>1, <1>u, PidFileEnd
  <2>2. CASE ~(End(p, pc[p]) /\ ~InLoop(p))
    BY <1>4, <2>2, <1>u, RaiseEffect DEF InLoop
  <2> QED BY <2>1, <2>2
<1> QED BY <1>1, <1>2, <1>3, <1>4

LEMMA PidFileNext ==
    ASSUME TypeInv, PidFileInv, [Next]_vars
    PROVE  PidFileInv'
<1>1. ASSUME NEW p \in Pid, Step(p) PROVE PidFileInv'
  BY <1>1, PidFileStep
<1>2. ASSUME NEW p \in Pid, UnitStart(p) \/ StartMonitor(p) PROVE PidFileInv'
  BY <1>2 DEF UnitStart, StartMonitor, Spawn, Goto, PidFileInv, Published, LoopBody, Live,
              TypeInv, TypeOK, histVars
<1>3. ASSUME NEW p \in Pid, Signal(p) PROVE PidFileInv'
  BY <1>3, PidFileSignal DEF Signal
<1>4. CASE UnitStop
  BY <1>4, PidFileSignal DEF UnitStop, TypeInv, UnitHasMain, PidFileInv, Live, histVars
<1>5. CASE UnitStopTimeout
  BY <1>5, PidFileSignal DEF UnitStopTimeout, TypeInv, UnitHasMain
<1>6. CASE UnitReap
  BY <1>6, PidAssumption DEF UnitReap, PidFileInv, Path, Live, TypeInv, TypeOK, histVars
<1>7. CASE UnitReload
  BY <1>7, PidFileSignal DEF UnitReload, TypeInv, UnitHasMain
<1>8. CASE Logrotate
  BY <1>8, PidFileSignal, TargetLive DEF Logrotate
<1>9. CASE EditConfig
  BY <1>9 DEF EditConfig, PidFileInv, Live, histVars
<1>10. CASE UNCHANGED vars
  BY <1>10 DEF vars, PidFileInv, Live, histVars
<1> QED BY <1>1, <1>2, <1>3, <1>4, <1>5, <1>6, <1>7, <1>8, <1>9, <1>10 DEF Next

LEMMA PidFileInvHolds == Spec => []PidFileInv
<1>1. Init => PidFileInv
  BY PidAssumption DEF Init, PidFileInv
<1>2. TypeInv /\ PidFileInv /\ [Next]_vars => PidFileInv'
  BY PidFileNext
<1> QED BY <1>1, <1>2, TypeCorrect, PTL DEF Spec

\* However many instances run, whatever signals they get and however they end, a
\* pid file never names a live process that a SIGHUP would kill.
THEOREM PidFilesNameHandlers == Spec => []PidFileNamesHandlers
<1>1. PidFileInv => PidFileNamesHandlers
  BY DEF PidFileInv, PidFileNamesHandlers, Published, LoopBody, Live, Handling
<1> QED BY <1>1, PidFileInvHolds, PTL

\* The number of a dead process in /run/syshealthd.pid is that of one that was killed
\* or that an exception left outside the try of run(): no exception in a sample, a nap
\* or a reload leaves it, for any number of instances.
THEOREM StalePidsAreExplained == Spec => []StalePidExplained
<1>1. PidFileInv => StalePidExplained
  BY DEF PidFileInv, StalePidExplained, Path, Uncovered
<1> QED BY <1>1, PidFileInvHolds, PTL

-----------------------------------------------------------------------------
(***************************************************************************)
(* Reloads. CleanReloadSeen is not inductive: that ReloadApply may clear   *)
(* the flag follows from what load_config has read one step earlier, which *)
(* no SIGHUP counted in hupClean can have overtaken, and from versions     *)
(* that only grow.                                                         *)
(***************************************************************************)
Seen(p) == saw[p].read >= saw[p].hupClean

ReloadInv ==
    \A p \in Pid :
        /\ saw[p].hupClean <= FileOf(p)
        /\ ~Handling(p) => saw[p].hupClean = 0
        /\ Handling(p) /\ ~mem[p].reload => Seen(p)
        /\ pc[p] = "apply" => Seen(p)

LEMMA ReloadStep ==
    ASSUME TypeInv, ReloadInv, NEW p \in Pid, Step(p)
    PROVE  ReloadInv'
<1> USE DEF TypeInv, TypeOK, Goto, unitVars, histVars
<1>m. mem[p] \in Memory /\ saw[p] \in Sight
  OBVIOUS
<1>s. saw[p].read \in Nat /\ saw[p].hupClean \in Nat /\ FileOf(p) \in Nat
  BY <1>m, FileOfType, VersionAssumption DEF Sight, Version
<1>f. \A q \in Pid : FileOf(q)' = FileOf(q)
  BY DEF Step, FileOf, Construct, HandleSignals, OpenPidFile, WritePidFile, Arm, Announce, LoopTest,
         ReloadLoad, ReloadApply, Sample, SleepDone, Finally
<1>o. \A q \in Pid : q # p => pc'[q] = pc[q] /\ mem'[q] = mem[q] /\ saw'[q] = saw[q]
  BY DEF Step, End, Construct, HandleSignals, OpenPidFile, WritePidFile, Arm, Announce, LoopTest,
         ReloadLoad, ReloadApply, Sample, SleepDone, Finally
<1> DEFINE Ok == /\ saw'[p].hupClean <= FileOf(p)
                 /\ ~Handling(p)' => saw'[p].hupClean = 0
                 /\ Handling(p)' /\ ~mem'[p].reload => saw'[p].read >= saw'[p].hupClean
                 /\ pc'[p] = "apply" => saw'[p].read >= saw'[p].hupClean
<1>0. SUFFICES Ok
  BY <1>f, <1>o DEF ReloadInv, Seen, Handling, Live
<1>i. /\ saw[p].hupClean <= FileOf(p)
      /\ ~Handling(p) => saw[p].hupClean = 0
      /\ Handling(p) /\ ~mem[p].reload => saw[p].read >= saw[p].hupClean
      /\ pc[p] = "apply" => saw[p].read >= saw[p].hupClean
  BY DEF ReloadInv, Seen
<1> USE DEF Handling, Live
<1>e. ASSUME NEW how, End(p, how) PROVE Ok
  BY <1>e, <1>s DEF End, NoSight
<1>1. CASE Construct(p)
  <2>1. CASE End(p, "construct")
    BY <2>1, <1>e
  <2>2. CASE ~End(p, "construct")
    <3>1. pc'[p] = "handlers" /\ saw'[p].hupClean = saw[p].hupClean /\ pc[p] = "construct"
      BY <1>1, <2>2, <1>m, ConstructEffect DEF Sight
    <3> QED BY <3>1, <1>i, <1>s
  <2> QED BY <2>1, <2>2
<1>2. CASE HandleSignals(p)
  BY <1>2, <1>i, <1>s DEF HandleSignals
<1>3. CASE OpenPidFile(p)
  BY <1>3, <1>i, <1>s, <1>e DEF OpenPidFile
<1>4. CASE WritePidFile(p)
  BY <1>4, <1>i, <1>s, <1>e DEF WritePidFile
<1>12. CASE Announce(p)
  BY <1>12, <1>i, <1>s, <1>e DEF Announce
<1>5. CASE Arm(p)
  <2>1. mem'[p].reload = mem[p].reload
    BY <1>5, <1>m DEF Arm, Memory
  <2> QED BY <1>5, <2>1, <1>i, <1>s DEF Arm
<1>6. CASE LoopTest(p)
  BY <1>6, <1>i, <1>s DEF LoopTest
<1>7. CASE ReloadLoad(p)
  <2>1. CASE pc' = [pc EXCEPT ![p] = "unwind"] /\ UNCHANGED <<mem, saw>>
    BY <1>7, <2>1, <1>i, <1>s DEF ReloadLoad
  <2>2. CASE ~(pc' = [pc EXCEPT ![p] = "unwind"] /\ UNCHANGED <<mem, saw>>)
    <3>1. saw'[p].read = FileOf(p) /\ saw'[p].hupClean = saw[p].hupClean
      BY <1>7, <2>2, <1>m DEF ReloadLoad, Sight
    <3>2. pc[p] = "load" /\ pc'[p] = "apply"
      BY <1>7, <2>2 DEF ReloadLoad
    <3> QED BY <3>1, <3>2, <1>i, <1>s
  <2> QED BY <2>1, <2>2
<1>8. CASE ReloadApply(p)
  BY <1>8, <1>i, <1>s DEF ReloadApply
<1>9. CASE Sample(p)
  BY <1>9, <1>i, <1>s DEF Sample
<1>10. CASE SleepDone(p)
  BY <1>10, <1>i, <1>s DEF SleepDone
<1>11. CASE Finally(p)
  BY <1>11, <1>e DEF Finally
<1> QED BY <1>1, <1>2, <1>3, <1>4, <1>5, <1>6, <1>7, <1>8, <1>9, <1>10, <1>11, <1>12 DEF Step

LEMMA ReloadSignal ==
    ASSUME TypeInv, ReloadInv, NEW p \in Pid, Live(p),
           Terminate(p) \/ HangUp(p) \/ Kill(p)
    PROVE  ReloadInv'
<1> USE DEF TypeInv, TypeOK, Goto
<1>m. mem[p] \in Memory /\ saw[p] \in Sight
  OBVIOUS
<1>s. saw[p].read \in Nat /\ saw[p].hupClean \in Nat /\ FileOf(p) \in Nat
  BY <1>m, FileOfType, VersionAssumption DEF Sight, Version
<1>f. \A q \in Pid : FileOf(q)' = FileOf(q)
  BY DEF FileOf, Terminate, HangUp, Kill
<1>o. \A q \in Pid : q # p => pc'[q] = pc[q] /\ mem'[q] = mem[q] /\ saw'[q] = saw[q]
  BY DEF End, Terminate, HangUp, Kill, HandlerRaises
<1>i. /\ saw[p].hupClean <= FileOf(p)
      /\ ~Handling(p) => saw[p].hupClean = 0
      /\ Handling(p) /\ ~mem[p].reload => saw[p].read >= saw[p].hupClean
      /\ pc[p] = "apply" => saw[p].read >= saw[p].hupClean
  BY DEF ReloadInv, Seen
<1> DEFINE Ok == /\ saw'[p].hupClean <= FileOf(p)
                 /\ ~Handling(p)' => saw'[p].hupClean = 0
                 /\ Handling(p)' /\ ~mem'[p].reload => saw'[p].read >= saw'[p].hupClean
                 /\ pc'[p] = "apply" => saw'[p].read >= saw'[p].hupClean
<1>0. SUFFICES Ok
  BY <1>f, <1>o DEF ReloadInv, Seen, Handling, Live
<1>1. CASE Handling(p) /\ Terminate(p) /\ ~HandlerRaises(p)
  <2>1. /\ saw'[p].hupClean = saw[p].hupClean /\ saw'[p].read = saw[p].read
        /\ mem'[p].reload = mem[p].reload
    BY <1>1, <1>m DEF Terminate, Sight, Memory
  <2> QED BY <1>1, <2>1, <1>i, <1>s DEF Terminate, Handling, Live
<1>2. CASE Handling(p) /\ HangUp(p) /\ ~HandlerRaises(p)
  <2>1. /\ saw'[p].read = saw[p].read
        /\ saw'[p].hupClean = IF pc[p] = "apply" THEN saw[p].hupClean ELSE FileOf(p)
        /\ mem'[p].reload = TRUE
    BY <1>2, <1>m DEF HangUp, Sight, Memory
  <2> QED BY <1>2, <2>1, <1>i, <1>s DEF HangUp, Handling, Live
<1>3. ASSUME NEW how, End(p, how) PROVE Ok
  BY <1>3, <1>s DEF End, NoSight, Handling, Live
<1>4. CASE HandlerRaises(p)
  <2>1. CASE End(p, pc[p])
    BY <2>1, <1>3
  <2>2. CASE ~End(p, pc[p])
    BY <1>4, <2>2, <1>i, <1>s, RaiseEffect DEF InLoop, LoopBody, Handling, Live
  <2> QED BY <2>1, <2>2
<1> QED BY <1>1, <1>2, <1>3, <1>4 DEF Terminate, HangUp, Kill

LEMMA ReloadNext ==
    ASSUME TypeInv, ReloadInv, [Next]_vars
    PROVE  ReloadInv'
<1>s. \A q \in Pid : saw[q].read \in Nat /\ saw[q].hupClean \in Nat /\ FileOf(q) \in Nat
  BY FileOfType, VersionAssumption DEF TypeInv, TypeOK, Sight, Version
<1>1. ASSUME NEW p \in Pid, Step(p) PROVE ReloadInv'
  BY <1>1, ReloadStep
<1>2. ASSUME NEW p \in Pid, UnitStart(p) \/ StartMonitor(p) PROVE ReloadInv'
  <2>1. /\ \A q \in Pid : FileOf(q)' = FileOf(q) \/ q = p
        /\ pc[p] = "unused" /\ pc' = [pc EXCEPT ![p] = "construct"]
        /\ UNCHANGED <<mem, saw>>
        /\ FileOf(p)' \in Nat
    BY <1>2, VersionAssumption
    DEF UnitStart, StartMonitor, Spawn, Goto, FileOf, TypeInv, TypeOK, histVars
  <2> QED BY <2>1, <1>s DEF ReloadInv, Seen, Handling, Live, TypeInv, TypeOK
<1>3. ASSUME NEW p \in Pid, Signal(p) PROVE ReloadInv'
  BY <1>3, ReloadSignal DEF Signal
<1>4. CASE UnitStop
  BY <1>4, ReloadSignal
  DEF UnitStop, TypeInv, UnitHasMain, ReloadInv, Seen, Handling, Live, FileOf, histVars
<1>5. CASE UnitStopTimeout
  BY <1>5, ReloadSignal DEF UnitStopTimeout, TypeInv, UnitHasMain
<1>6. CASE UnitReap
  BY <1>6 DEF UnitReap, ReloadInv, Seen, Handling, Live, FileOf, histVars
<1>7. CASE UnitReload
  BY <1>7, ReloadSignal DEF UnitReload, TypeInv, UnitHasMain
<1>8. CASE Logrotate
  BY <1>8, ReloadSignal, TargetLive DEF Logrotate
<1>9. CASE EditConfig
  <2>1. \A q \in Pid : FileOf(q)' >= FileOf(q) /\ FileOf(q)' \in Nat
    BY <1>9, VersionAssumption DEF EditConfig, FileOf, TypeInv, TypeOK
  <2> QED BY <1>9, <2>1, <1>s DEF EditConfig, ReloadInv, Seen, Handling, Live, histVars
<1>10. CASE UNCHANGED vars
  BY <1>10 DEF vars, ReloadInv, Seen, Handling, Live, FileOf, histVars
<1> QED BY <1>1, <1>2, <1>3, <1>4, <1>5, <1>6, <1>7, <1>8, <1>9, <1>10 DEF Next

LEMMA ReloadInvHolds == Spec => []ReloadInv
<1>1. Init => ReloadInv
  <2> SUFFICES ASSUME Init, NEW p \in Pid
               PROVE  /\ saw[p].hupClean = 0 /\ FileOf(p) >= 0
                      /\ pc[p] = "unused"
    BY DEF ReloadInv, Seen, Handling, Live
  <2> QED BY VersionAssumption DEF Init, FileOf, NoSight
<1>2. TypeInv /\ ReloadInv /\ [Next]_vars => ReloadInv'
  BY ReloadNext
<1> QED BY <1>1, <1>2, TypeCorrect, PTL DEF Spec

\* A process with no reload pending has read a configuration at least as new as
\* the one on file at its last SIGHUP, those of the apply window excepted.
THEOREM CleanReloadsAreSeen == Spec => []CleanReloadSeen
<1>1. ReloadInv => CleanReloadSeen
  BY DEF ReloadInv, CleanReloadSeen, Seen, Handling, Live, InLoop, LoopBody
<1> QED BY <1>1, ReloadInvHolds, PTL

-----------------------------------------------------------------------------
(***************************************************************************)
(* logrotate and a service alone on the host. The service that runs is the *)
(* unit's main process, and it uses the file under /run. As long as nobody *)
(* has started a monitor, that file follows its progress: systemd removed  *)
(* it before the start, so it is absent until open truncates it, and from  *)
(* then on it holds the number, unless open or write has failed.           *)
(***************************************************************************)
Active == unit \in {"running", "stopping"}

ServiceInv ==
    /\ \A p \in Pid : kind[p] = "none" <=> pc[p] = "unused"
    /\ \A p \in Pid : kind[p] # "monitor" => mem[p].pidPath = "run"
    /\ \A p \in Pid : kind[p] = "service" /\ Live(p) => Active /\ mainPid = p
    /\ Active => kind[mainPid] = "service"

Alone == \A p \in Pid : kind[p] # "monitor"

AloneInv ==
    Alone =>
        /\ ~Active => pidFile["run"] = Absent
        /\ Active /\ pc[mainPid] \in {"construct", "handlers", "openpid"} =>
               pidFile["run"] = Absent
        /\ Active /\ pc[mainPid] \in {"arm", "announce", "loop", "finally", "unwind"}
                                    \union LoopBody =>
               pidFile["run"] \in {Absent, mainPid} \/ mainPid \in half

\* What every step of the program leaves alone.
LEMMA StepFrame ==
    ASSUME TypeInv, NEW p \in Pid, Step(p)
    PROVE  /\ UNCHANGED <<kind, unit, mainPid>>
           /\ pc[p] \notin {"unused", "gone"} /\ pc'[p] # "unused"
           /\ \A q \in Pid : q # p => pc'[q] = pc[q] /\ mem'[q] = mem[q]
<1> USE DEF TypeInv, TypeOK, Goto, unitVars, histVars
<1>1. CASE Construct(p)
  BY <1>1, ConstructEffect DEF End
<1>2. CASE HandleSignals(p) \/ OpenPidFile(p) \/ WritePidFile(p) \/ Arm(p)
  BY <1>2 DEF HandleSignals, OpenPidFile, WritePidFile, Arm, End
<1>5. CASE Announce(p) \/ LoopTest(p)
  BY <1>5 DEF Announce, LoopTest, End
<1>3. CASE ReloadLoad(p) \/ ReloadApply(p) \/ Sample(p) \/ SleepDone(p)
  BY <1>3 DEF ReloadLoad, ReloadApply, Sample, SleepDone
<1>4. CASE Finally(p)
  BY <1>4 DEF Finally, End
<1> QED BY <1>1, <1>2, <1>3, <1>4, <1>5 DEF Step

\* A process keeps the pid file that __init__ chose; the service's is under /run.
LEMMA StepPath ==
    ASSUME TypeInv, NEW p \in Pid, Step(p), kind[p] = "service", mem[p].pidPath = "run"
    PROVE  mem'[p].pidPath = "run"
<1> USE DEF TypeInv, TypeOK, Goto
<1>m. mem[p] \in Memory
  OBVIOUS
<1>1. CASE Construct(p)
  <2>1. CASE End(p, "construct")
    BY <2>1 DEF End, NoMemory
  <2>2. CASE ~End(p, "construct")
    <3>1. PICK v \in Loadable(p), f \in Path :
            /\ kind[p] = "service" => f = "run"
            /\ mem' = [mem EXCEPT ![p] = Built(v, f)]
      BY <1>1, <2>2, ConstructEffect
    <3> QED BY <3>1, BuiltFields
  <2> QED BY <2>1, <2>2
<1>2. CASE HandleSignals(p) \/ OpenPidFile(p) \/ WritePidFile(p) \/ Announce(p) \/ LoopTest(p)
  BY <1>2 DEF HandleSignals, OpenPidFile, WritePidFile, Announce, LoopTest, End, NoMemory
<1>3. CASE Arm(p) \/ ReloadLoad(p)
  BY <1>3, <1>m DEF Arm, ReloadLoad, Memory
<1>4. CASE ReloadApply(p)
  BY <1>4, <1>m DEF ReloadApply, Memory
<1>5. CASE Sample(p) \/ SleepDone(p)
  BY <1>5 DEF Sample, SleepDone
<1>6. CASE Finally(p)
  BY <1>6 DEF Finally, End, NoMemory
<1> QED BY <1>1, <1>2, <1>3, <1>4, <1>5, <1>6 DEF Step

\* A signal leaves a process where it is, sends it out of its loop, or ends it.
LEMMA SignalFrame ==
    ASSUME TypeInv, NEW p \in Pid, Terminate(p) \/ HangUp(p) \/ Kill(p)
    PROVE  /\ UNCHANGED <<kind, pidFile, half>>
           /\ pc'[p] \in {pc[p], "gone"} \/ (InLoop(p) /\ pc'[p] = "unwind")
           /\ \A q \in Pid : q # p => pc'[q] = pc[q] /\ mem'[q] = mem[q]
           /\ mem'[p].pidPath \in {mem[p].pidPath, "run"}
<1> USE DEF TypeInv, TypeOK, Goto
<1>m. mem[p] \in Memory
  OBVIOUS
<1>1. ASSUME NEW how, End(p, how)
      PROVE  /\ pc'[p] = "gone" /\ mem'[p].pidPath = "run"
             /\ \A q \in Pid : q # p => pc'[q] = pc[q] /\ mem'[q] = mem[q]
  BY <1>1 DEF End, NoMemory
<1>2. CASE Handling(p) /\ (Terminate(p) \/ HangUp(p)) /\ ~HandlerRaises(p)
  BY <1>2, <1>m DEF Terminate, HangUp, Memory
<1>3. UNCHANGED <<kind, pidFile, half>>
  BY DEF Terminate, HangUp, Kill
<1>4. CASE HandlerRaises(p)
  BY <1>4, <1>3, <1>1, RaiseEffect
<1> QED BY <1>1, <1>2, <1>3, <1>4 DEF Terminate, HangUp, Kill

LEMMA ServiceNext ==
    ASSUME TypeInv, ServiceInv, [Next]_vars
    PROVE  ServiceInv'
<1> USE DEF ServiceInv, Active, Live
<1>1. ASSUME NEW p \in Pid, Step(p) PROVE ServiceInv'
  <2>1. kind[p] \in {"service", "monitor"}
    BY <1>1, StepFrame DEF TypeInv, TypeOK
  <2>2. kind[p] # "monitor" => mem'[p].pidPath = "run"
    BY <1>1, <2>1, StepPath
  <2> QED BY <1>1, <2>2, StepFrame
<1>2. ASSUME NEW p \in Pid, UnitStart(p) \/ StartMonitor(p) PROVE ServiceInv'
  <2>1. PICK k \in {"service", "monitor"} :
          /\ kind' = [kind EXCEPT ![p] = k]
          /\ k = "service" => ~Active /\ unit' = "running" /\ mainPid' = p
          /\ k = "monitor" => UNCHANGED <<unit, mainPid>>
    BY <1>2 DEF UnitStart, StartMonitor, Spawn, unitVars
  <2>2. pc[p] = "unused" /\ pc' = [pc EXCEPT ![p] = "construct"] /\ UNCHANGED mem
    BY <1>2 DEF UnitStart, StartMonitor, Spawn, Goto
  <2>3. kind[p] = "none"
    BY <2>2
  <2>4. \A q \in Pid : kind'[q] = IF q = p THEN k ELSE kind[q]
    BY <2>1 DEF TypeInv, TypeOK
  <2>5. \A q \in Pid : pc'[q] = IF q = p THEN "construct" ELSE pc[q]
    BY <2>2 DEF TypeInv, TypeOK
  <2> QED BY <2>1, <2>2, <2>3, <2>4, <2>5 DEF TypeInv, UnitHasMain
<1>3. ASSUME NEW p \in Pid, Live(p), Terminate(p) \/ HangUp(p) \/ Kill(p),
             unit' = unit \/ (unit = "running" /\ unit' = "stopping"), mainPid' = mainPid
      PROVE  ServiceInv'
  BY <1>3, SignalFrame DEF InLoop, LoopBody
<1>4. CASE UnitStop
  BY <1>4, <1>3 DEF UnitStop, TypeInv, UnitHasMain, histVars
<1>5. CASE UnitReap
  BY <1>5 DEF UnitReap, TypeInv, TypeOK, UnitHasMain
<1>6. CASE EditConfig \/ UNCHANGED vars
  BY <1>6 DEF EditConfig, vars, unitVars
<1>7. CASE UnitStopTimeout \/ UnitReload
  BY <1>7, <1>3 DEF UnitStopTimeout, UnitReload, unitVars, TypeInv, UnitHasMain
<1>8. CASE Logrotate
  BY <1>8, <1>3, TargetLive DEF Logrotate, unitVars
<1>9. ASSUME NEW p \in Pid, Signal(p) PROVE ServiceInv'
  BY <1>9, <1>3 DEF Signal, unitVars
<1> QED BY <1>1, <1>2, <1>4, <1>5, <1>6, <1>7, <1>8, <1>9 DEF Next

LEMMA AloneStep ==
    ASSUME TypeInv, ServiceInv, AloneInv, NEW p \in Pid, Step(p)
    PROVE  AloneInv'
<1>1. SUFFICES ASSUME Alone PROVE AloneInv'
  BY StepFrame DEF AloneInv, Alone
<1>2. /\ Active /\ mainPid = p /\ mem[p].pidPath = "run"
      /\ UNCHANGED <<kind, unit, mainPid>>
  BY <1>1, StepFrame DEF Alone, ServiceInv, Live, TypeInv, TypeOK
<1> USE <1>1, <1>2 DEF AloneInv, Alone, Active, LoopBody, TypeInv, TypeOK, Goto, Path
<1>3. CASE Construct(p)
  BY <1>3, ConstructEffect DEF End
<1>4. CASE HandleSignals(p)
  BY <1>4 DEF HandleSignals
<1>5. CASE OpenPidFile(p)
  BY <1>5 DEF OpenPidFile, End
<1>6. CASE WritePidFile(p)
  BY <1>6 DEF WritePidFile, End
<1>10. CASE Announce(p)
  BY <1>10 DEF Announce, End
<1>7. CASE Arm(p) \/ LoopTest(p)
  BY <1>7 DEF Arm, LoopTest, histVars
<1>8. CASE ReloadLoad(p) \/ ReloadApply(p) \/ Sample(p) \/ SleepDone(p)
  BY <1>8 DEF ReloadLoad, ReloadApply, Sample, SleepDone, histVars
<1>9. CASE Finally(p)
  BY <1>9 DEF Finally, End
<1> QED BY <1>3, <1>4, <1>5, <1>6, <1>7, <1>8, <1>9, <1>10 DEF Step

LEMMA AloneNext ==
    ASSUME TypeInv, ServiceInv, AloneInv, [Next]_vars
    PROVE  AloneInv'
<1> USE DEF AloneInv, Alone, Active, LoopBody, TypeInv, TypeOK, UnitHasMain, Live
<1>1. ASSUME NEW p \in Pid, Step(p) PROVE AloneInv'
  BY <1>1, AloneStep
<1>2. ASSUME NEW p \in Pid, UnitStart(p) PROVE AloneInv'
  BY <1>2 DEF UnitStart, Spawn, Goto, ServiceInv
<1>3. ASSUME NEW p \in Pid, StartMonitor(p) PROVE AloneInv'
  BY <1>3 DEF StartMonitor, Spawn
<1>4. ASSUME NEW p \in Pid, Terminate(p) \/ HangUp(p) \/ Kill(p),
             unit' = unit \/ (unit = "running" /\ unit' = "stopping"), mainPid' = mainPid
      PROVE  AloneInv'
  BY <1>4, SignalFrame DEF InLoop
<1>5. CASE UnitStop
  BY <1>5, <1>4 DEF UnitStop, histVars
<1>6. CASE UnitReap
  BY <1>6 DEF UnitReap, Path
<1>7. CASE EditConfig \/ UNCHANGED vars
  BY <1>7 DEF EditConfig, vars, unitVars, histVars
<1>8. CASE UnitStopTimeout \/ UnitReload
  BY <1>8, <1>4 DEF UnitStopTimeout, UnitReload, unitVars
<1>9. CASE Logrotate
  BY <1>9, <1>4, TargetLive DEF Logrotate, unitVars
<1>10. ASSUME NEW p \in Pid, Signal(p) PROVE AloneInv'
  BY <1>10, <1>4 DEF Signal, unitVars
<1> QED BY <1>1, <1>2, <1>3, <1>5, <1>6, <1>7, <1>8, <1>9, <1>10 DEF Next

LEMMA AloneInvHolds == Spec => [](ServiceInv /\ AloneInv)
<1>1. Init => ServiceInv /\ AloneInv
  BY DEF Init, ServiceInv, AloneInv, Active, Live, NoMemory, Path
<1>2. TypeInv /\ ServiceInv /\ AloneInv /\ [Next]_vars => ServiceInv' /\ AloneInv'
  BY ServiceNext, AloneNext
<1> QED BY <1>1, <1>2, TypeCorrect, PTL DEF Spec

\* While no monitor has been started, a unit that is not active has left no pid file
\* under /run, however it ended: what a SIGKILL or a failed write leaves there,
\* systemd removes before the unit counts as stopped or is started again.
NoFileBetweenRuns == Alone /\ ~Active => pidFile["run"] = Absent

THEOREM LoneServiceCleansUp == Spec => []NoFileBetweenRuns
<1>1. AloneInv => NoFileBetweenRuns
  BY DEF AloneInv, NoFileBetweenRuns
<1> QED BY <1>1, AloneInvHolds, PTL

\* While no monitor has been started, logrotate's script signals the service from
\* the moment it handles signals, except between the truncation of its pid file
\* and the write, and after a write that failed: however often the service has
\* been killed, stopped and started again.
THEOREM LogrotateFindsLoneService == Spec => []LogrotateReachesLoneService
<1>1. TypeInv /\ ServiceInv /\ AloneInv => LogrotateReachesLoneService
  <2> SUFFICES ASSUME TypeInv, ServiceInv, AloneInv, Alone, unit = "running",
                      Handling(mainPid), pc[mainPid] # "writepid", mainPid \notin half
               PROVE  LogrotateTarget = mainPid
    BY DEF LogrotateReachesLoneService, Alone
  <2>1. mainPid \in Pid /\ Live(mainPid) /\ pc[mainPid] \in PC
    BY DEF TypeInv, TypeOK, UnitHasMain, Handling
  <2>2. pidFile["run"] \in {Absent, mainPid}
    BY <2>1 DEF AloneInv, Active, Handling, Live, PC, Startup, LoopBody
  <2> QED BY <2>1, <2>2, PidAssumption DEF LogrotateTarget
<1> QED BY <1>1, TypeCorrect, AloneInvHolds, PTL

-----------------------------------------------------------------------------
(***************************************************************************)
(* Why the daemon gets there. That a SIGTERM ends the process and that a   *)
(* SIGHUP is served rest on fairness; that they take a bounded number of   *)
(* the program's own steps, which no other step of the system undoes, does *)
(* not. Each is a variant: a number that every step of the process lowers. *)
(***************************************************************************)

\* Where a step of the program that does not end the process leads.
Moves(from, to) ==
    \/ from = "construct" /\ to = "handlers"
    \/ from = "handlers" /\ to = "openpid"
    \/ from = "openpid" /\ to \in {"writepid", "arm"}
    \/ from = "writepid" /\ to = "arm"
    \/ from = "arm" /\ to = "announce"
    \/ from = "announce" /\ to = "loop"
    \/ from = "loop" /\ to \in {"finally", "load", "sample"}
    \/ from = "load" /\ to \in {"apply", "unwind"}
    \/ from = "apply" /\ to \in {"sample", "unwind"}
    \/ from = "sample" /\ to \in {"sleep", "unwind"}
    \/ from = "sleep" /\ to = "loop"

\* What such a step does to the flags and to what the process has read.
LEMMA StepEffect ==
    ASSUME TypeInv, NEW p \in Pid, Step(p)
    PROVE  \/ pc'[p] = "gone" /\ saw'[p] = NoSight
           \/ /\ Moves(pc[p], pc'[p])
              /\ pc[p] = "loop" /\ ~mem[p].running => pc'[p] = "finally"
              /\ pc[p] = "loop" /\ mem[p].reload => pc'[p] # "sample"
              /\ pc[p] \notin {"construct", "arm"} => mem'[p].running = mem[p].running
              /\ saw'[p].asked = saw[p].asked
              /\ saw'[p].hupClean = saw[p].hupClean
              /\ pc'[p] = "apply" => saw'[p].read = FileOf(p)
              /\ pc[p] \notin {"construct", "load"} => saw'[p].read = saw[p].read
<1> USE DEF TypeInv, TypeOK, Goto, unitVars, histVars, Moves
<1>m. mem[p] \in Memory /\ saw[p] \in Sight
  OBVIOUS
<1>1. CASE Construct(p)
  BY <1>1, <1>m, ConstructEffect DEF End, Sight
<1>2. CASE HandleSignals(p) \/ OpenPidFile(p) \/ WritePidFile(p)
  BY <1>2 DEF HandleSignals, OpenPidFile, WritePidFile, End
<1>3. CASE Arm(p) \/ Announce(p)
  BY <1>3 DEF Arm, Announce, End
<1>4. CASE LoopTest(p)
  BY <1>4 DEF LoopTest
<1>5. CASE ReloadLoad(p)
  <2>1. CASE pc' = [pc EXCEPT ![p] = "unwind"] /\ UNCHANGED <<mem, saw>>
    BY <1>5, <2>1 DEF ReloadLoad
  <2>2. CASE ~(pc' = [pc EXCEPT ![p] = "unwind"] /\ UNCHANGED <<mem, saw>>)
    BY <1>5, <2>2, <1>m DEF ReloadLoad, Sight, Memory
  <2> QED BY <2>1, <2>2
<1>6. CASE ReloadApply(p)
  <2>1. mem'[p].running = mem[p].running
    BY <1>6, <1>m DEF ReloadApply, Memory
  <2> QED BY <1>6, <2>1 DEF ReloadApply
<1>7. CASE Sample(p) \/ SleepDone(p)
  BY <1>7 DEF Sample, SleepDone
<1>8. CASE Finally(p)
  BY <1>8 DEF Finally, End
<1> QED BY <1>1, <1>2, <1>3, <1>4, <1>5, <1>6, <1>7, <1>8 DEF Step

\* What a signal does to them.
LEMMA SignalEffect ==
    ASSUME TypeInv, NEW p \in Pid, Terminate(p) \/ HangUp(p) \/ Kill(p)
    PROVE  \/ pc'[p] = "gone" /\ saw'[p] = NoSight
           \/ /\ pc'[p] = pc[p] \/ (InLoop(p) /\ pc'[p] = "unwind")
              /\ Handling(p)
              /\ saw'[p].read = saw[p].read
              /\ saw'[p].hupClean \in {saw[p].hupClean, FileOf(p)}
              /\ \/ saw'[p].asked = saw[p].asked /\ mem'[p].running = mem[p].running
                 \/ ~mem'[p].running /\ saw'[p].asked = "loop"
                 \/ ~mem'[p].running /\ saw'[p].asked # "loop" /\ saw[p].asked # "loop"
              /\ saw'[p].asked = "loop" => Armed(p) \/ saw[p].asked = "loop"
<1> USE DEF TypeInv, TypeOK, Goto
<1>m. mem[p] \in Memory /\ saw[p] \in Sight
  OBVIOUS
<1>1. ASSUME NEW how, End(p, how) PROVE pc'[p] = "gone" /\ saw'[p] = NoSight
  BY <1>1 DEF End
<1>2. CASE Handling(p) /\ Terminate(p) /\ ~HandlerRaises(p)
  BY <1>2, <1>m DEF Terminate, Memory, Sight
<1>3. CASE Handling(p) /\ HangUp(p) /\ ~HandlerRaises(p)
  BY <1>3, <1>m DEF HangUp, Memory, Sight
<1>4. CASE HandlerRaises(p)
  BY <1>4, <1>1, RaiseEffect
<1> QED BY <1>1, <1>2, <1>3, <1>4 DEF Terminate, HangUp, Kill

\* A step of the system as one process sees it: a step of its own, a signal to
\* it, its start, or something that leaves all that is its own alone.
Untouched(p) ==
    pc'[p] = pc[p] /\ mem'[p] = mem[p] /\ saw'[p] = saw[p]

LEMMA StepsAsSeen ==
    ASSUME TypeInv, [Next]_vars, NEW p \in Pid
    PROVE  \/ Step(p)
           \/ Live(p) /\ (Terminate(p) \/ HangUp(p) \/ Kill(p))
           \/ pc[p] = "unused" /\ pc'[p] = "construct" /\ saw'[p] = saw[p] /\ mem'[p] = mem[p]
           \/ Untouched(p)
<1> USE DEF TypeInv, TypeOK, Goto, unitVars, histVars, Untouched
<1>1. ASSUME NEW q \in Pid, Step(q), q # p PROVE Untouched(p)
  BY <1>1
  DEF Step, End, Construct, HandleSignals, OpenPidFile, WritePidFile, Arm, Announce, LoopTest,
      ReloadLoad, ReloadApply, Sample, SleepDone, Finally
<1>2. ASSUME NEW q \in Pid, Terminate(q) \/ HangUp(q) \/ Kill(q), q # p PROVE Untouched(p)
  BY <1>2 DEF Terminate, HangUp, Kill, HandlerRaises, End
<1>3. ASSUME NEW q \in Pid, UnitStart(q) \/ StartMonitor(q)
      PROVE  \/ pc[p] = "unused" /\ pc'[p] = "construct" /\ saw'[p] = saw[p] /\ mem'[p] = mem[p]
             \/ Untouched(p)
  BY <1>3 DEF UnitStart, StartMonitor, Spawn
<1>4. CASE \E q \in Pid : Signal(q)
  BY <1>4, <1>2 DEF Signal
<1>5. CASE UnitStop
  BY <1>5, <1>2 DEF UnitStop, UnitHasMain
<1>6. CASE UnitStopTimeout \/ UnitReload
  BY <1>6, <1>2 DEF UnitStopTimeout, UnitReload, UnitHasMain
<1>7. CASE Logrotate
  BY <1>7, <1>2, TargetLive DEF Logrotate
<1>8. CASE UnitReap \/ EditConfig \/ UNCHANGED vars
  BY <1>8 DEF UnitReap, EditConfig, vars
<1> QED BY <1>1, <1>3, <1>4, <1>5, <1>6, <1>7, <1>8 DEF Next

\* A process that has handled a SIGTERM with running set is before its main loop, in
\* it or past it, and nothing sets running again.
Asked(p) == saw[p].asked = "loop"

AskedInv ==
    \A p \in Pid : Asked(p) =>
        (Armed(p) \/ pc[p] \in {"finally", "unwind"}) /\ ~mem[p].running

\* The most steps it has left; a reload under way is completed first.
StepsToEnd(l) ==
    CASE l = "load" -> 6 [] l = "apply" -> 5 [] l = "sample" -> 4 [] l = "sleep" -> 3
      [] l = "announce" -> 3 [] l = "loop" -> 2 [] l = "finally" -> 1
      [] l = "unwind" -> 1 [] OTHER -> 0

CountsDown(p) ==
    Asked(p) =>
        \/ pc'[p] = "gone"
        \/ /\ Asked(p)'
           /\ StepsToEnd(pc'[p]) <= StepsToEnd(pc[p])
           /\ Step(p) => StepsToEnd(pc'[p]) < StepsToEnd(pc[p])

TermCountsDown == \A p \in Pid : CountsDown(p)

LEMMA AskedNext ==
    ASSUME TypeInv, AskedInv, [Next]_vars
    PROVE  AskedInv' /\ TermCountsDown
<1> SUFFICES ASSUME NEW p \in Pid
             PROVE  /\ Asked(p)' => /\ Armed(p)' \/ pc'[p] \in {"finally", "unwind"}
                                    /\ ~mem'[p].running
                    /\ CountsDown(p)
  BY DEF AskedInv, TermCountsDown
<1> USE DEF Asked, Armed, InLoop, LoopBody, Live
<1>i. Asked(p) => (Armed(p) \/ pc[p] \in {"finally", "unwind"}) /\ ~mem[p].running
  BY DEF AskedInv
<1>1. CASE Step(p)
  <2>1. CASE pc'[p] = "gone" /\ saw'[p] = NoSight
    BY <2>1 DEF NoSight, CountsDown
  <2>2. CASE ~(pc'[p] = "gone" /\ saw'[p] = NoSight)
    <3>1. /\ Moves(pc[p], pc'[p])
          /\ pc[p] = "loop" /\ ~mem[p].running => pc'[p] = "finally"
          /\ pc[p] \notin {"construct", "arm"} => mem'[p].running = mem[p].running
          /\ saw'[p].asked = saw[p].asked
      BY <1>1, <2>2, StepEffect
    <3> QED BY <3>1, <1>i DEF Moves, CountsDown, StepsToEnd
  <2> QED BY <2>1, <2>2
<1>2. CASE ~Step(p) /\ Live(p) /\ (Terminate(p) \/ HangUp(p) \/ Kill(p))
  <2>1. CASE pc'[p] = "gone" /\ saw'[p] = NoSight
    BY <2>1 DEF NoSight, CountsDown
  <2>2. CASE ~(pc'[p] = "gone" /\ saw'[p] = NoSight)
    <3>1. /\ pc'[p] = pc[p] \/ (InLoop(p) /\ pc'[p] = "unwind")
          /\ \/ saw'[p].asked = saw[p].asked /\ mem'[p].running = mem[p].running
             \/ ~mem'[p].running /\ saw'[p].asked = "loop"
             \/ ~mem'[p].running /\ saw'[p].asked # "loop" /\ saw[p].asked # "loop"
          /\ saw'[p].asked = "loop" => Armed(p) \/ saw[p].asked = "loop"
      BY <1>2, <2>2, SignalEffect
    <3> QED BY <3>1, <1>2, <1>i DEF CountsDown, StepsToEnd
  <2> QED BY <2>1, <2>2
<1>3. CASE pc[p] = "unused" /\ pc'[p] = "construct" /\ saw'[p] = saw[p]
  BY <1>3, <1>i DEF CountsDown
<1>4. CASE ~Step(p) /\ Untouched(p)
  BY <1>4, <1>i DEF Untouched, CountsDown, StepsToEnd
<1> QED BY <1>1, <1>2, <1>3, <1>4, StepsAsSeen

\* Once it has handled a SIGTERM with running set, a process ends within six steps of
\* its own: each of them brings it nearer, a reload under way and a sample
\* included, and no SIGHUP, reload or other process sends it back.
THEOREM TermEndsInSteps == Spec => [][TermCountsDown]_vars
<1>1. Init => AskedInv
  BY DEF Init, AskedInv, Asked, NoSight
<1>2. TypeInv /\ AskedInv /\ [Next]_vars => AskedInv' /\ TermCountsDown
  BY AskedNext
<1> QED BY <1>1, <1>2, TypeCorrect, PTL DEF Spec

\* A SIGHUP handled and not yet answered by a read as new as it.
Pending(p) == Handling(p) /\ saw[p].read < saw[p].hupClean

\* The steps a pending SIGHUP has left before it is served or the process ends.
StepsToRead(l) ==
    CASE l = "openpid" -> 7 [] l = "writepid" -> 6 [] l = "arm" -> 5 [] l = "announce" -> 4
      [] l = "sample" -> 5 [] l = "sleep" -> 4 [] l = "loop" -> 3
      [] l = "load" -> 2 [] l = "finally" -> 1 [] l = "unwind" -> 1 [] OTHER -> 0

ServesNext(p) ==
    /\ Live(p)' => saw'[p].hupClean >= saw[p].hupClean
    /\ Pending(p) /\ Pending(p)' =>
           /\ StepsToRead(pc'[p]) <= StepsToRead(pc[p])
           /\ Step(p) => StepsToRead(pc'[p]) < StepsToRead(pc[p])

ReloadCountsDown == \A p \in Pid : ServesNext(p)

LEMMA ReloadSteps ==
    ASSUME TypeInv, ReloadInv, [Next]_vars
    PROVE  ReloadCountsDown
<1> SUFFICES ASSUME NEW p \in Pid PROVE ServesNext(p)
  BY DEF ReloadCountsDown
<1> USE DEF Handling, Live
<1>s. /\ saw[p].read \in Nat /\ saw[p].hupClean \in Nat /\ FileOf(p) \in Nat
      /\ saw'[p].read \in Nat /\ saw'[p].hupClean \in Nat
  BY TypeInvNext, FileOfType, VersionAssumption DEF TypeInv, TypeOK, Sight, Version
<1>i. /\ saw[p].hupClean <= FileOf(p)
      /\ Pending(p) => mem[p].reload /\ pc[p] # "apply"
  BY <1>s DEF ReloadInv, Seen, Pending, TypeInv, TypeOK, Memory
<1>1. CASE Step(p)
  <2>1. CASE pc'[p] = "gone" /\ saw'[p] = NoSight
    BY <2>1 DEF ServesNext, Pending
  <2>2. CASE ~(pc'[p] = "gone" /\ saw'[p] = NoSight)
    <3>1. /\ Moves(pc[p], pc'[p])
          /\ pc[p] = "loop" /\ mem[p].reload => pc'[p] # "sample"
          /\ saw'[p].hupClean = saw[p].hupClean
          /\ pc'[p] = "apply" => saw'[p].read = FileOf(p)
      BY <1>1, <2>2, StepEffect
    <3>2. pc'[p] = "apply" => ~Pending(p)'
      BY <3>1, <1>i, <1>s DEF Pending
    <3>3. Pending(p) /\ Pending(p)' => StepsToRead(pc'[p]) < StepsToRead(pc[p])
      <4> SUFFICES ASSUME Pending(p), Pending(p)'
                   PROVE  StepsToRead(pc'[p]) < StepsToRead(pc[p])
        OBVIOUS
      <4>1. mem[p].reload /\ pc'[p] # "apply" /\ pc[p] \notin {"apply", "construct", "handlers"}
        BY <3>2, <1>i DEF Pending
      <4> QED BY <3>1, <4>1 DEF Moves, StepsToRead
    <3>4. StepsToRead(pc'[p]) \in Nat /\ StepsToRead(pc[p]) \in Nat
      BY DEF StepsToRead
    <3> QED BY <3>1, <3>3, <3>4, <1>s DEF ServesNext
  <2> QED BY <2>1, <2>2
<1>n. StepsToRead(pc[p]) \in Nat
  BY DEF StepsToRead
<1>2. CASE ~Step(p) /\ Live(p) /\ (Terminate(p) \/ HangUp(p) \/ Kill(p))
  <2>1. CASE pc'[p] = "gone" /\ saw'[p] = NoSight
    BY <2>1 DEF ServesNext, Pending
  <2>2. CASE ~(pc'[p] = "gone" /\ saw'[p] = NoSight)
    <3>1. /\ pc'[p] = pc[p] \/ (InLoop(p) /\ pc'[p] = "unwind")
          /\ saw'[p].hupClean \in {saw[p].hupClean, FileOf(p)}
      BY <1>2, <2>2, SignalEffect
    <3> QED BY <3>1, <1>2, <1>i, <1>s, <1>n DEF ServesNext, Pending, InLoop, LoopBody, StepsToRead
  <2> QED BY <2>1, <2>2
<1>3. CASE ~Step(p) /\ pc[p] = "unused" /\ pc'[p] = "construct" /\ saw'[p] = saw[p]
  BY <1>3, <1>s DEF ServesNext, Pending
<1>4. CASE ~Step(p) /\ Untouched(p)
  BY <1>4, <1>s, <1>n DEF Untouched, ServesNext
<1> QED BY <1>1, <1>2, <1>3, <1>4, StepsAsSeen

\* A SIGHUP handled outside the application of a reload is served within seven
\* steps of the process, or the process is ended: by then it has read a
\* configuration as new as that SIGHUP's, whatever samples, signals and further
\* SIGHUPs come between; and what it owes never shrinks while it lives.
THEOREM ReloadServedInSteps == Spec => [][ReloadCountsDown]_vars
BY ReloadSteps, ReloadInvHolds, TypeCorrect, PTL DEF Spec

-----------------------------------------------------------------------------
(***************************************************************************)
(* The contract. It knows nothing of the two flags, so that the invariants *)
(* above have to say what they stand for: ReloadInv for the request,       *)
(* AskedInv and StopInv for running. ConfInv says which version is in      *)
(* force, at every place in the program.                                   *)
(***************************************************************************)
InForce(p, v) == \A x \in HotPart : mem[p].inForce[x] = v

ConfInv ==
    \A p \in Pid :
        /\ mem[p].conf \in {saw[p].read, 0}
        /\ pc[p] \notin {"apply", "finally", "unwind"} =>
               InForce(p, mem[p].conf) /\ mem[p].conf \notin BadShape

\* The loop finds running lowered only by a SIGTERM handled since it was set.
StopInv == \A p \in Pid : Armed(p) /\ ~mem[p].running => Asked(p)

\* A step of the program, by what it does to the configuration.
Ends(p) == pc'[p] = "gone" /\ mem'[p] = NoMemory /\ saw'[p] = NoSight

Breaks(p) == InLoop(p) /\ pc'[p] = "unwind" /\ mem'[p] = mem[p] /\ saw'[p] = saw[p]

Builds(p) ==
    /\ pc[p] = "construct" /\ pc'[p] = "handlers"
    /\ saw'[p] = [saw[p] EXCEPT !.read = FileOf(p)]
    /\ mem'[p].conf \in {FileOf(p), 0} \ BadShape
    /\ mem'[p].inForce = [x \in Part |-> mem'[p].conf]

Reads(p) ==
    /\ pc[p] = "load" /\ pc'[p] = "apply"
    /\ saw'[p] = [saw[p] EXCEPT !.read = FileOf(p)]
    /\ mem'[p].conf \in {FileOf(p), 0}
    /\ mem'[p].inForce = mem[p].inForce /\ mem'[p].running = mem[p].running

Applies(p) ==
    /\ pc[p] = "apply" /\ pc'[p] = "sample"
    /\ saw'[p] = saw[p] /\ mem'[p].running = mem[p].running
    /\ mem[p].conf \notin BadShape /\ mem'[p].conf = mem[p].conf
    /\ mem'[p].inForce =
           [x \in Part |-> IF x \in HotPart THEN mem[p].conf ELSE mem[p].inForce[x]]

GoesOn(p) ==
    /\ pc[p] \notin {"construct", "load", "apply"}
    /\ Moves(pc[p], pc'[p]) /\ pc'[p] # "unwind"
    /\ saw'[p] = saw[p]
    /\ mem'[p].inForce = mem[p].inForce /\ mem'[p].conf = mem[p].conf
    /\ mem'[p].running = (mem[p].running \/ pc[p] = "arm")
    /\ pc[p] = "loop" => /\ mem[p].running <=> pc'[p] # "finally"
                         /\ pc'[p] = "sample" => ~mem[p].reload

LEMMA StepByConf ==
    ASSUME TypeInv, NEW p \in Pid, Step(p)
    PROVE  Ends(p) \/ Breaks(p) \/ Builds(p) \/ Reads(p) \/ Applies(p) \/ GoesOn(p)
<1> USE DEF TypeInv, TypeOK, Goto, unitVars, histVars
<1>m. mem[p] \in [running : BOOLEAN, reload : BOOLEAN, conf : Version,
                  inForce : [Part -> Version], pidPath : Path]
  BY DEF Memory
<1>e. ASSUME NEW how, End(p, how) PROVE Ends(p)
  BY <1>e DEF End, Ends
<1>1. CASE Construct(p)
  <2>1. CASE End(p, "construct")
    BY <2>1, <1>e
  <2>2. CASE ~End(p, "construct")
    <3>1. PICK v \in Loadable(p) \ BadShape, f \in Path : mem' = [mem EXCEPT ![p] = Built(v, f)]
      BY <1>1, <2>2, ConstructEffect
    <3>2. mem'[p].conf = v /\ mem'[p].inForce = [x \in Part |-> v]
      <4>1. mem'[p] = Built(v, f)
        BY <3>1
      <4>2. Built(v, f).conf = v /\ Built(v, f).inForce = [x \in Part |-> v]
        BY DEF Built, NoMemory
      <4> HIDE DEF Goto, TypeInv, TypeOK
      <4> QED BY <4>1, <4>2, Zenon
    <3>3. /\ pc[p] = "construct" /\ pc'[p] = "handlers"
          /\ saw'[p] = [saw[p] EXCEPT !.read = FileOf(p)]
      BY <1>1, <2>2, ConstructEffect
    <3> QED BY <3>1, <3>2, <3>3 DEF Builds, Loadable
  <2> QED BY <2>1, <2>2
<1>2. CASE HandleSignals(p) \/ OpenPidFile(p) \/ WritePidFile(p)
  <2>1. CASE HandleSignals(p)
    BY <2>1, <1>m, <1>e DEF HandleSignals, GoesOn, Moves
  <2>2. CASE OpenPidFile(p)
    BY <2>2, <1>m, <1>e DEF OpenPidFile, GoesOn, Moves
  <2>3. CASE WritePidFile(p)
    BY <2>3, <1>m, <1>e DEF WritePidFile, GoesOn, Moves
  <2> QED BY <1>2, <2>1, <2>2, <2>3
<1>3. CASE Arm(p) \/ Announce(p)
  <2>1. CASE Arm(p)
    BY <2>1, <1>m, <1>e DEF Arm, GoesOn, Moves
  <2>2. CASE Announce(p)
    BY <2>2, <1>m, <1>e DEF Announce, GoesOn, Moves
  <2> QED BY <1>3, <2>1, <2>2
<1>4. CASE LoopTest(p)
  BY <1>4, <1>m DEF LoopTest, GoesOn, Moves
<1>5. CASE ReloadLoad(p)
  <2>1. CASE pc' = [pc EXCEPT ![p] = "unwind"] /\ UNCHANGED <<mem, saw>>
    BY <1>5, <2>1 DEF ReloadLoad, Breaks, InLoop, LoopBody
  <2>2. CASE ~(pc' = [pc EXCEPT ![p] = "unwind"] /\ UNCHANGED <<mem, saw>>)
    BY <1>5, <2>2, <1>m DEF ReloadLoad, Reads, Loadable
  <2> QED BY <2>1, <2>2
<1>6. CASE ReloadApply(p)
  BY <1>6, <1>m DEF ReloadApply, Applies, Breaks, InLoop, LoopBody
<1>7. CASE Sample(p) \/ SleepDone(p)
  <2>1. CASE Sample(p)
    BY <2>1, <1>m DEF Sample, GoesOn, Moves, Breaks, InLoop, LoopBody
  <2>2. CASE SleepDone(p)
    BY <2>2, <1>m DEF SleepDone, GoesOn, Moves, Breaks, InLoop, LoopBody
  <2> QED BY <1>7, <2>1, <2>2
<1>8. CASE Finally(p)
  BY <1>8, <1>e DEF Finally
<1> QED BY <1>1, <1>2, <1>3, <1>4, <1>5, <1>6, <1>7, <1>8 DEF Step

\* A signal, by what it does to what the contract mentions.
LEMMA SignalByConf ==
    ASSUME TypeInv, NEW p \in Pid, Terminate(p) \/ HangUp(p) \/ Kill(p)
    PROVE  \/ Ends(p) \/ Breaks(p) \/ Untouched(p)
           \/ /\ pc' = pc /\ Handling(p)
              /\ mem'[p].inForce = mem[p].inForce /\ mem'[p].conf = mem[p].conf
              /\ saw'[p].read = saw[p].read
              /\ \/ /\ ~mem'[p].running /\ saw'[p].hupClean = saw[p].hupClean
                    /\ IF Armed(p) THEN saw'[p].asked = "loop"
                                   ELSE Asked(p)' <=> Asked(p)
                 \/ /\ mem'[p].running = mem[p].running /\ saw'[p].asked = saw[p].asked
                    /\ saw'[p].hupClean = IF pc[p] = "apply" THEN saw[p].hupClean
                                                             ELSE FileOf(p)
<1> USE DEF TypeInv, TypeOK, Goto
<1>m. mem[p] \in Memory /\ saw[p] \in Sight
  OBVIOUS
<1>1. ASSUME NEW how, End(p, how) PROVE Ends(p)
  BY <1>1 DEF End, Ends
<1>2. CASE Handling(p) /\ Terminate(p) /\ ~HandlerRaises(p)
  BY <1>2, <1>m DEF Terminate, Memory, Sight, Asked
<1>3. CASE Handling(p) /\ HangUp(p) /\ ~HandlerRaises(p)
  BY <1>3, <1>m DEF HangUp, Memory, Sight
<1>4. CASE HandlerRaises(p)
  BY <1>4, <1>1, RaiseEffect DEF Breaks, Untouched
<1> QED BY <1>1, <1>2, <1>3, <1>4 DEF Terminate, HangUp, Kill

LEMMA ConfNext ==
    ASSUME TypeInv, ConfInv, StopInv, [Next]_vars
    PROVE  ConfInv' /\ StopInv'
<1> SUFFICES ASSUME NEW p \in Pid
             PROVE  /\ mem'[p].conf \in {saw'[p].read, 0}
                    /\ pc'[p] \notin {"apply", "finally", "unwind"} =>
                           /\ \A x \in HotPart : mem'[p].inForce[x] = mem'[p].conf
                           /\ mem'[p].conf \notin BadShape
                    /\ Armed(p)' /\ ~mem'[p].running => Asked(p)'
  BY DEF ConfInv, StopInv, InForce
<1>i. /\ mem[p].conf \in {saw[p].read, 0}
      /\ pc[p] \notin {"apply", "finally", "unwind"} =>
             /\ \A x \in HotPart : mem[p].inForce[x] = mem[p].conf
             /\ mem[p].conf \notin BadShape
      /\ Armed(p) /\ ~mem[p].running => Asked(p)
  BY DEF ConfInv, StopInv, InForce
<1>m. saw[p] \in Sight /\ FileOf(p) \in Version
  BY FileOfType DEF TypeInv, TypeOK
<1> USE DEF Armed, InLoop, LoopBody, Asked
<1>1. CASE Ends(p)
  <2>1. /\ pc'[p] = "gone" /\ mem'[p].conf = 0
        /\ \A x \in HotPart : mem'[p].inForce[x] = 0
    BY <1>1 DEF Ends, NoMemory, Part
  <2> QED BY <2>1, VersionAssumption
<1>2. CASE Breaks(p)
  BY <1>2, <1>i DEF Breaks
<1>3. CASE Untouched(p)
  BY <1>3, <1>i DEF Untouched
<1>4. CASE Builds(p)
  <2>1. saw'[p].read = FileOf(p)
    BY <1>4, <1>m DEF Builds, Sight
  <2> QED BY <1>4, <2>1 DEF Builds, Part
<1>5. CASE Reads(p)
  <2>1. saw'[p].read = FileOf(p) /\ saw'[p].asked = saw[p].asked
    BY <1>5, <1>m DEF Reads, Sight
  <2> QED BY <1>5, <2>1, <1>i DEF Reads
<1>6. CASE Applies(p)
  BY <1>6, <1>i DEF Applies, Part
<1>7. CASE GoesOn(p)
  BY <1>7, <1>i DEF GoesOn, Moves
<1>8. CASE Live(p) /\ (Terminate(p) \/ HangUp(p) \/ Kill(p))
  BY <1>8, <1>1, <1>2, <1>3, <1>i, SignalByConf
<1>9. CASE pc[p] = "unused" /\ pc'[p] = "construct" /\ saw'[p] = saw[p] /\ mem'[p] = mem[p]
  BY <1>9, <1>i
<1> QED BY <1>1, <1>2, <1>3, <1>4, <1>5, <1>6, <1>7, <1>8, <1>9, StepsAsSeen, StepByConf

LEMMA ConfInvHolds == Spec => [](ConfInv /\ StopInv)
<1>1. Init => ConfInv /\ StopInv
  <2> SUFFICES ASSUME Init, NEW p \in Pid
               PROVE  /\ pc[p] = "unused" /\ mem[p].conf = 0
                      /\ \A x \in HotPart : mem[p].inForce[x] = 0
    BY VersionAssumption DEF ConfInv, StopInv, InForce, Armed, InLoop, LoopBody
  <2> QED BY DEF Init, NoMemory, Part
<1>2. TypeInv /\ ConfInv /\ StopInv /\ [Next]_vars => ConfInv' /\ StopInv'
  BY ConfNext
<1> QED BY <1>1, <1>2, TypeCorrect, PTL DEF Spec

LEMMA AskedInvHolds == Spec => []AskedInv
<1>1. Init => AskedInv
  BY DEF Init, AskedInv, Asked, NoSight
<1>2. TypeInv /\ AskedInv /\ [Next]_vars => AskedInv'
  BY AskedNext
<1> QED BY <1>1, <1>2, TypeCorrect, PTL DEF Spec

\* The file of a process is replaced by newer ones only.
LEMMA FilesGrow ==
    ASSUME TypeInv, [Next]_vars, NEW p \in Pid
    PROVE  /\ FileOf(p)' \in Nat
           /\ FileOf(p)' >= FileOf(p) \/ (pc[p] = "unused" /\ pc'[p] = "construct")
<1>1. FileOf(p)' \in Nat /\ FileOf(p) \in Nat
  BY TypeInvNext, VersionAssumption DEF TypeInv, TypeOK, FileOf
<1>2. version' \in {version, version + 1}
  BY DEF Next, vars, Step, Construct, HandleSignals, OpenPidFile,
      WritePidFile, Arm, Announce, LoopTest, ReloadLoad, ReloadApply, Sample, SleepDone, Finally,
      UnitStart, StartMonitor, Spawn, Signal, UnitStop, UnitStopTimeout, UnitReap, UnitReload,
      Logrotate, EditConfig, Terminate, HangUp, Kill
<1>3. kind'[p] = kind[p] \/ (pc[p] = "unused" /\ pc'[p] = "construct")
  BY DEF Next, vars, TypeInv, TypeOK, Step, Construct, HandleSignals, OpenPidFile,
      WritePidFile, Arm, Announce, LoopTest, ReloadLoad, ReloadApply, Sample, SleepDone, Finally,
      UnitStart, StartMonitor, Spawn, Goto, Signal, UnitStop, UnitStopTimeout, UnitReap,
      UnitReload, Logrotate, EditConfig, Terminate, HangUp, Kill
<1>4. version \in Nat
  BY VersionAssumption DEF TypeInv, TypeOK
<1> QED BY <1>1, <1>2, <1>3, <1>4 DEF FileOf

LEMMA Phases ==
    /\ PhaseOf("unused") = "off" /\ PhaseOf("gone") = "off"
    /\ PhaseOf("construct") = "deaf" /\ PhaseOf("handlers") = "deaf"
    /\ PhaseOf("openpid") = "starting" /\ PhaseOf("writepid") = "starting"
    /\ PhaseOf("arm") = "starting"
    /\ PhaseOf("announce") = "idle" /\ PhaseOf("unwind") = "broken"
    /\ PhaseOf("loop") = "idle" /\ PhaseOf("load") = "reading"
    /\ PhaseOf("apply") = "applying" /\ PhaseOf("sample") = "sampling"
    /\ PhaseOf("sleep") = "sampling" /\ PhaseOf("finally") = "ending"
BY DEF PhaseOf

\* One step of the contract, or none.
ContractStep(p) == [Contract(p)!ContractNext]_(Contract(p)!contractVars)

LEMMA ContractInitially ==
    ASSUME Init, NEW p \in Pid
    PROVE  Contract(p)!ContractInit
<1>1. /\ PhaseOf(pc[p]) = "off" /\ FileOf(p) = 0
      /\ saw[p].read = 0 /\ saw[p].hupClean = 0 /\ saw[p].asked # "loop"
  BY Phases DEF Init, FileOf, NoSight
<1>2. mem[p].conf = 0 /\ mem[p].inForce = [x \in Part |-> 0]
  BY DEF Init, NoMemory
<1> QED BY <1>1, <1>2 DEF Contract!ContractInit, Contract!Whole

\* Where a process that runs is, for the contract.
LEMMA PhasesOfLive ==
    ASSUME NEW l \in PC
    PROVE  /\ PhaseOf(l) = "off" <=> l \in {"unused", "gone"}
           /\ PhaseOf(l) = "deaf" <=> l \in {"construct", "handlers"}
           /\ PhaseOf(l) = "applying" <=> l = "apply"
           /\ PhaseOf(l) \in {"idle", "reading", "applying", "sampling"}
                  <=> l \in LoopBody \union {"announce", "loop"}
BY Phases DEF PC, Startup, LoopBody

LEMMA ContractEnd ==
    ASSUME NEW p \in Pid, TypeInv, Ends(p), Live(p), FileOf(p)' = FileOf(p)
    PROVE  ContractStep(p)
<1>1. PhaseOf(pc[p]) # "off" /\ PhaseOf(pc'[p]) = "off"
  BY PhasesOfLive, Phases DEF Live, Ends, TypeInv, TypeOK
<1>2. saw'[p].read = 0 /\ saw'[p].hupClean = 0 /\ saw'[p].asked # "loop"
  BY DEF Ends, NoSight
<1>3. mem'[p].conf = 0 /\ mem'[p].inForce = [x \in Part |-> 0]
  BY DEF Ends, NoMemory
<1>4. Contract(p)!End
  BY <1>1, <1>2, <1>3 DEF Contract!End, Contract!Whole
<1> QED BY <1>4 DEF ContractStep, Contract!ContractNext

LEMMA ContractBreaks ==
    ASSUME NEW p \in Pid, TypeInv, Breaks(p), FileOf(p)' = FileOf(p)
    PROVE  ContractStep(p)
<1>1. PhaseOf(pc[p]) \in {"idle", "reading", "applying", "sampling"}
      /\ PhaseOf(pc'[p]) = "broken"
  BY PhasesOfLive, Phases DEF Breaks, InLoop, TypeInv, TypeOK
<1>2. Contract(p)!Break
  BY <1>1 DEF Breaks, Contract!Break, Contract!Looping
<1> QED BY <1>2 DEF ContractStep, Contract!ContractNext

LEMMA ContractUnchanged ==
    ASSUME NEW p \in Pid, FileOf(p)' = FileOf(p), PhaseOf(pc'[p]) = PhaseOf(pc[p]),
           saw'[p].read = saw[p].read, saw'[p].hupClean = saw[p].hupClean,
           Asked(p)' <=> Asked(p),
           mem'[p].inForce = mem[p].inForce, mem'[p].conf = mem[p].conf
    PROVE  ContractStep(p)
<1>1. UNCHANGED Contract(p)!contractVars
  BY DEF Contract!contractVars, Asked
<1> QED BY <1>1 DEF ContractStep

\* A step that only moves the process, for the contract.
LEMMA ContractMoves ==
    ASSUME NEW p \in Pid, TypeInv, ConfInv, StopInv, AskedInv, ReloadInv, GoesOn(p),
           FileOf(p)' = FileOf(p)
    PROVE  ContractStep(p)
<1>u. mem'[p].inForce = mem[p].inForce /\ mem'[p].conf = mem[p].conf
  BY DEF GoesOn
<1>s. saw'[p] = saw[p]
  BY DEF GoesOn
<1>1. CASE pc[p] \in {"handlers", "arm"}
  <2>1. \/ PhaseOf(pc[p]) = "deaf" /\ PhaseOf(pc'[p]) = "starting"
        \/ PhaseOf(pc[p]) = "starting" /\ PhaseOf(pc'[p]) = "idle"
    BY <1>1, Phases DEF GoesOn, Moves
  <2>2. Contract(p)!Enter
    BY <2>1, <1>u, <1>s DEF Contract!Enter
  <2> QED BY <2>2 DEF ContractStep, Contract!ContractNext
<1>2. CASE pc[p] \in {"openpid", "writepid", "announce"}
  BY <1>2, <1>s, Phases, ContractUnchanged DEF GoesOn, Moves, Asked
<1>3. CASE pc[p] = "loop" /\ pc'[p] = "load"
  <2>1. saw[p].asked # "loop"
    BY <1>3 DEF GoesOn, AskedInv, Asked
  <2>2. Contract(p)!Reload
    BY <1>3, <2>1, <1>u, <1>s, Phases DEF Contract!Reload
  <2> QED BY <2>2 DEF ContractStep, Contract!ContractNext
<1>4. CASE pc[p] = "loop" /\ pc'[p] = "sample"
  <2>1. saw[p].asked # "loop" /\ saw[p].read >= saw[p].hupClean
    BY <1>4 DEF GoesOn, AskedInv, Asked, ReloadInv, Seen, Handling, Live
  <2>2. mem[p].conf \notin BadShape /\ \A x \in HotPart : mem[p].inForce[x] = mem[p].conf
    BY <1>4 DEF ConfInv, InForce
  <2>3. mem[p].inForce \in [Part -> Version]
    BY DEF TypeInv, TypeOK, Memory
  <2>4. mem'[p].inForce = [x \in Part |-> IF x \in HotPart THEN mem[p].conf ELSE mem[p].inForce[x]]
    BY <2>2, <2>3, <1>u
  <2>5. Contract(p)!Sample
    BY <1>4, <2>1, <2>2, <2>4, <1>u, <1>s, Phases DEF Contract!Sample
  <2> QED BY <2>5 DEF ContractStep, Contract!ContractNext
<1>5. CASE pc[p] = "loop" /\ pc'[p] = "finally"
  <2>1. saw[p].asked = "loop"
    BY <1>5 DEF GoesOn, StopInv, Asked, Armed, InLoop
  <2>2. Contract(p)!Leave
    BY <1>5, <2>1, <1>u, <1>s, Phases DEF Contract!Leave
  <2> QED BY <2>2 DEF ContractStep, Contract!ContractNext
<1>6. CASE pc[p] = "sample" /\ pc'[p] = "sleep"
  BY <1>6, <1>s, <1>u, Phases, ContractUnchanged DEF Asked
<1>8. CASE pc[p] = "sleep" /\ pc'[p] = "loop"
  <2>1. Contract(p)!Rest
    BY <1>8, <1>u, <1>s, Phases DEF Contract!Rest
  <2> QED BY <2>1 DEF ContractStep, Contract!ContractNext
<1> QED BY <1>1, <1>2, <1>3, <1>4, <1>5, <1>6, <1>8 DEF GoesOn, Moves

\* A step of the program that reads the file or puts it in force.
LEMMA ContractConf ==
    ASSUME NEW p \in Pid, TypeInv, ConfInv, AskedInv, ReloadInv, FileOf(p)' = FileOf(p),
           Builds(p) \/ Reads(p) \/ Applies(p)
    PROVE  ContractStep(p)
<1>m. saw[p] \in Sight
  BY DEF TypeInv, TypeOK
<1>1. CASE Builds(p)
  <2>1. /\ saw'[p].read = FileOf(p) /\ saw'[p].asked = saw[p].asked
        /\ saw'[p].hupClean = saw[p].hupClean
    BY <1>1, <1>m DEF Builds, Sight
  <2>2. PhaseOf(pc[p]) = "deaf" /\ PhaseOf(pc'[p]) = "deaf"
    BY <1>1, Phases DEF Builds
  <2>3. Contract(p)!Construct
    BY <1>1, <2>1, <2>2 DEF Builds, Contract!Construct, Contract!Reading, Contract!Whole
  <2> QED BY <2>3 DEF ContractStep, Contract!ContractNext
<1>2. CASE Reads(p)
  <2>1. /\ saw'[p].read = FileOf(p) /\ saw'[p].asked = saw[p].asked
        /\ saw'[p].hupClean = saw[p].hupClean
    BY <1>2, <1>m DEF Reads, Sight
  <2>2. PhaseOf(pc[p]) = "reading" /\ PhaseOf(pc'[p]) = "applying"
    BY <1>2, Phases DEF Reads
  <2>3. Contract(p)!Read
    BY <1>2, <2>1, <2>2 DEF Reads, Contract!Read, Contract!Reading
  <2> QED BY <2>3 DEF ContractStep, Contract!ContractNext
<1>3. CASE Applies(p)
  <2>1. saw[p].read >= saw[p].hupClean
    BY <1>3 DEF Applies, ReloadInv, Seen
  <2>2. PhaseOf(pc[p]) = "applying" /\ PhaseOf(pc'[p]) = "sampling"
    BY <1>3, Phases DEF Applies
  <2>3. Contract(p)!Sample
    BY <1>3, <2>1, <2>2 DEF Applies, Contract!Sample
  <2> QED BY <2>3 DEF ContractStep, Contract!ContractNext
<1> QED BY <1>1, <1>2, <1>3

\* A signal: it obliges, or finds nothing that it could oblige.
LEMMA ContractSignal ==
    ASSUME NEW p \in Pid, TypeInv, AskedInv, Live(p), FileOf(p)' = FileOf(p),
           Terminate(p) \/ HangUp(p) \/ Kill(p)
    PROVE  ContractStep(p)
<1>1. CASE Ends(p)
  BY <1>1, ContractEnd
<1>2. CASE Breaks(p)
  BY <1>2, ContractBreaks
<1>3. CASE Untouched(p)
  BY <1>3, ContractUnchanged DEF Untouched, Asked
<1>4. CASE ~Ends(p) /\ ~Breaks(p) /\ ~Untouched(p)
  <2>1. /\ pc' = pc /\ Handling(p)
        /\ mem'[p].inForce = mem[p].inForce /\ mem'[p].conf = mem[p].conf
        /\ saw'[p].read = saw[p].read
    BY <1>4, SignalByConf
  <2>2. \/ /\ saw'[p].hupClean = saw[p].hupClean
           /\ IF Armed(p) THEN saw'[p].asked = "loop" ELSE Asked(p)' <=> Asked(p)
        \/ /\ saw'[p].asked = saw[p].asked
           /\ saw'[p].hupClean = IF pc[p] = "apply" THEN saw[p].hupClean ELSE FileOf(p)
    BY <1>4, SignalByConf
  <2>p. pc[p] \in PC
    BY DEF TypeInv, TypeOK
  <2>3. CASE saw'[p].hupClean = saw[p].hupClean /\ Armed(p) /\ saw'[p].asked = "loop"
    <3>1. PhaseOf(pc[p]) \in {"idle", "reading", "applying", "sampling"}
      BY <2>3, <2>p, PhasesOfLive DEF Armed, InLoop
    <3>2. Contract(p)!Terminate
      BY <2>1, <2>3, <3>1 DEF Contract!Terminate, Contract!Looping
    <3> QED BY <3>2 DEF ContractStep, Contract!ContractNext
  <2>4. CASE /\ saw'[p].asked = saw[p].asked /\ pc[p] # "apply"
             /\ saw'[p].hupClean = FileOf(p)
    <3>1. PhaseOf(pc[p]) \notin {"off", "deaf", "applying"}
      BY <2>1, <2>4, <2>p, PhasesOfLive DEF Handling, Live
    <3>2. Contract(p)!HangUp
      BY <2>1, <2>4, <3>1 DEF Contract!HangUp
    <3> QED BY <3>2 DEF ContractStep, Contract!ContractNext
  <2>5. CASE saw'[p].hupClean = saw[p].hupClean /\ (Asked(p)' <=> Asked(p))
    BY <2>1, <2>5, ContractUnchanged
  <2> QED BY <2>2, <2>3, <2>4, <2>5 DEF Asked
<1> QED BY <1>1, <1>2, <1>3, <1>4

\* The program's own steps and the signals leave the file of the process alone.
LEMMA FilesStay ==
    ASSUME NEW p \in Pid, Step(p) \/ Terminate(p) \/ HangUp(p) \/ Kill(p)
    PROVE  FileOf(p)' = FileOf(p)
BY DEF Step, FileOf, Construct, HandleSignals, OpenPidFile, WritePidFile, Arm, Announce, LoopTest,
       ReloadLoad, ReloadApply, Sample, SleepDone, Finally, Terminate, HangUp, Kill

LEMMA ContractSteps ==
    ASSUME TypeInv, ConfInv, StopInv, AskedInv, ReloadInv, [Next]_vars, NEW p \in Pid
    PROVE  ContractStep(p)
<1>1. CASE Step(p)
  <2>1. FileOf(p)' = FileOf(p) /\ Live(p)
    BY <1>1, FilesStay, StepFrame DEF Live
  <2> QED BY <1>1, <2>1, StepByConf, ContractEnd, ContractBreaks, ContractMoves, ContractConf
<1>2. CASE Live(p) /\ (Terminate(p) \/ HangUp(p) \/ Kill(p))
  BY <1>2, FilesStay, ContractSignal
<1>3. CASE pc[p] = "unused" /\ pc'[p] = "construct" /\ saw'[p] = saw[p] /\ mem'[p] = mem[p]
  <2>1. FileOf(p)' \in Nat
    BY FilesGrow
  <2>2. PhaseOf(pc[p]) = "off" /\ PhaseOf(pc'[p]) = "deaf"
    BY <1>3, Phases
  <2>3. Contract(p)!Appear
    BY <1>3, <2>1, <2>2 DEF Contract!Appear
  <2> QED BY <2>3 DEF ContractStep, Contract!ContractNext
<1>4. CASE Untouched(p)
  <2>1. FileOf(p)' \in Nat /\ FileOf(p) \in Nat /\ FileOf(p)' >= FileOf(p)
    <3>1. ~(pc[p] = "unused" /\ pc'[p] = "construct")
      BY <1>4 DEF Untouched
    <3>2. FileOf(p)' \in Nat /\ FileOf(p)' >= FileOf(p)
      BY <3>1, FilesGrow
    <3>3. FileOf(p) \in Nat
      BY FileOfType, VersionAssumption DEF TypeInv, Version
    <3> QED BY <3>2, <3>3
  <2>2. CASE FileOf(p)' = FileOf(p)
    BY <1>4, <2>2, ContractUnchanged DEF Untouched, Asked
  <2>3. CASE FileOf(p)' > FileOf(p)
    <3>1. Contract(p)!Edit
      BY <1>4, <2>1, <2>3 DEF Untouched, Contract!Edit
    <3> QED BY <3>1 DEF ContractStep, Contract!ContractNext
  <2> QED BY <2>1, <2>2, <2>3
<1> QED BY <1>1, <1>2, <1>3, <1>4, StepsAsSeen

\* The program implements its contract with the two flags, for any number of
\* processes, edits, unreadable and misshapen files and signals: no sample begins
\* with thresholds or an interval that a SIGHUP has made outdated or that mix two
\* readings, what a reload does not reach stays as it was built, and after a SIGTERM
\* at most one more sample begins.
THEOREM DaemonMeetsContract == Spec => MeetsDaemonContract
<1>1. Init => \A p \in Pid : Contract(p)!ContractInit
  BY ContractInitially
<1>2. TypeInv /\ ConfInv /\ StopInv /\ AskedInv /\ ReloadInv /\ [Next]_vars
          => \A p \in Pid : [Contract(p)!ContractNext]_(Contract(p)!contractVars)
  BY ContractSteps DEF ContractStep
<1> QED BY <1>1, <1>2, TypeCorrect, ConfInvHolds, AskedInvHolds, ReloadInvHolds, PTL
        DEF Spec, MeetsDaemonContract

\* The samples that a process may still begin once its main loop has handled a
\* SIGTERM: the one that completes the reload under way.
SamplesLeft(ph) == IF ph \in {"reading", "applying"} THEN 1 ELSE 0

SamplesRunOut(p) ==
    Asked(p) /\ Asked(p)' =>
        /\ SamplesLeft(PhaseOf(pc'[p])) <= SamplesLeft(PhaseOf(pc[p]))
        /\ PhaseOf(pc'[p]) = "sampling" /\ PhaseOf(pc[p]) # "sampling"
               => SamplesLeft(PhaseOf(pc'[p])) < SamplesLeft(PhaseOf(pc[p]))

\* What the contract is worth to whoever stops the daemon: after a SIGTERM that
\* its main loop has handled a process begins one sample at most, and none unless
\* a reload was under way. Nothing but the contract is used.
THEOREM OneSampleAfterTerm == Spec => [][\A p \in Pid : SamplesRunOut(p)]_vars
<1>1. ASSUME NEW p \in Pid, ContractStep(p) PROVE SamplesRunOut(p)
  <2>1. CASE PhaseOf(pc'[p]) = PhaseOf(pc[p])
    BY <2>1 DEF SamplesRunOut, SamplesLeft
  <2>2. CASE PhaseOf(pc'[p]) # PhaseOf(pc[p])
    <3> SUFFICES ASSUME Asked(p), Asked(p)'
                 PROVE  \/ PhaseOf(pc[p]) = "reading" /\ PhaseOf(pc'[p]) = "applying"
                        \/ PhaseOf(pc[p]) = "applying"
                        \/ PhaseOf(pc'[p]) \notin {"reading", "applying", "sampling"}
      BY DEF SamplesRunOut, SamplesLeft
    <3> QED BY <1>1, <2>2
            DEF ContractStep, Contract!ContractNext, Contract!contractVars, Contract!Appear,
                Contract!Edit, Contract!HangUp, Contract!Terminate, Contract!Construct,
                Contract!Enter, Contract!Reload, Contract!Read, Contract!Sample, Contract!Rest,
                Contract!Leave, Contract!Break, Contract!End, Asked
  <2> QED BY <2>1, <2>2
<1>2. MeetsDaemonContract => [][\A p \in Pid : SamplesRunOut(p)]_vars
  <2>1. (\A p \in Pid : [Contract(p)!ContractNext]_(Contract(p)!contractVars))
            => \A p \in Pid : SamplesRunOut(p)
    BY <1>1 DEF ContractStep
  <2> QED BY <2>1, PTL DEF MeetsDaemonContract
<1> QED BY <1>2, DaemonMeetsContract, PTL

\* The thresholds and the poll interval of a sample: one reading of the file, the
\* last one, of a usable shape, or the defaults when that reading failed.
OneReading ==
    \A p \in Pid : pc[p] \in {"sample", "sleep"} =>
        \E v \in {saw[p].read, 0} \ BadShape : InForce(p, v)

\* Nothing that a configuration shapes changes under a sample; and what a reload does
\* not reach (the leak detector, the mount points, the dispatcher) never changes
\* between __init__ and the end of the process.
Steady(p) ==
    /\ PhaseOf(pc[p]) = "sampling" /\ PhaseOf(pc'[p]) = "sampling" =>
           mem'[p].inForce = mem[p].inForce
    /\ PhaseOf(pc[p]) # "deaf" /\ PhaseOf(pc'[p]) # "off" =>
           \A x \in ColdPart : mem'[p].inForce[x] = mem[p].inForce[x]

\* The thresholds and the poll interval of a sample come from one reading of the
\* file, the last; the parts that no reload reaches keep the configuration that
\* __init__ read, which may be an older one; and none changes under a sample,
\* whatever is edited and signalled meanwhile. HealthSampling, whose Reload falls
\* between rounds only, rests on this.
THEOREM SamplesAreSteady ==
    Spec => []OneReading /\ [][\A p \in Pid : Steady(p)]_vars
<1>1. ConfInv => OneReading
  BY DEF ConfInv, OneReading
<1>2. ASSUME NEW p \in Pid, ContractStep(p) PROVE Steady(p)
  <2>1. ASSUME PhaseOf(pc[p]) = "sampling", PhaseOf(pc'[p]) = "sampling"
        PROVE  mem'[p].inForce = mem[p].inForce
    BY <1>2, <2>1
    DEF ContractStep, Contract!ContractNext, Contract!contractVars, Contract!Appear,
        Contract!Edit, Contract!HangUp, Contract!Terminate, Contract!Construct,
        Contract!Enter, Contract!Reload, Contract!Read, Contract!Sample, Contract!Rest,
        Contract!Leave, Contract!Break, Contract!End
  <2>2. ASSUME PhaseOf(pc[p]) # "deaf", PhaseOf(pc'[p]) # "off", NEW x \in ColdPart
        PROVE  mem'[p].inForce[x] = mem[p].inForce[x]
    <3>1. \/ mem'[p].inForce = mem[p].inForce
          \/ mem'[p].inForce =
                 [y \in Part |-> IF y \in HotPart THEN mem[p].conf ELSE mem[p].inForce[y]]
      BY <1>2, <2>2
      DEF ContractStep, Contract!ContractNext, Contract!contractVars, Contract!Appear,
          Contract!Edit, Contract!HangUp, Contract!Terminate, Contract!Construct,
          Contract!Enter, Contract!Reload, Contract!Read, Contract!Sample, Contract!Rest,
          Contract!Leave, Contract!Break, Contract!End
    <3>2. x \in Part /\ x \notin HotPart
      BY <2>2 DEF ColdPart, HotPart, Part
    <3> QED BY <3>1, <3>2
  <2> QED BY <2>1, <2>2 DEF Steady
<1>3. (\A p \in Pid : [Contract(p)!ContractNext]_(Contract(p)!contractVars))
          => \A p \in Pid : Steady(p)
  BY <1>2 DEF ContractStep
<1> QED BY <1>1, <1>3, ConfInvHolds, DaemonMeetsContract, PTL DEF MeetsDaemonContract

=============================================================================
