--------------------------- MODULE SysHealthDaemon ---------------------------
(***************************************************************************)
(* The life of the processes that run daemon/syshealthd.py: the systemd    *)
(* service and the foreground monitors an administrator starts beside it.  *)
(* What they share is what they can break for one another: the pid file,   *)
(* the configuration file and the signals that systemd, logrotate and      *)
(* administrators send, at any point between two steps of the program.     *)
(*                                                                         *)
(* A configuration is a version number: 1 is the installed file, each edit *)
(* makes the next one, and 0 stands for the built-in defaults.             *)
(* A process identifier is used once (see the README).                     *)
(***************************************************************************)
EXTENDS Naturals

CONSTANTS
    Pid,          \* process identifiers
    Absent,       \* a pid file that does not exist
    Empty,        \* a pid file that exists and holds no number
    MaxVersion,   \* bound on the edits of the configuration file
    BadShape      \* versions that are JSON, and not an object: .get raises

ASSUME PidAssumption == Absent \notin Pid /\ Empty \notin Pid /\ Absent # Empty
ASSUME VersionAssumption ==
    /\ MaxVersion \in Nat \ {0}
    /\ BadShape \subseteq 1..MaxVersion

VARIABLES
    pc,           \* where each process is in main() and run()
    kind,         \* "service" for the unit's process, "monitor" for the others
    mem,          \* the attributes of each process's SysHealthDaemon object
    pidFile,      \* what the two pid files hold
    version,      \* the version now in the service's config.json
    unit,         \* systemd's state of syshealthd.service
    mainPid,      \* systemd's main process of the unit, Absent when none
    \* History, read by properties and by no action:
    saw,          \* what each process was asked and has read
    fate,         \* how each process ended, or where an exception left it
    half          \* processes whose write of the pid file failed half-way

unitVars == <<unit, mainPid>>
histVars == <<saw, fate, half>>
vars == <<pc, kind, mem, pidFile, version, unitVars, histVars>>

\* What a reload assigns, and what only __init__ ever sets from the file.
HotPart  == {"poll", "cpu", "memory", "disk"}
ColdPart == {"leakDetector", "mountpoints", "dispatcher"}
Part     == HotPart \union ColdPart

\* The points where a signal can find the process. "construct" is
\* SysHealthDaemon(...), "arm" line 119, "announce" the lines from there to the try,
\* "apply" those after load_config, "unwind" the finally clause with an exception
\* pending.
Startup  == {"construct", "handlers", "openpid", "writepid", "arm", "announce"}
LoopBody == {"load", "apply", "sample", "sleep"}
PC       == {"unused", "gone", "loop", "finally", "unwind"} \union Startup \union LoopBody

Version == 0..MaxVersion
Path    == {"run", "tmp"}

\* self.running, self.reload_requested, self.config, the version each part of
\* the daemon works with, and self.pid_file.
Memory == [running : BOOLEAN, reload : BOOLEAN, conf : Version,
           inForce : [Part -> Version], pidPath : Path]

\* Where a handled SIGTERM found the process ("loop": with running already set, from
\* "announce" on); the newest version on file when it handled a SIGHUP, leaving out
\* those handled while it was applying a reload; the version on file when load_config
\* last read it.
Sight == [asked : {"never", "startup", "loop"}, hupClean : Version, read : Version]

NoMemory == [running |-> FALSE, reload |-> FALSE, conf |-> 0,
             inForce |-> [x \in Part |-> 0], pidPath |-> "run"]
NoSight  == [asked |-> "never", hupClean |-> 0, read |-> 0]

Fate == {"none", "exit", "SIGTERM", "SIGHUP", "killed"} \union PC

TypeOK ==
    /\ pc \in [Pid -> PC]
    /\ kind \in [Pid -> {"none", "service", "monitor"}]
    /\ mem \in [Pid -> Memory]
    /\ pidFile \in [Path -> Pid \union {Absent, Empty}]
    /\ version \in 1..MaxVersion
    /\ unit \in {"inactive", "running", "stopping", "auto-restart"}
    /\ mainPid \in Pid \union {Absent}
    /\ saw \in [Pid -> Sight]
    /\ fate \in [Pid -> Fate]
    /\ half \in SUBSET Pid

Init ==
    /\ pc = [p \in Pid |-> "unused"]
    /\ kind = [p \in Pid |-> "none"]
    /\ mem = [p \in Pid |-> NoMemory]
    /\ pidFile = [f \in Path |-> Absent]
    /\ version = 1
    /\ unit = "inactive" /\ mainPid = Absent
    /\ saw = [p \in Pid |-> NoSight]
    /\ fate = [p \in Pid |-> "none"]
    /\ half = {}

Live(p)     == pc[p] \notin {"unused", "gone"}
\* handle_signals has run: signals reach the two handlers.
Handling(p) == Live(p) /\ pc[p] \notin {"construct", "handlers"}
InLoop(p)   == pc[p] \in LoopBody \union {"loop"}
\* self.running has been set, and not tested for the last time.
Armed(p)    == InLoop(p) \/ pc[p] = "announce"

Goto(p, label) == pc' = [pc EXCEPT ![p] = label]

\* The process ends, and its memory with it.
End(p, how) ==
    /\ Goto(p, "gone")
    /\ fate' = [fate EXCEPT ![p] = how]
    /\ mem' = [mem EXCEPT ![p] = NoMemory]
    /\ saw' = [saw EXCEPT ![p] = NoSight]

-----------------------------------------------------------------------------
(* The program's steps *)

\* A monitor reads the shipped config.json beside the code, which nobody edits:
\* version 0.
FileOf(p) == IF kind[p] = "service" THEN version ELSE 0

\* load_config: the file, or the defaults when it cannot be read or parsed, being
\* half-written for one.
Loadable(p) == {FileOf(p), 0}

\* What __init__ makes of a configuration.
Built(v, f) == [NoMemory EXCEPT !.conf = v, !.inForce = [x \in Part |-> v], !.pidPath = f]

\* Mutant: __init__ publishes the number where it chooses the pid file.
ConstructAndPublish(p) ==
    /\ pc[p] = "construct"
    /\ Goto(p, "handlers")
    /\ \E v \in Loadable(p) : mem' = [mem EXCEPT ![p] = Built(v, "run")]
    /\ pidFile' = [pidFile EXCEPT !["run"] = p]
    /\ saw' = [saw EXCEPT ![p].read = FileOf(p)]
    /\ UNCHANGED <<kind, version, unitVars, fate, half>>

\* __init__: the only place that reads every part of the configuration. A file
\* of the wrong shape raises out of main(), and so does a warning that cannot be
\* printed. The service is root and /run is writable to it; a monitor may run as
\* anyone.
Construct(p) ==
    /\ pc[p] = "construct"
    /\ \/ End(p, "construct")
       \/ /\ Goto(p, "handlers")
          /\ \E v \in Loadable(p) \ BadShape, f \in Path :
               /\ kind[p] = "service" => f = "run"
               /\ mem' = [mem EXCEPT ![p] = Built(v, f)]
          /\ saw' = [saw EXCEPT ![p].read = FileOf(p)]
          /\ UNCHANGED fate
    /\ UNCHANGED <<kind, pidFile, version, unitVars, half>>

\* Both handlers are in place from here on (Handling).
HandleSignals(p) ==
    /\ pc[p] = "handlers"
    /\ Goto(p, "openpid")
    /\ UNCHANGED <<kind, mem, pidFile, version, unitVars, histVars>>

\* open(pid_file, "w") truncates what is there; a failure is only warned about,
\* and only a warning that cannot be printed leaves run().
OpenPidFile(p) ==
    /\ pc[p] = "openpid"
    /\ \/ /\ Goto(p, "writepid")
          /\ pidFile' = [pidFile EXCEPT ![mem[p].pidPath] = Empty]
          /\ UNCHANGED <<mem, saw, fate>>
       \/ Goto(p, "arm") /\ UNCHANGED <<pidFile, mem, saw, fate>>
       \/ End(p, "openpid") /\ UNCHANGED pidFile
    /\ UNCHANGED <<kind, version, unitVars, half>>

\* The number reaches the file when the with statement closes it, or never; the
\* warning about that may raise in turn.
WritePidFile(p) ==
    /\ pc[p] = "writepid"
    /\ \/ Goto(p, "arm") /\ UNCHANGED <<mem, saw, fate>>
       \/ End(p, "writepid")
    /\ \/ pidFile' = [pidFile EXCEPT ![mem[p].pidPath] = p] /\ UNCHANGED half
       \/ half' = half \union {p} /\ UNCHANGED pidFile
    /\ UNCHANGED <<kind, version, unitVars>>

\* Mutant: the reload flag is reset with the running flag.
ArmAndForget(p) ==
    /\ pc[p] = "arm"
    /\ Goto(p, "announce")
    /\ mem' = [mem EXCEPT ![p].running = TRUE, ![p].reload = FALSE]
    /\ UNCHANGED <<kind, pidFile, version, unitVars, histVars>>

\* self.running = True, whatever a handler has stored there before.
Arm(p) ==
    /\ pc[p] = "arm"
    /\ Goto(p, "announce")
    /\ mem' = [mem EXCEPT ![p].running = TRUE]
    /\ UNCHANGED <<kind, pidFile, version, unitVars, histVars>>

\* The lines from there to the try, which print: an exception in them leaves run()
\* with the pid file in place.
Announce(p) ==
    /\ pc[p] = "announce"
    /\ \/ Goto(p, "loop") /\ UNCHANGED <<mem, saw, fate>>
       \/ End(p, "announce")
    /\ UNCHANGED <<kind, pidFile, version, unitVars, half>>

\* Mutant: a pending reload is looked at before the running flag.
LoopTestReloadFirst(p) ==
    /\ pc[p] = "loop"
    /\ \/ mem[p].reload /\ Goto(p, "load")
       \/ ~mem[p].reload /\ ~mem[p].running /\ Goto(p, "finally")
       \/ ~mem[p].reload /\ mem[p].running /\ Goto(p, "sample")
    /\ UNCHANGED <<kind, mem, pidFile, version, unitVars, histVars>>

\* Mutant: the loop never looks at the reload flag.
LoopTestNoReload(p) ==
    /\ pc[p] = "loop"
    /\ Goto(p, IF mem[p].running THEN "sample" ELSE "finally")
    /\ UNCHANGED <<kind, mem, pidFile, version, unitVars, histVars>>

\* while self.running, and the reload branch below it.
LoopTest(p) ==
    /\ pc[p] = "loop"
    /\ \/ ~mem[p].running /\ Goto(p, "finally")
       \/ mem[p].running /\ mem[p].reload /\ Goto(p, "load")
       \/ mem[p].running /\ ~mem[p].reload /\ Goto(p, "sample")
    /\ UNCHANGED <<kind, mem, pidFile, version, unitVars, histVars>>

\* self.config = self.load_config(), whose warning may raise.
ReloadLoad(p) ==
    /\ pc[p] = "load"
    /\ \/ /\ Goto(p, "apply")
          /\ \E v \in Loadable(p) : mem' = [mem EXCEPT ![p].conf = v]
          /\ saw' = [saw EXCEPT ![p].read = FileOf(p)]
       \/ Goto(p, "unwind") /\ UNCHANGED <<mem, saw>>
    /\ UNCHANGED <<kind, pidFile, version, unitVars, fate, half>>

\* Mutant: the memory collector keeps its thresholds.
ReloadApplyButMemory(p) ==
    /\ pc[p] = "apply"
    /\ Goto(p, "sample")
    /\ mem' = [mem EXCEPT
         ![p].inForce = [x \in Part |-> IF x \in HotPart \ {"memory"} THEN mem[p].conf ELSE @[x]],
         ![p].reload = FALSE]
    /\ UNCHANGED <<kind, pidFile, version, unitVars, histVars>>

\* The thresholds and the poll interval follow the new file, then the flag is
\* cleared. A file of the wrong shape raises on the first line of it, a print that
\* fails on the last; what is in force then no longer matters.
ReloadApply(p) ==
    /\ pc[p] = "apply"
    /\ \/ Goto(p, "unwind") /\ UNCHANGED mem
       \/ /\ mem[p].conf \notin BadShape
          /\ Goto(p, "sample")
          /\ mem' = [mem EXCEPT
               ![p].inForce = [x \in Part |-> IF x \in HotPart THEN mem[p].conf ELSE @[x]],
               ![p].reload = FALSE]
    /\ UNCHANGED <<kind, pidFile, version, unitVars, histVars>>

\* Mutant: no finally clause around the loop.
SampleUnguarded(p) ==
    /\ pc[p] = "sample"
    /\ \/ Goto(p, "sleep") /\ UNCHANGED <<mem, saw, fate>>
       \/ End(p, "sample")
    /\ UNCHANGED <<kind, pidFile, version, unitVars, half>>

\* sample_system and dispatch, either of which may raise (a closed standard
\* output, for one): the finally clause then runs.
Sample(p) ==
    /\ pc[p] = "sample"
    /\ Goto(p, "sleep") \/ Goto(p, "unwind")
    /\ UNCHANGED <<kind, mem, pidFile, version, unitVars, histVars>>

\* The naps end when running falls or when the interval has passed; a reload
\* request ends none of them.
SleepDone(p) ==
    /\ pc[p] = "sleep"
    /\ Goto(p, "loop")
    /\ UNCHANGED <<kind, mem, pidFile, version, unitVars, histVars>>

\* finally: remove_pid_file removes the file at self.pid_file, whoever wrote it.
\* Root can always remove a file of /run; in /tmp another user's file stays.
Finally(p) ==
    /\ pc[p] \in {"finally", "unwind"}
    /\ End(p, "exit")
    /\ \/ pidFile' = [pidFile EXCEPT ![mem[p].pidPath] = Absent]
       \/ mem[p].pidPath = "tmp" /\ UNCHANGED pidFile
    /\ UNCHANGED <<kind, version, unitVars, half>>

Step(p) ==
    \/ Construct(p) \/ HandleSignals(p) \/ OpenPidFile(p) \/ WritePidFile(p) \/ Arm(p)
    \/ Announce(p) \/ LoopTest(p) \/ ReloadLoad(p) \/ ReloadApply(p) \/ Sample(p)
    \/ SleepDone(p) \/ Finally(p)

-----------------------------------------------------------------------------
(* Signals: a handler runs between two steps of the program. *)

\* A handler prints before it stores its flag, and the print may raise at the point
\* where the signal found the program (a closed standard output, for one). The
\* exception ends the loop or the process; where the program has an except clause
\* (write_pid_file, load_config, the collectors) the signal may simply be lost.
HandlerRaises(p) ==
    /\ Handling(p)
    /\ \/ InLoop(p) /\ Goto(p, "unwind") /\ UNCHANGED <<mem, saw, fate>>
       \/ ~InLoop(p) /\ End(p, pc[p])
       \/ pc[p] \in {"openpid", "writepid", "load", "sample"} /\ UNCHANGED <<pc, mem, saw, fate>>

\* SIGTERM or SIGINT: sig_term_handler, or death before handle_signals.
Terminate(p) ==
    /\ \/ /\ Handling(p)
          /\ mem' = [mem EXCEPT ![p].running = FALSE]
          /\ saw' = [saw EXCEPT ![p].asked = IF Armed(p) THEN "loop"
                                             ELSE IF @ = "never" THEN "startup" ELSE @]
          /\ UNCHANGED <<pc, fate>>
       \/ HandlerRaises(p)
       \/ ~Handling(p) /\ End(p, "SIGTERM")
    /\ UNCHANGED <<kind, pidFile, version, half>>

\* SIGHUP: sig_hup_handler, or death before handle_signals.
HangUp(p) ==
    /\ \/ /\ Handling(p)
          /\ mem' = [mem EXCEPT ![p].reload = TRUE]
          /\ saw' = [saw EXCEPT ![p].hupClean = IF pc[p] = "apply" THEN @ ELSE FileOf(p)]
          /\ UNCHANGED <<pc, fate>>
       \/ HandlerRaises(p)
       \/ ~Handling(p) /\ End(p, "SIGHUP")
    /\ UNCHANGED <<kind, pidFile, version, half>>

\* SIGKILL, from the administrator, the OOM killer or systemd, or another signal
\* that the program leaves to its default action (SIGQUIT).
Kill(p) ==
    /\ End(p, "killed")
    /\ UNCHANGED <<kind, pidFile, version, half>>

-----------------------------------------------------------------------------
(* systemd, as daemon/systemd/syshealthd.service configures it *)

Spawn(p, k) ==
    /\ pc[p] = "unused"
    /\ Goto(p, "construct")
    /\ kind' = [kind EXCEPT ![p] = k]
    /\ UNCHANGED <<mem, pidFile, version, histVars>>

\* systemctl start, and Restart=always after RestartSec. Type=simple: the unit
\* is running as soon as the process exists.
UnitStart(p) ==
    /\ unit \in {"inactive", "auto-restart"}
    /\ Spawn(p, "service")
    /\ unit' = "running"
    /\ mainPid' = p

\* systemctl stop: SIGTERM to the main process.
UnitStop ==
    \/ /\ unit = "running"
       /\ Live(mainPid)
       /\ unit' = "stopping"
       /\ Terminate(mainPid)
       /\ UNCHANGED mainPid
    \/ /\ unit = "auto-restart"
       /\ unit' = "inactive"
       /\ UNCHANGED <<pc, kind, mem, pidFile, version, mainPid, histVars>>

\* Mutant: systemd waits for the process for ever (TimeoutStopSec=infinity).
UnitStopWaits ==
    /\ unit = "stopping"
    /\ Live(mainPid)
    /\ UNCHANGED vars

\* TimeoutStopSec is over and the process still lives.
UnitStopTimeout ==
    /\ unit = "stopping"
    /\ Live(mainPid)
    /\ Kill(mainPid)
    /\ UNCHANGED unitVars

\* The main process has ended: systemd removes PIDFile= and restarts the unit
\* unless it was being stopped.
UnitReap ==
    /\ unit \in {"running", "stopping"}
    /\ pc[mainPid] = "gone"
    /\ pidFile' = [pidFile EXCEPT !["run"] = Absent]
    /\ unit' = IF unit = "stopping" THEN "inactive" ELSE "auto-restart"
    /\ mainPid' = Absent
    /\ UNCHANGED <<pc, kind, mem, version, histVars>>

\* ExecReload=/bin/kill -HUP $MAINPID.
UnitReload ==
    /\ unit = "running"
    /\ Live(mainPid)
    /\ HangUp(mainPid)
    /\ UNCHANGED unitVars

-----------------------------------------------------------------------------
(* The rest of the host *)

\* Mutant: a postrotate script that only knows the pid file.
LogrotateByFileOnly ==
    IF pidFile["run"] \notin {Absent, Empty} /\ Live(pidFile["run"])
    THEN pidFile["run"] ELSE Absent

\* Whom logrotate's postrotate script signals, Absent when nobody: the process
\* named by the pid file when there is one, or else the active unit's.
LogrotateTarget ==
    IF pidFile["run"] # Absent
    THEN IF pidFile["run"] # Empty /\ Live(pidFile["run"]) THEN pidFile["run"] ELSE Absent
    ELSE IF unit = "running" /\ Live(mainPid) THEN mainPid ELSE Absent

Logrotate ==
    /\ LogrotateTarget # Absent
    /\ HangUp(LogrotateTarget)
    /\ UNCHANGED unitVars

\* sys-admin-suite monitor, or syshealthd --foreground by hand.
StartMonitor(p) ==
    /\ Spawn(p, "monitor")
    /\ UNCHANGED unitVars

Signal(p) ==
    /\ Live(p)
    /\ Terminate(p) \/ Kill(p)
    /\ UNCHANGED unitVars

EditConfig ==
    /\ version < MaxVersion
    /\ version' = version + 1
    /\ UNCHANGED <<pc, kind, mem, pidFile, unitVars, histVars>>

Next ==
    \/ \E p \in Pid : Step(p) \/ UnitStart(p) \/ StartMonitor(p) \/ Signal(p)
    \/ UnitStop \/ UnitStopTimeout \/ UnitReap \/ UnitReload
    \/ Logrotate
    \/ EditConfig

\* A process that can take a step takes one, and time passes in its naps;
\* systemd notices an exit and its stop timeout expires. Nobody else must act.
Fairness ==
    /\ \A p \in Pid : WF_vars(Step(p))
    /\ WF_vars(UnitReap)
    /\ WF_vars(UnitStopTimeout)

Spec == Init /\ [][Next]_vars /\ Fairness

-----------------------------------------------------------------------------
(* What the daemon does keep *)

\* A pid file never names a live process that a SIGHUP would still kill:
\* run() installs the handlers before it publishes its number.
PidFileNamesHandlers ==
    \A f \in Path, p \in Pid : pidFile[f] = p /\ Live(p) => Handling(p)

\* A number left in /run/syshealthd.pid by a dead process is that of one that was
\* killed, or that an exception has left where no finally clause covers it: between
\* the write and the try, or in the finally clause itself. An exception in a sample,
\* in a nap or in a reload leaves none, and neither does a SIGTERM or a SIGHUP whose
\* handler returned or that came before the number was written.
StalePidExplained ==
    \A p \in Pid : pidFile["run"] = p /\ pc[p] = "gone" =>
        fate[p] \in {"killed", "writepid", "arm", "announce", "finally", "unwind"}

\* With no other instance on the host, logrotate's script signals the service
\* from the moment its number is written: through the file or, when the file
\* could not be opened, through systemctl. Only a write that fails half-way
\* leaves an empty file that hides the service.
LogrotateReachesLoneService ==
    /\ \A p \in Pid : kind[p] # "monitor"
    /\ unit = "running"
    /\ Handling(mainPid) /\ pc[mainPid] # "writepid" /\ mainPid \notin half
    => LogrotateTarget = mainPid

\* A process that has no reload pending has read a configuration at least as
\* new as the one on file at the last SIGHUP it handled, except for the SIGHUPs
\* that arrived while it was applying a reload.
CleanReloadSeen ==
    \A p \in Pid : InLoop(p) /\ ~mem[p].reload => saw[p].read >= saw[p].hupClean

\* Where a process is, as far as its contract can tell.
PhaseOf(l) ==
    CASE l \in {"unused", "gone"}              -> "off"
      [] l \in {"construct", "handlers"}       -> "deaf"
      [] l \in {"openpid", "writepid", "arm"}  -> "starting"
      [] l \in {"announce", "loop"}            -> "idle"
      [] l = "load"                            -> "reading"
      [] l = "apply"                           -> "applying"
      [] l \in {"sample", "sleep"}             -> "sampling"
      [] l = "finally"                         -> "ending"
      [] l = "unwind"                          -> "broken"

Contract(p) == INSTANCE DaemonContract WITH
    Hot   <- HotPart,
    phase <- PhaseOf(pc[p]),
    file  <- FileOf(p),
    read  <- saw[p].read,
    value <- mem[p].conf,
    owed  <- saw[p].hupClean,
    stop  <- saw[p].asked = "loop",
    using <- mem[p].inForce

\* Whatever happens to the file and to the other processes, and whenever signals
\* arrive: no sample begins with thresholds or an interval that a SIGHUP has made
\* outdated, that mix two readings of the file or that are misshapen, and what a
\* reload does not reach stays as __init__ built it; after a SIGTERM one more
\* sample begins at most; and the loop is left for a SIGTERM or an exception only.
MeetsDaemonContract ==
    /\ \A p \in Pid : Contract(p)!ContractInit
    /\ [][\A p \in Pid : [Contract(p)!ContractNext]_(Contract(p)!contractVars)]_vars

\* A SIGTERM handled once running is set (line 119) ends the process, whatever
\* reloads and samples come between and however many SIGHUPs follow.
TermEndsLoop == \A p \in Pid : saw[p].asked = "loop" ~> ~Live(p)

\* A SIGHUP handled outside the application of a reload is followed by a read
\* of a configuration at least as new, unless the process ends first.
CleanReloadServed ==
    \A p \in Pid, v \in Version :
        (saw[p].hupClean = v /\ Live(p)) ~> (saw[p].read >= v \/ ~Live(p))

\* systemctl stop ends the service, although its SIGTERM may have no effect: one that
\* comes before line 119 is overwritten there, one whose handler raises under an
\* except clause is lost. Then it is systemd's stop timeout that ends it.
StopEndsService == unit = "stopping" ~> unit = "inactive"

=============================================================================
