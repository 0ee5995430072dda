# A verification project for the Linux Server Diagnostic Suite

TLA+ models of the suite's programs, the TLC configurations that check them on
small instances, and TLAPS proofs of theorems that hold for every instance.

To repeat everything, in this directory:

    tlc -workers 2 -config SysHealthDaemon_reload.cfg MCSysHealthDaemon   # one run
    tlapm SysHealthDaemonProofs.tla                                       # the proofs about one module

`PROJECT.json` lists each run with its module, the properties it checks and the
verdict to expect; the mutants, by which each property is shown to depend on the
code; and, under `map`, the source lines that each definition translates.

## 1. The system

The suite has no process that coordinates the others. Its parts meet through the
file system, signals, systemd and cron, and that is where its difficulties are.

| component | state it keeps | operations | meets the others through |
|---|---|---|---|
| **syshealthd** (`daemon/syshealthd.py`, its systemd unit, logrotate's script) | `running`, `reload_requested`, the configuration and what was built from it, two pid files | construct, `run` and its loop, two signal handlers, `--foreground`, `--once` | signals from systemd, logrotate, administrators; `/run/syshealthd.pid`; `config.json` |
| **health sampling** (`collectors/*.py`, `sample_system`) | CPU tick baseline, thresholds | one round: CPU, memory, disk, verdict | thresholds replaced by a reload; `/proc`, `ps`, `statvfs` |
| **leak detector** (`MemoryLeakDetector`) | a bounded queue of sizes per pid | `analyze_leaks` | called once per round by the memory collector |
| **alert dispatcher** (`alerts.py`), **log rotation** | the open log file | `dispatch`; rotate, postrotate | renames the file that the dispatcher has open, signals the daemon |
| **backup manager** (`backup_manager.sh`) | archives and signatures in one directory | backup, verify, prune, list, install-cron | overlapping invocations, cron |
| **service watchdog** (`service_watchdog.sh`) | the incidents of one sweep | a sweep over the services | systemd; sweeps overlap each other and the uninstaller |
| **uninstaller** (`uninstall.sh`) | none | system-wide or user removal | stops the daemon that the watchdog revives |
| **socket analyzer** (`socket_analyzer.py`) | none between analyses | analyze through ss or netstat | the words of two external tools |
| **latency probe**, **iperf runner**, **netdiag**, **reporter** | one result each | ping or TCP probe, benchmark, report | called in sequence by `netdiag.py` |
| **provisioning** (`harden_ssh.sh`, `setup_ufw.sh`, `setup_network.sh`, `install.sh`) | sshd's configuration, the firewall, interfaces, installed files | one script each | files of the host, systemd |
| **dispatcher** (`bin/sys-admin-suite`) | none | one subcommand | starts all of the above |
| containers, virtual machine, CI | | | declarations only |

What is hard, and what makes each part correct (the hazards in `PROJECT.json`
give the line of each):

* *syshealthd*: Python runs a signal handler between any two steps, before the
  handlers exist a signal kills, and several instances share the pid files. A
  signal must be served, a pid file must not mislead those who read it, and a
  sample must not mix two configurations.
* *Health sampling*: the CPU baseline survives failed reads and first rounds, the
  kernel's idle counter may go back, and six kinds of readings make one status. A
  tick counts once; the verdict is the worst reading.
* *Leak detector*: a sliding window, interrupted runs, reused pids. It must flag
  by the samples exactly what it says, with bounded memory.
* *Backup manager*: a kill between any two commands, two invocations at once,
  clock arithmetic. What was committed stays, whole, until retention lets it go.
* *Watchdog*: everything it has read about a service may have changed when it
  acts. Services that can run come back, each incident is accounted for, and the
  uninstalled daemon stays down.
* *Socket analyzer*: words of tools against constants of the code.
* *Log rotation*: a handler that keeps the inode it opened against a rename, a
  delayed compression that unlinks, and a rotation that depends on what is in the
  file. Every record is to be found for as long as the rotation keeps it.
* *netdiag*: external programs that fail, hang or are not there, one after the
  other, while the network changes; three renderings of one result. A report says
  what happened and leaves nothing out.
* *Provisioning*: scripts that stop at the first failing command or are killed, on
  a host that reboots and that others edit. No run may shut the administrator out,
  by the firewall or by sshd, and what success promises is in effect.

## 2. The modules

Each component has one module, with the state as variables and one action per
step at which something else can intervene. `MC*` modules add what TLC needs
(symmetry sets, views, constant values that are functions or tuples). A module
`XProofs` holds the theorems about X; `DiagnosticsProofs` those about the two
modules of `diagnostics/`, SocketAnalyzer and NetDiag.

### SysHealthDaemon and DaemonContract

`pc[p]` is the place of process `p` in `main()` and `run()`; `mem[p]` holds its
attributes; `pidFile`, `version`, `unit` and `mainPid` are the two pid files, the
configuration file and systemd's view. The actions follow the code in order:
`Construct` (`__init__`), `HandleSignals`, `OpenPidFile` and `WritePidFile` (the
`with` statement truncates first and writes on close), `Arm` (line 119), `Announce`
(lines 121 to 123), `LoopTest`, `ReloadLoad` and `ReloadApply` (line 128, and 129 to
135), `Sample`, `SleepDone`, `Finally`. What prints may raise: inside the `try` the
process goes to `Finally` (place "unwind"), outside it ends where it is. `Terminate`,
`HangUp` and `Kill` are signals and may come between any two of these; a handler
prints before it stores its flag, so that it may raise in turn (`HandlerRaises`), and
under an `except` clause of the program the signal is then lost. `Unit*` is systemd as the unit file configures it;
`Logrotate` is the postrotate script, whose choice of target is
`LogrotateTarget`; `StartMonitor`, `Signal`, `EditConfig` are administrators.

A configuration is a version number. A read yields the version on file or, when it
is malformed, half-written or unreadable, the defaults, version 0 (`Loadable`);
`BadShape` versions are JSON but no object and raise where they are used. A monitor reads the shipped file beside the code, which
nobody edits. The history variables `saw`, `fate` and `half` are read by
properties and by no action.

DaemonContract is what one process promises whoever edits its configuration and
signals it, without the two flags by which the program keeps it: where it is in a
coarse sense (`phase`), the version on file, the one it has read and what that
reading has yielded (`value`), the one that the last SIGHUP obliges it to (`owed`),
whether a SIGTERM has reached its main loop (`stop`), and what each part works with
(`using`). A sample begins with thresholds and an interval of one reading, which no
such SIGHUP has made outdated and which has the right shape, and with the other parts
as they were built; no reload begins after a SIGTERM, so that one more sample begins
at most; the loop is left for a SIGTERM or an exception only. The two windows of
section 5 are written into it: a SIGTERM before the loop and a SIGHUP while a reload
is applied oblige to nothing. `Contract(p)` is the contract of process `p` under the
mapping that merges places of the program (`PhaseOf`) and forgets `running` and
`reload`; `MeetsDaemonContract` says that every process meets its own, whatever the
others do. It is written as the initial condition and the step relation of all
contracts, TLC having no quantifier over specifications.

A process identifier is used once in a behaviour, so a pid that the kernel gives
to an unrelated program is not modelled. `--once` writes no pid file, installs no
handlers and shares nothing with the others; its work is a round of
HealthSampling.

### HealthSampling

A round is `CpuFirst`, perhaps `CpuAgain` after the nap of 100 ms, perhaps
`CpuFromPs`; `CollectMemory`, `CollectLeaks`, one `CheckMountpoint` per mountpoint
(in any order: the list's order is configuration), `CollectDisk`, `SampleSystem`,
`Dispatch`. Between any two, the CPU works, idles or has iowait taken back
(`CpuRuns`); `Reload` changes the thresholds between rounds. Percentages are in
hundredths, as `round(x, 2)` leaves them; loads are per core and in hundredths
too. `CollectMemory` is the RAM and swap judgement, one step since both figures
come of one reading. What leaks are found is LeakDetector's matter: here any or
none.

### LeakDetector and LeakContract

`size` is the host: which pids run, with which resident size. `AnalyzeLeaks` is a
whole call: `TopN` is the sort and slice, `Push` the `deque(maxlen)`, `Increases`
the loop, `IsSuspect` the three conditions, `Updated` the pruning; a failing `ps`
lists nobody. LeakContract states the promise without queues: from the latest
`WindowSize` samples, a process is flagged if it grew in each of the last
`Threshold - 1` intervals, and by `MinGrowth` over its uninterrupted run of
samples. `trace`, a history variable, holds those samples, and
`MeetsLeakContract` is the refinement under the identity mapping.

### BackupManager and BackupContract

One record per invocation (`run`), one file record per stamp for archives and one
value for signatures. `TarOpen`/`TarClose` are the two `tar` commands of line
96 (the second only after the first has failed), `Integrity` the `tar -tzf` and
`RemoveBad` the `rm -f` after it, which hits whatever has the name by then,
`SignOpen`/`SignWrite` the redirection and the write, `Check`, `Commit`; then
`PruneFind`, which lists some of the expired archives since its failure goes
unnoticed (`missed` records the others), and, file by file, `RemoveArchive` and `RemoveSignature`, the two
unlinks of one `rm -f`; `VerifyOne`/`VerifyEnd` for `verify_all`. `Crash` kills an
invocation anywhere. Backups of one second write to one file, whose `writers` and
`shared` say what becomes of it: perhaps a "mixed" archive. What is promised of an
archive is promised of the one that is `Alone` in its second. Time is in ticks, `Day`
of them to a day, and `Old` is the comparison of `find -mtime +N`, which drops the
fraction of a day: an archive goes after `Lifetime`, one day more than the retention.
The two unlinks of a prune succeed. `list` only reads and `install-cron`
writes a cron entry: neither changes the store.

BackupContract is the store as the administrator sees it: whole backups, each under
the second it was started in, that come in one step, are not altered, and go when
they have expired. A second in which two backups were started is `shared`, and
nothing is promised of it. `MeetsBackupContract` is the refinement: a second holds what
was announced of it as long as that is `Kept`, and nothing otherwise. `Timestamp`,
the name of a new archive, is the clock with nothing cut off it.

### SocketAnalyzer

`table` is the host's sockets with their states and whether their two queue
figures exceed 1024; `Analyze` is a whole analysis by `tool`, including its
failures. `SsWord` and `NetstatWord` are the words the tools print (external,
from their documented formats), `SsState` the code's normalisation. A host's
netstat may print the state last, or, with the `-p` that the code passes, the
program ("netstat-p"). Rows whose figures are not numbers are passed over by the
code before anything is counted; no tool prints them, and the model has none. The
list of sample sockets in a report is left out.

### ServiceWatchdog

`sweep[w]` is one run of the script: `Probe` (`is-active`), `Detected` (the log
entry and the choice by root and systemctl), `Restart` (`systemctl restart` and
the nap), `Recheck`, `Exit`. `Crash`, `SystemdRestart`, `AdminStop` and
`AdminStart` go on around it, and `DisableNow`, `RemoveUnit`, `RemoveFiles`,
`DaemonReload` are uninstall.sh. A sweep that has ended may begin again, which
stands for all later ones. Writes to the incident log succeed. `Interrupt` ends
sweeps started by hand only: nothing interrupts cron's.

### LogRotation and LogContract

`files` is `/var/log/syshealthd.log` and what it was renamed to, newest first, each
with its inode and its records; `handle[p]` is the inode that process `p` writes
to. `OpenLog`, `Dispatch` and `Exit` are the dispatcher's (a fallback file in the
working directory, or no handler at all, included), `Reload` is what SIGHUP brings
about, which touches no handler, and `Rotate` is one run of logrotate over the
stanza: `Due` is `missingok` and `notifempty`, `Rotated` the renames with `create`,
`delaycompress` (gzip writes a new inode and unlinks the one it read) and the
removal of what is too old. A rotation is one step: a record that falls into it
counts as written before or after. The watchdog's and the backup's logs are under
the same stanza, but their scripts open them anew for every line.

LogContract is what a reader of the log may count on: a sequence of generations of
which only the two newest grow, and that are dropped from the old end only.
LogRotation implements it under the mapping that forgets inodes and handlers
(`MeetsLogContract`).

### NetDiag

One run of `netdiag.py`, from its arguments to its report: the latency probe packet
by packet (`Echo`, `PingEnds`, `PingFails`, then `FallBack` to `Handshake` and
`SynEnds`), `RunTcp` and `RunUdp` with every outcome of iperf3 that the code tells
apart, `AnalyzeSockets` (any status of SocketAnalyzer), `PrintReport` as JSON or
summary, `OpenExport` and `WriteExport`. `WorldMoves` changes the path and the
server between any two of these and `Kill` ends the run anywhere. `Summary`,
`Markdown` and `Json` say for each test whether a rendering shows numbers, an error
or nothing. A ping whose name does not resolve prints no statistics; it takes the
way of one that heard nothing.

### Provisioning

The three scripts of `sys-admin-suite provision`, alone or in their order, as root,
under `set -e`, again and again on one host (`host`: which tools and directories it
has). Every command that changes something is a step: the netplan file's
truncation and its contents, `generate`, `apply`, or the ip commands; ufw's reset,
each rule, enable, status; the drop-in file's truncation and its contents, or the
append to `sshd_config`, then `sshd -t`, and reload or revert. A write may fail at its
start or leave a part (`SshWrite`, `SshFill`), the ip commands may be refused without
the script's taking notice (`IpLink`), and `reload || restart` may fail with a
configuration that `sshd -t` has accepted, and leave no server (`SshReload`; whom it
asks is `Managed`). `Kill`, `Reboot` and `ForeignEdit` (of the rest of sshd's
configuration, between runs) come from outside. The exit status of systemctl, service
and netplan is taken at its word: a reload that it calls done is done. Previews by an
unprivileged user change nothing and are left out.

## 3. The runs

A "violation" run shows a statement of the repository about the program that the
program does not satisfy.

| run | what it asks | size |
|---|---|---|
| SysHealthDaemon_pidfiles | what the pid files can be trusted for with three processes, service and monitors, under every signal | 3 pids, 1 version |
| SysHealthDaemon_reload | whether the flags implement the contract, both signals are served and a stop ends the service, with edits to good and misshapen files and reads that fail | 1 pid, 3 versions |
| LeakDetector_contract | whether the queues and the loop implement the contract, within their bound | 2 pids, sizes 0..3, window 4 |
| BackupManager_store | what stays in the store, what leaves it, what verify finds, and whether every invocation ends | 3 invocations, 3 ticks, 2 to a day, seconds shared |
| BackupManager_targets | violation: the backup directory is archived and announced | 1 invocation |
| HealthSampling_rounds | whether the verdict is the worst reading and no tick counts twice | 2 mountpoints, 2 threshold files, 2 busy and 1 idle ticks |
| SocketAnalyzer_report | what a report can be trusted for | 3 sockets, 3 tools or none |
| SocketAnalyzer_leak | violation: no CLOSE_WAIT leak is seen through ss | 2 sockets |
| ServiceWatchdog_sweeps | whether services come back, incidents add up and the removed daemon stays down | 3 services, 2 sweeps |
| LogRotation_records | in which file each record ends up and for how long, and whether the log meets its contract | 2 processes, 2 archives, 5 records, 4 starts |
| NetDiag_report | whether verdicts are sound, and what each rendering leaves out | 2 packets |
| Provisioning_runs | what runs that fail, are killed and repeated leave of firewall, sshd and network | 2 rules, all 1024 hosts |

The properties, in the words of their modules' comments:

* *SysHealthDaemon*: `PidFileNamesHandlers` (a pid file never names a live process
  that SIGHUP would kill), `StalePidExplained` (a stale number means a kill, or an
  exception outside the `try` or in the `finally` clause; none in a sample, a nap or a
  reload leaves one),
  `LogrotateReachesLoneService` (alone on the host, the service is reached from
  the moment its number is written, unless that write failed half-way),
  `CleanReloadSeen` and `CleanReloadServed` (a SIGHUP handled outside the
  application of a reload leads to a read of a file at least as new),
  `MeetsDaemonContract` (which configuration a sample may begin with, and when one may
  begin at all), `TermEndsLoop`, `StopEndsService` (`systemctl stop` ends the service,
  by its timeout where the SIGTERM was lost).
* *LeakDetector*: `MeetsLeakContract`, `QueueIsRecentRun` (no gap is papered over, no
  sample of the run is missing), `TrackedBounded`.
* *BackupManager*: `MeetsBackupContract` (the store), `CommittedKept` (whole until it
  has expired), `RemovedForCause` (an archive goes by age, or by a backup of its own
  second that could not read it, and not one that was announced unless two share the
  second), `SuccessPrunes` (of what find has listed nothing is left),
  `OrphanOnlyFromPrune`, `VerifyExact` and `EndsInSteps` (each step of an invocation
  leaves it fewer).
* *HealthSampling*: `VerdictIsWorst`, `TicksCountedOnce`.
* *SocketAnalyzer*: `NoFalseAlarm`, `NetstatExact`, `BreakdownComplete`.
* *ServiceWatchdog*: `SoundRecovers`, `IncidentsLogged`, `UninstalledAlone`.
* *LogRotation*: `HandlePlace` (how old a handler is says in which file it writes,
  whatever reloads there have been), `RetentionExact` (a record is found exactly as
  long as its age and that of its writer's handler are within `Keep`),
  `RotationNeedsStart` (without restarts the log is not rotated again),
  `MeetsLogContract`.
* *NetDiag*: `VerdictSound` (a target that takes connections is not called
  unreachable), `OmitsOnlyFailedUdp`, `FileAgrees` (with the terminal),
  `ExportExact`, `EveryRunEnds`.
* *Provisioning*: `FirewallWhole` (never on with a part of the rules),
  `SpoiltOnlyByAppend` (when the next boot can find a configuration that sshd
  refuses), `HardeningLasts`, `ConfigNeverStopsSshd` (a run stops the server only by a
  failing restart of a configuration that sshd accepts, and then fails itself),
  `DoneOrWarned` (what an exit with 0 is worth, the swallowed failures left out).

A property is there once, with the run whose instance makes it hardest. No run
checks a type invariant: each module's is a theorem.

### Bounds, and why they are enough

* *SysHealthDaemon.* Three processes are the old service, its successor and a
  monitor: every pair of writers and removers of a pid file, with a bystander.
  Nothing about reloads relates two processes, so `_reload` takes one, and spends
  its states on three versions: a good one on either side of a misshapen one; any
  read of any of them may fail. `MaxVersion` bounds the edits.
* *LeakDetector.* A window longer than the threshold by one lets samples slide out
  of a run; two pids for one place make processes leave and re-enter the listing.
  Sizes 0..3 with `MinGrowth` 3 let a run grow enough, just not enough, and after
  a dip.
* *BackupManager.* Three invocations are, for instance, a backup, a killed prune
  and a verify; `MaxTime` 3 with two ticks to a day and `Retention` 0 lets an archive
  be younger than the retention, older by a fraction of a day, which find drops, and
  older by a whole one. `Tick` lets no time pass that would expire what a running
  invocation wrote first: a backup is taken to last less than that (8 days), which
  the script does not enforce. `SameSecond` lets two backups share a stamp.
* *HealthSampling.* The readings 0 and 87 % meet every level through two threshold
  files, the shipped one and one with critical below warning. Two busy and one
  idle tick suffice for an idle counter that goes back under a busy one that moves
  on (utilization above 100 % before the clamp), for counters that stand still and
  for three baselines.
* *SocketAnalyzer.* The bounds 10, 2000 and 50 are all 1: with three sockets each
  is missed, met and exceeded, and only the comparison matters.
* *ServiceWatchdog.* One service that never starts before two that do; one sweep
  of cron's and one by hand, as root or not, overlap.
* *LogRotation.* Two archives are the fewest with which a record can move, be
  compressed and expire; with four starts a handler can be none, one or two
  rotations old while the other process's is younger, and the log can be rotated
  until the first records are gone. `MaxRecords` and `MaxOpens` bound nothing else.
* *NetDiag.* Of two packets none, one or both are lost: the three verdicts. A third
  adds no case, and the proofs are for any number.
* *Provisioning.* Two rules are a first and a last one. Nothing else is bounded:
  runs, kills, reboots and edits go on for ever.

Symmetry is used in runs without liveness only, over values no definition
compares except for equality. The view `PidFileView` of `_pidfiles` leaves out what
none of its properties and no action can tell apart: `saw`; the configurations in
memory, since no version is misshapen there; and the fate of the dead, save the one
whose number is in /run.

Deadlock is checked except where the system really stops: in SysHealthDaemon all
processes may be spent, in BackupManager all invocations over, in LogRotation all
records written and starts used, and in NetDiag the one run has ended.

### Fairness

* *SysHealthDaemon*: weak fairness of each process's own steps (the kernel
  schedules it, and its nap ends as time passes), of systemd noticing an exit, and
  of its stop timeout. No signal, edit or administrator is ever obliged.
* *BackupManager*: a started script goes on until it ends or is killed. The run's
  properties do not use it: `EndsInSteps` says what, with this fairness, makes each
  invocation end.
* *ServiceWatchdog*: cron starts a sweep again and again while its job is
  installed, and the commands of a sweep end. systemd's own restart is not
  assumed: the watchdog alone brings the service back.
* *NetDiag*: weak fairness of the run's own steps: every program that it starts has
  a time limit (`timeout=` of `subprocess.run`, the socket's timeout), after which
  the run goes on, and the code waits for nothing else. How the network changes is
  free, and a kill is never obliged.
* The other modules state none: they are checked for safety only.

## 4. The proofs

TLC checks one instance; the theorems hold for every value of the constants that
satisfies the module's named assumption. Each proof module is laid out alike: the
inductive invariant in named parts; `Init => Inv`; for each part a lemma with one
step per action, or per group of actions that leave the part's variables alone; the
temporal conclusion by PTL. Lemmas on the operators come first. TLC has
checked each inductive invariant before it was proved.

Every safety property that a passing run checks is the conclusion of a theorem, the
four refinements included. Of four of the five liveness properties the theorems prove
what does not depend on fairness: a *variant*, a number that every step of the process in
question lowers and no other step of the system raises.

### SysHealthDaemonProofs

For any number of processes and edits and any set of misshapen versions, from the two
named assumptions of SysHealthDaemon (the values for "no file" and "empty file" are no
pids and differ; the versions are naturals within the bound):

* `TypeOKHolds`. `TypeOK` is not inductive by itself: `UnitStop`, `UnitReap` and
  `UnitReload` take `mainPid` for a process, and it is one only while the unit
  runs. `TypeInv` adds that.
* `PidFilesNameHandlers` and `StalePidsAreExplained`, from one inductive
  invariant, `PidFileInv`. Neither property says enough about the processes that
  have not published their number yet, or about the owner of a file between its
  being written and removed; `PidFileInv` says which places in the program a
  process named by a file can be at, and which file it writes.
* `LogrotateFindsLoneService`, from two invariants: `ServiceInv` (a live process of
  the service is the unit's main process and uses the file under `/run`) and
  `AloneInv` (while nobody has started a monitor, that file follows the service's
  progress). The property itself does not say that the file is absent before a
  start, which is what systemd's removal of `PIDFile=` provides.
* `LoneServiceCleansUp`, from `AloneInv` too: without a monitor, a unit that is not
  active has left no file under `/run`. It is systemd's doing where the process was
  killed or could not write.
* `CleanReloadsAreSeen`, from `ReloadInv`: what has been read compared with the
  newest clean SIGHUP, at each place of the loop and with the request pending or
  not.
* `DaemonMeetsContract`: the refinement. The contract knows nothing of the two flags,
  so the invariants have to say what each stands for: `ReloadInv`, that a process
  with no request up owes nothing (a sample may begin); `AskedInv`, that after a
  SIGTERM `running` is down (no reload begins); `StopInv`, the converse, that nothing
  but a SIGTERM has lowered it (the loop is not left for another reason); `ConfInv`,
  which version is in force, or about to be, at every place of the program, and that
  it is not misshapen. A step of the program is one of six kinds
  (`StepByConf`: it ends the process, breaks off the loop, builds the configuration,
  reads a file, applies one, or just goes on), a signal one of four (`SignalByConf`),
  and each is one step of the contract or none (`ContractEnd`, `ContractBreaks`,
  `ContractMoves`, `ContractConf`, `ContractSignal`); the file of a process only gets
  newer (`FilesGrow`).
* From the contract and nothing else: `OneSampleAfterTerm` (a count of the samples that
  a process may still begin, at most one, falls with each) and, with `ConfInv`,
  `SamplesAreSteady`: during a sample the thresholds and the interval are of one
  reading, the other parts keep what `__init__` read, and none changes. That is what
  HealthSampling takes for granted, where a `Reload` comes between rounds only.
* `TermEndsInSteps`, the variant of `TermEndsLoop`: once the main loop has handled a
  SIGTERM the process has at most six steps left, a reload under way included. What
  makes the variant fall at the head of the loop is `AskedInv`: such a process is in
  the loop or past it, and `running` stays false, since only `Arm` sets it.
* `ReloadServedInSteps`, the variant of `CleanReloadServed`: seven steps at most from
  a SIGHUP to a read as new as it, from wherever it was handled. `ReloadInv` says
  that the request stays up so long and that the process is not in `ReloadApply`.

All of these look at the system as one process sees it (`StepsAsSeen`): a step of its own
(`StepEffect`), a signal to it (`SignalEffect`), its start, or nothing.

### HealthSamplingProofs

For any mountpoints, percentages, loads, thresholds and lengths of time.

* `TicksAreCountedOnce` and `TypeOKHolds`, together: that a utilization is a
  percentage rests on the baseline never being ahead of the counters (`TickInv`),
  and how many ticks can have been counted rests on types. `Rebased` is the one
  thing that happens to the baseline: it is moved to the counters of now, and what
  has passed is counted or there was nothing to count.
* `VerdictsAreWorst`, from `Judged`: after every reading, the gravest status and
  the gravest alert are as grave as the readings so far. The property speaks of the
  end of a round only. `JudgedStep` is one reading more, for any collector; the
  collectors' lemmas show that what each of them adds has the form it asks for.

### LeakDetectorProofs

For any number of processes, sizes, window, threshold and `TrackTopN`.

* `TrackingIsBounded`: at most `TrackTopN` processes have a queue. A process's rank
  in the sort is the number of those before it; ranks differ and lie below
  `TrackTopN`, so that they map the listed processes into a set of that size.
* `QueuesAreRecentRuns`: a queue is the uninterrupted run of its process's samples
  up to now. `RunOf` relates a queue to the trace position by position; the
  property's run has one start only, so no induction over the trace is needed.
* `DetectorMeetsContract`: the refinement. A round of the detector is the contract's
  step and judges every process alike (`JudgedAlike`), since the queue is the run of
  samples that the contract looks for in the trace. That the loop's count,
  `Increases`, reaches the threshold exactly when the last intervals all grew is an
  induction over the queue; it is proved for the least length at which it fails
  (`LeastNat`, from the library's `WFMin`), since the induction rule itself takes an
  operator as its parameter.
* `FlaggedHaveClimbed`: what a warning means to its reader. The loop compares
  neighbours only; that every two of the latest `Threshold` samples of a flagged
  process are apart by at least their distance (`RisesClimb`) is again the least
  position at which it fails.
* `TypeOKHolds`.

### BackupManagerProofs

For any number of invocations, any clock, retention and choice of `SameSecond`, from
the named assumptions of BackupManager (among them that the values for "no file" and
"nothing in it" differ from all contents). What an archive is depends on every
invocation that has met it, so that no property is inductive. The invariant makes
one observation of it: as long as a second is within the retention and one backup
alone was started in it, no other invocation touches its files.

* `PlaceInv` and `FileInv`: which command each invocation is at and since when, and
  that files come from a backup of their second; a writer is at its tar.
* `ListInv`: what a prune has listed has expired, also when another prune has
  removed it meanwhile.
* `LifeInv`: what the one backup of a second has made of it, at each command. This
  carries `CommittedStays`.
* `PruneInv`: the expired archives of the start are still on the prune's list, gone
  or missed by its find (`SuccessHasPruned`). `QuietInv`: a verify that nothing has overlapped is
  looking at the files of its start (`VerifyIsExact`). `OrphansFromPrunes` is
  inductive with the rest.
* `RemovalsHaveCauses`, an action property, from `ListInv` for the prunes, whatever
  seconds backups share, and `LifeInv` for the `rm -f` of line 104: the one backup of
  a second has not announced it when it gets there.
* `StepsRunOut`: the variant `Remaining`. Its hard cases are the loops of prune and
  verify, whose list gets shorter by one file a turn: a cardinality.
* `StoreMeetsContract`: the refinement of BackupContract. Each step of an invocation
  touches the files of one second (`OneTouched`); `Commit` is `Announce`, the removal
  of an expired archive `Release`, the start of a second backup in a second `Share`,
  `Tick` is `Advance`, and all else is a stutter, whatever happens to the files of
  shared seconds included (`ActsMeetContract`, `StartMeetsContract`).
* `BackupsComeOnce`, from the contract alone: what is kept of a second is unaltered
  until the second is spent (expired, or shared by two backups); spent it remains,
  and nothing comes back under its stamp.
* `TypeOKHolds`.

### ServiceWatchdogProofs

For any list of services and any sweeps.

* `IncidentsAddUp`, from `SweepOK`: at each command of a sweep, what has been
  counted is compared with what has been logged. The property speaks of the end.
* `RemovalLasts`, from `RemovalInv`: undisturbed, the daemon is down from its stop
  on, and no sweep is under way until the unit file is gone. The property speaks of
  the end of the removal.
* `SweepsAttendToAll`, the variant of `SoundRecovers`: a sweep takes at most four
  commands a service and one to end, and cron's passes a service only when it has
  found it active or has restarted it, which makes a service that can start active.
  What it needs to know besides the place in the list is `AbleInv`: cron's sweeps
  are root's, and the daemon's unit is there until it is removed.
* `TypeOKHolds`.

### LogRotationProofs

For any number of processes, `Keep`, records and starts.

* `HandlersStay`, together with `Inos` (the inodes of the files differ and have all
  been given out) and `Handles` (so has a handler's): a new inode is nobody's yet.
* `RetentionIsExact`, from `Records`, which says in which file each record is by the
  rotations since it was written, and `Generations`, which counts the files by the
  rotations.
* `RotationsNeedStarts`, from `Openings`: while the newest file has something in it,
  or a process that can still write there, starts are one ahead of rotations.
* `LogMeetsContract`: the refinement. The initial states map to the contract's, and
  each step to `Create`, `Write`, `Archive` or a stutter: `Dispatch` through an old
  handler is a `Write` to the second generation or to none, for which
  `HandlePlace` is needed.
* `TypeOKHolds`.

### DiagnosticsProofs

NetDiag, for any number of packets: `VerdictsAreSound`, from `ProbeInv` (with a
target that has taken connections all along, every handshake so far was answered);
`OnlyUdpIsOmitted` and `FileFollowsScreen`, from `ReportInv` (which results there
are at each stage, and that screen and file render exactly these);
`ExportsAreExact`, from `OutputInv`; `RunsAreBounded`, the variant of
`EveryRunEnds`: twice the packets and nine steps at most; `TypeOKHolds`.

SocketAnalyzer, for any finite set of sockets and any bounds: `AlarmsAreTrue` (what
the words of a tool are counted as is never more than the sockets in that state: a
cardinality argument), `NetstatIsExact`, `SocketTypeOKHolds`, and
`BreakdownsAreComplete`: the states of a report add up to the sockets of the host.
The sum, `Total`, is a recursive function on sets; that it is the only one with its
two equations, and that it gives the sum of counts that count each socket once, is
shown for the least cardinality at which it would fail (`SummingUnique`,
`TotalOfCounts`).

### ProvisioningProofs

For any number of rules: `FirewallNeverPartial`, from `FwInv` (how many rules there
are at each command, and that the firewall is off in between); `SpoiltForCause`,
`HardeningIsOnDisk` and `BadConfigIsNeverLoaded`, from `SshInv` (what is on the disk at
each command, and that only what sshd accepts reaches the reload); `SuccessDelivers`,
from `RunInv` (each script that was asked for is still to come, under way, or has
its result, and the netplan file is whole when it is applied); `TypeOKHolds`.

### Only model-checked

What is a matter of fairness, and so of ENABLED: `TermEndsLoop`, `CleanReloadServed`,
`SoundRecovers` and `EveryRunEnds`, of which the variants above are proved, and
`StopEndsService`, where one step of systemd's, `UnitStopTimeout`, is enough.

## 5. Where the program departs from what is said of it

Shown by a violation run (`PROJECT.json`, findings):

* `backup_manager.sh:96` archives the backup directory when the targets fail, and
  line 127 announces it as committed.
* `socket_analyzer.py:89` compares the words of ss, `CLOSE-WAIT`, `TIME-WAIT` and
  `SYN-SENT`, with the same words spelt with underscores. Through ss none of the
  three diagnoses is ever made; `NetstatExact` holds for netstat.

Visible in the models without a run of their own:

* `syshealthd.py:119` sets `running = True` after the handlers are installed: a
  SIGTERM in between is lost, where README.md:83 speaks of graceful shutdown.
  `TermEndsLoop` leaves that window out; the service is then ended by systemd's stop
  timeout (`StopEndsService`), a foreground monitor by a second SIGTERM only.
* A handler prints before it stores its flag (`syshealthd.py:63`, `67`). Where the
  print raises under one of the program's `except` clauses (`write_pid_file`,
  `load_config`, the collectors) the signal is lost without a trace (`HandlerRaises`);
  anywhere else the daemon ends by the exception.
* `syshealthd.py:119-123` come after the pid file is written and before the `try`: an
  exception there leaves the file in place, although `remove_pid_file` is to remove it
  "upon exit" (`Announce`, `StalePidExplained`).
* A write of the pid file that fails after the `open` leaves an empty file, which hides
  the service from logrotate's script (`WritePidFile`; `half` exempts it in
  `LogrotateReachesLoneService`).
* `syshealthd.py:134` clears the request after the file was read: a SIGHUP in
  between is lost, with the edit it announced. `CleanReloadSeen` and
  `CleanReloadServed` leave it out.
* The stanza's comment "Reload daemon to release old file handle" (logrotate:15) is
  not what a reload does: `alerts.py:41` opened the file for good (`HandlePlace`).
  The daemon writes to the file that was renamed, then to one that gzip has
  unlinked; with `notifempty` the new, empty log is not rotated again until some
  process opens it (`RotationNeedsStart`). README.md:90 speaks of daily rotation
  with 14-day retention; `RetentionExact` says what is left of that.
* "Reverting changes..." (`harden_ssh.sh:85`) removes the drop-in file only: an
  append to `sshd_config` stays (`SpoiltOnlyByAppend`), and a file that an earlier
  run had left in effect goes (`HardeningLasts`). Nothing warns when no manager
  could be asked to reload sshd (`DoneOrWarned`). A restart that fails with an accepted
  configuration ends the script, perhaps with the server down, and nothing is reverted
  (`SshReload`).
* `setup_network.sh:71` says "Static route successfully applied" after lines 68 and 70
  have swallowed every failure of `ip addr add` and `ip route add` (`IpLink`), and the
  netplan way neither looks for the interface nor warns that there is none
  (`NetApply`); the script exits with 0 in both cases. `DoneOrWarned` promises nothing
  there.
* Between ufw's reset and its enable the firewall is off, and a script that fails or is
  killed there leaves it off; `FirewallWhole` speaks of a firewall that is on.
* README.md:96 promises a fallback to TCP when ICMP is dropped or sandboxed; a ping
  that is stopped by its time limit, or is not installed, has none
  (`probe.py:87`, `PingFails`).
* A UDP benchmark that failed leaves no trace on the terminal, and no failure leaves
  one in the exported file; `--json` skips `--export` (`AfterJson`); sockets that
  were not asked for are reported as unavailable (`Summary`).
* `setup_network.sh:59` announces a fallback to ip commands that `main` calls only
  when there is no `/etc/netplan` (`NetWrite`).
* A reload replaces the thresholds and the poll interval (`HotPart`) and leaves
  the leak detector, mountpoints and dispatcher as they were (`ColdPart`), though
  it reports "Configuration reloaded successfully"; after a malformed file it puts
  the defaults in force (`Loadable`).
* A second instance overwrites and removes the pid file of the first (`Finally`),
  and the service is then out of logrotate's reach; hence the "lone" of
  `LogrotateReachesLoneService`. `systemctl reload` before the handlers are
  installed kills the service (`HangUp`).
* The leak detector measures growth from the oldest sample of the window, where
  the README speaks of consecutive intervals; "Prune dead PIDs" also prunes live
  ones that fall out of the top; a reused pid inherits the queue.
* `verify_all` never sees an archive without signature; a backup that fails does
  not prune, hence `SuccessPrunes`; two backups of one second spoil each other, and the
  `rm -f` of line 104 may then remove the archive that the other has announced.
* `backup_manager.sh:188` swallows a find that fails, and the backup succeeds with what
  has expired still there (`PruneFind`, `missed`). `-mtime +N` drops the fraction of a
  day, so that an archive "older than" the retention (line 180) stays for up to a day
  more (`Old`).
* A mountpoint that cannot be read disappears from the report.
* With netstat's `-p` the state column is not the last; a listener's backlog limit
  is read as a send queue.
* The watchdog announces failed recoveries as remediated and may restart a service
  that has come back (`Restart`); one sweep during an uninstallation is enough to
  leave the daemon running, hence the exception in `UninstalledAlone`.
* An export truncates the report of the last time before it writes: killed in between, a
  run leaves an empty one (`OpenExport`).

Read in the code and not modelled: the nap is measured on the wall clock;
`enabled`, `log_level` and `syslog_enabled` of the configuration are unused; a
window shorter than the threshold never flags; 256 failures make `verify` return
0; through an installed symbolic link, the paths of `bin/sys-admin-suite:7` and
`syshealthd.py:16` lead to no default configuration.

## 6. The plan

Done, in this order: SysHealthDaemon with its proofs; LeakDetector and its
contract; BackupManager; HealthSampling; SocketAnalyzer; ServiceWatchdog with the
uninstaller; LogRotation and its contract; NetDiag; Provisioning; the proofs about
all of them, BackupManager's with the contract of its store; the variants behind
the liveness properties; DaemonContract, the daemon's implementation of it, and what
follows from it and from BackupContract.

Left: **the daemon and its log together**, with SysHealthDaemon's processes as the
`Proc` of LogRotation, so that logrotate's choice of target and the handler's age are
of one model.

## 7. What is left out, and why

The layout of reports, logs and terminal output; the contents of alerts beyond
subject and level. The installer: copies and links without state of its own, whose
result is where the other modules begin. uninstall.sh's user mode, which removes
links and meets nobody. Previews of provisioning by an unprivileged user. The
dispatcher `bin/sys-admin-suite` beyond `provision` and `monitor`: it starts one
program and keeps nothing. Containers, virtual machine and CI, which are
declarations. Statfs calls that block on a dead file system stop the whole daemon:
rounds are checked for what they report when they end.
