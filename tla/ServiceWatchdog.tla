--------------------------- MODULE ServiceWatchdog ---------------------------
(***************************************************************************)
(* reliability/service_watchdog.sh, as cron and administrators run it, and *)
(* uninstall.sh, which removes one of the services it looks after. Sweeps  *)
(* go through the list of services; between two commands of a sweep other  *)
(* sweeps, systemd, administrators and the uninstaller go on working.      *)
(***************************************************************************)
EXTENDS Naturals, Sequences, FiniteSets

CONSTANTS
    Services,     \* SERVICES_TO_MONITOR, in its order
    Daemon,       \* syshealthd, which the uninstaller removes
    Sound,        \* the services that come up when they are started
    AutoRestart,  \* the services whose unit says Restart=always
    CronSweep,    \* sweeps that cron starts, as root
    HandSweep,    \* sweeps that administrators start and may interrupt
    HasSystemctl, \* whether the host has systemctl
    Uninstalls    \* whether uninstall.sh is run

Service == {Services[i] : i \in 1..Len(Services)}
Sweep   == CronSweep \union HandSweep

ASSUME WatchdogAssumption ==
    /\ Services \in Seq(Service)
    /\ \A i, j \in 1..Len(Services) : Services[i] = Services[j] => i = j
    /\ Daemon \in Service
    /\ CronSweep \intersect HandSweep = {}
    /\ {HasSystemctl, Uninstalls} \subseteq BOOLEAN

VARIABLES
    unit,         \* what systemd says of each service; "waiting" is for RestartSec
    sweep,        \* where each sweep is, and its locals
    remover,      \* the progress of uninstall.sh
    unitFile,     \* whether the daemon's unit is "there", only "loaded", or "gone"
    cronJob,      \* whether /etc/cron.d/sys-maintenance is there
    \* History, read by properties only:
    disturbed     \* what could revive the daemon behind the uninstaller's back

removerVars == <<remover, unitFile, cronJob, disturbed>>
vars == <<unit, sweep, removerVars>>

Event == {"DETECTED", "SUCCESSFUL", "FAILED", "SIMULATED"}
PC    == {"idle", "probe", "detected", "restart", "recheck", "exit"}
\* at: the place in the list.
Local == [pc : PC, at : Nat, root : BOOLEAN, incidents : Nat,
          events : SUBSET (Service \X Event)]
NoSweep == [pc |-> "idle", at |-> 1, root |-> FALSE, incidents |-> 0, events |-> {}]

TypeOK ==
    /\ unit \in [Service -> {"active", "waiting", "down"}]
    /\ sweep \in [Sweep -> Local]
    /\ \A w \in Sweep : /\ sweep[w].at \in 1..Len(Services) + 1
                        /\ sweep[w].incidents < sweep[w].at
    /\ remover \in {"idle", "stopped", "unitGone", "allGone", "done"}
    /\ unitFile \in {"there", "loaded", "gone"}
    /\ cronJob \in BOOLEAN /\ disturbed \in BOOLEAN

Init ==
    /\ unit \in [Service -> {"active", "down"}]
    /\ sweep = [w \in Sweep |-> NoSweep]
    /\ remover = "idle" /\ unitFile = "there" /\ cronJob = TRUE
    /\ disturbed = FALSE

At(w, label) == sweep[w].pc = label
Current(w)   == Services[sweep[w].at]
Log(w, e)    == sweep[w].events \union {<<Current(w), e>>}

-----------------------------------------------------------------------------
(* systemd and the services *)

\* What a start of s makes of it. The daemon starts from a unit that is loaded,
\* if systemd has not unloaded it yet and its program is still there.
StartOutcome(s) ==
    IF s \notin Sound \/ (s = Daemon /\ unitFile = "gone") THEN {"down"}
    ELSE IF s = Daemon /\ unitFile = "loaded" THEN {"active", "down"}
    ELSE {"active"}

Crash(s) ==
    /\ unit[s] = "active"
    /\ unit' = [unit EXCEPT ![s] = IF s \in AutoRestart THEN "waiting" ELSE "down"]
    /\ UNCHANGED <<sweep, removerVars>>

\* RestartSec is over.
SystemdRestart(s) ==
    /\ unit[s] = "waiting"
    /\ \E outcome \in StartOutcome(s) : unit' = [unit EXCEPT ![s] = outcome]
    /\ UNCHANGED <<sweep, removerVars>>

\* An administrator stops a service, and may start it again; nobody who removes
\* the daemon starts it.
AdminStop(s) ==
    /\ unit[s] # "down"
    /\ unit' = [unit EXCEPT ![s] = "down"]
    /\ UNCHANGED <<sweep, removerVars>>

AdminStart(s) ==
    /\ unit[s] = "down"
    /\ s = Daemon => remover = "idle"
    /\ \E outcome \in StartOutcome(s) : unit' = [unit EXCEPT ![s] = outcome]
    /\ UNCHANGED <<sweep, removerVars>>

-----------------------------------------------------------------------------
(* service_watchdog.sh *)

\* Cron starts its sweeps as root; an administrator may be anyone.
Begin(w) ==
    /\ At(w, "idle")
    /\ w \in CronSweep => cronJob
    /\ \E root \in BOOLEAN :
         /\ w \in CronSweep => root
         /\ sweep' = [sweep EXCEPT ![w] = [NoSweep EXCEPT !.pc = "probe", !.root = root]]
    /\ disturbed' = (disturbed \/ remover \notin {"idle", "done"})
    /\ UNCHANGED <<unit, remover, unitFile, cronJob>>

\* Mutant: a plain call under set -e, which ends the script at the first incident.
ReturnOrDie(w, code, events) ==
    sweep' = [sweep EXCEPT ![w].pc = IF code # 0 \/ sweep[w].at = Len(Services)
                                     THEN "exit" ELSE "probe",
                           ![w].at = @ + 1,
                           ![w].incidents = IF code = 0 THEN @ ELSE @ + 1,
                           ![w].events = events]

\* The end of check_and_recover_service: main counts whatever is not 0.
Return(w, code, events) ==
    sweep' = [sweep EXCEPT ![w].pc = IF sweep[w].at = Len(Services) THEN "exit" ELSE "probe",
                           ![w].at = @ + 1,
                           ![w].incidents = IF code = 0 THEN @ ELSE @ + 1,
                           ![w].events = events]

\* systemctl is-active, or a pgrep that may match some other process.
Probe(w) ==
    /\ At(w, "probe")
    /\ \/ /\ unit[Current(w)] = "active" \/ ~HasSystemctl
          /\ Return(w, 0, sweep[w].events)
       \/ /\ unit[Current(w)] # "active"
          /\ sweep' = [sweep EXCEPT ![w].pc = "detected"]
    /\ UNCHANGED <<unit, removerVars>>

\* The incident is logged; without root or systemctl that is all.
Detected(w) ==
    /\ At(w, "detected")
    /\ \/ /\ HasSystemctl /\ sweep[w].root
          /\ sweep' = [sweep EXCEPT ![w].pc = "restart", ![w].events = Log(w, "DETECTED")]
       \/ /\ ~(HasSystemctl /\ sweep[w].root)
          /\ Return(w, 1, Log(w, "DETECTED") \union {<<Current(w), "SIMULATED">>})
    /\ UNCHANGED <<unit, removerVars>>

\* systemctl restart, which stops the service first if it runs, then sleep 2.
Restart(w) ==
    /\ At(w, "restart")
    /\ sweep' = [sweep EXCEPT ![w].pc = "recheck"]
    /\ \E outcome \in StartOutcome(Current(w)) :
         unit' = [unit EXCEPT ![Current(w)] = outcome]
    /\ UNCHANGED removerVars

\* Mutant: RECOVERY_FAILED is logged and the count is left alone.
RecheckUncounted(w) ==
    /\ At(w, "recheck")
    /\ IF unit[Current(w)] = "active"
       THEN Return(w, 1, Log(w, "SUCCESSFUL"))
       ELSE Return(w, 0, Log(w, "FAILED"))
    /\ UNCHANGED <<unit, removerVars>>

\* The second is-active: 1 when the service is back, 2 when it is not.
Recheck(w) ==
    /\ At(w, "recheck")
    /\ IF unit[Current(w)] = "active"
       THEN Return(w, 1, Log(w, "SUCCESSFUL"))
       ELSE Return(w, 2, Log(w, "FAILED"))
    /\ UNCHANGED <<unit, removerVars>>

\* exit 0, or exit 1 after "incident(s) detected and remediated".
Exit(w) ==
    /\ At(w, "exit")
    /\ sweep' = [sweep EXCEPT ![w] = NoSweep]
    /\ UNCHANGED <<unit, removerVars>>

Interrupt(w) ==
    /\ w \in HandSweep /\ sweep[w].pc # "idle"
    /\ sweep' = [sweep EXCEPT ![w] = NoSweep]
    /\ UNCHANGED <<unit, removerVars>>

Step(w) == Probe(w) \/ Detected(w) \/ Restart(w) \/ Recheck(w) \/ Exit(w)

-----------------------------------------------------------------------------
(* uninstall.sh, as root *)

\* Mutant: systemctl disable without --now.
DisableOnly ==
    /\ Uninstalls /\ HasSystemctl /\ remover = "idle"
    /\ remover' = "stopped"
    /\ disturbed' = (\E w \in Sweep : sweep[w].pc # "idle")
    /\ UNCHANGED <<unit, sweep, unitFile, cronJob>>

\* systemctl disable --now, whose failure is passed over.
DisableNow ==
    /\ Uninstalls /\ HasSystemctl /\ remover = "idle"
    /\ remover' = "stopped"
    /\ \/ /\ unit' = [unit EXCEPT ![Daemon] = "down"]
          /\ disturbed' = (\E w \in Sweep : sweep[w].pc # "idle")
       \/ UNCHANGED unit /\ disturbed' = TRUE
    /\ UNCHANGED <<sweep, unitFile, cronJob>>

\* rm -f of the unit file.
RemoveUnit ==
    /\ remover = "stopped"
    /\ remover' = "unitGone"
    /\ unitFile' = "loaded"
    /\ UNCHANGED <<unit, sweep, cronJob, disturbed>>

\* rm -f of the cron file and of the programs.
RemoveFiles ==
    /\ remover = "unitGone"
    /\ remover' = "allGone"
    /\ cronJob' = FALSE
    /\ UNCHANGED <<unit, sweep, unitFile, disturbed>>

\* systemctl daemon-reload: a unit without a file can be started no more, and
\* what runs goes on running. Then "Uninstallation complete."
DaemonReload ==
    /\ remover = "allGone"
    /\ remover' = "done"
    /\ unitFile' = "gone"
    /\ UNCHANGED <<unit, sweep, cronJob, disturbed>>

Next ==
    \/ \E s \in Service : Crash(s) \/ SystemdRestart(s) \/ AdminStop(s) \/ AdminStart(s)
    \/ \E w \in Sweep : Begin(w) \/ Step(w) \/ Interrupt(w)
    \/ DisableNow \/ RemoveUnit \/ RemoveFiles \/ DaemonReload

\* cron starts a sweep again and again, and a sweep goes on: each of its
\* commands ends.
Fairness ==
    /\ WF_vars(\E w \in CronSweep : Begin(w))
    /\ \A w \in CronSweep : WF_vars(Step(w))

Spec == Init /\ [][Next]_vars /\ Fairness

-----------------------------------------------------------------------------
(* What the watchdog does *)

\* A service that has gone down and is able to start is running again some time
\* later, though other services in the list never start, other sweeps run at the
\* same time and administrators stop what they like; unless the suite is removed.
SoundRecovers ==
    \A s \in Sound \intersect Service :
        unit[s] # "active" ~> (unit[s] = "active" \/ remover # "idle")

\* When a sweep ends, it has logged one detection for each incident it counted,
\* and one outcome for each detection, whatever happened to the services.
Of(w, kinds) == {e \in sweep[w].events : e[2] \in kinds}
IncidentsLogged ==
    \A w \in Sweep : At(w, "exit") =>
        /\ sweep[w].incidents = Cardinality(Of(w, {"DETECTED"}))
        /\ sweep[w].incidents = Cardinality(Of(w, Event \ {"DETECTED"}))

\* After uninstall.sh the daemon does not run, unless a sweep was under way
\* between its first command and its last or the stop itself failed.
UninstalledAlone ==
    remover = "done" /\ unit[Daemon] # "down" => disturbed

=============================================================================
