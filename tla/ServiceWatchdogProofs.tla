------------------------ MODULE ServiceWatchdogProofs ------------------------
(***************************************************************************)
(* The safety properties of ServiceWatchdog for any list of services and   *)
(* any number of sweeps. A sweep's count and its log are compared at every *)
(* command, not only at its end; of the uninstaller the invariant says     *)
(* what it has brought about when nobody is in its way.                    *)
(***************************************************************************)
EXTENDS ServiceWatchdog, FiniteSetTheorems, TLAPS

Detections(log) == {e \in log : e[2] = "DETECTED"}
Results(log)    == {e \in log : e[2] # "DETECTED"}

\* A sweep that acts on an incident has logged its detection and not its result, and
\* has logged nothing yet of the services further down the list.
SweepOK(s) ==
    /\ IsFiniteSet(s.events)
    /\ s.pc \in {"restart", "recheck"} => Cardinality(Detections(s.events)) = s.incidents + 1
    /\ s.pc \notin {"restart", "recheck"} => Cardinality(Detections(s.events)) = s.incidents
    /\ Cardinality(Results(s.events)) = s.incidents
    /\ s.pc \notin {"idle", "exit"} => s.at <= Len(Services)
    /\ \A i \in 1..Len(Services), k \in Event :
         <<Services[i], k>> \in s.events =>
            i < s.at \/ (i = s.at /\ s.pc \in {"restart", "recheck"} /\ k = "DETECTED")

LogInv == \A w \in Sweep : SweepOK(sweep[w])

\* Undisturbed, the daemon is down from the stop on, and no sweep is under way until
\* nothing can start it any more.
RemovalInv ==
    /\ remover = "done" => unitFile = "gone"
    /\ remover # "idle" /\ ~disturbed =>
         /\ unit[Daemon] = "down"
         /\ remover # "done" => \A w \in Sweep : sweep[w].pc = "idle"

-----------------------------------------------------------------------------
(* The list and the log *)

LEMMA ListFacts ==
    /\ Len(Services) \in Nat /\ Len(Services) >= 1
    /\ \A i \in 1..Len(Services) : Services[i] \in Service
    /\ \A i, j \in 1..Len(Services) : Services[i] = Services[j] => i = j
    /\ Daemon \in Service
<1>1. Len(Services) \in Nat
  BY WatchdogAssumption
<1>2. \A i \in 1..Len(Services) : Services[i] \in Service
  BY DEF Service
<1>3. PICK i \in 1..Len(Services) : Daemon = Services[i]
  BY WatchdogAssumption DEF Service
<1> QED BY <1>1, <1>2, <1>3, WatchdogAssumption

\* One event more in a log that has it not.
LEMMA LogGrows ==
    ASSUME NEW log, IsFiniteSet(log), NEW x, NEW k, <<x, k>> \notin log
    PROVE  /\ IsFiniteSet(log \union {<<x, k>>})
           /\ k = "DETECTED" =>
                /\ Cardinality(Detections(log \union {<<x, k>>})) = Cardinality(Detections(log)) + 1
                /\ Results(log \union {<<x, k>>}) = Results(log)
           /\ k # "DETECTED" =>
                /\ Cardinality(Results(log \union {<<x, k>>})) = Cardinality(Results(log)) + 1
                /\ Detections(log \union {<<x, k>>}) = Detections(log)
<1> DEFINE more == log \union {<<x, k>>}
<1>1. IsFiniteSet(more) /\ IsFiniteSet(Detections(log)) /\ IsFiniteSet(Results(log))
  <2>1. Detections(log) \in SUBSET log /\ Results(log) \in SUBSET log
    BY DEF Detections, Results
  <2> QED BY <2>1, FS_AddElement, FS_Subset
<1>2. <<x, k>>[2] = k
  OBVIOUS
<1>3. CASE k = "DETECTED"
  <2>1. /\ Detections(more) = Detections(log) \union {<<x, k>>} /\ Results(more) = Results(log)
        /\ <<x, k>> \notin Detections(log)
    BY <1>2, <1>3 DEF Detections, Results
  <2> QED BY <1>1, <1>3, <2>1, FS_AddElement
<1>4. CASE k # "DETECTED"
  <2>1. /\ Results(more) = Results(log) \union {<<x, k>>} /\ Detections(more) = Detections(log)
        /\ <<x, k>> \notin Results(log)
    BY <1>2, <1>4 DEF Detections, Results
  <2> QED BY <1>1, <1>4, <2>1, FS_AddElement
<1> QED BY <1>1, <1>3, <1>4

-----------------------------------------------------------------------------
(* What a sweep's commands do to its record *)

\* Only the record of w has changed.
Only(w) == sweep' = [sweep EXCEPT ![w] = sweep'[w]]

LEMMA OnlyOne ==
    ASSUME TypeOK, NEW w \in Sweep, Only(w), sweep'[w] \in Local
    PROVE  /\ sweep' \in [Sweep -> Local]
           /\ \A v \in Sweep : v # w => sweep'[v] = sweep[v]
BY DEF TypeOK, Only

LEMMA ReturnEffect ==
    ASSUME TypeOK, NEW w \in Sweep, NEW code, NEW events \in SUBSET (Service \X Event),
           Return(w, code, events)
    PROVE  /\ Only(w) /\ sweep'[w] \in Local
           /\ sweep'[w].pc = (IF sweep[w].at = Len(Services) THEN "exit" ELSE "probe")
           /\ sweep'[w].at = sweep[w].at + 1
           /\ sweep'[w].incidents = (IF code = 0 THEN sweep[w].incidents ELSE sweep[w].incidents + 1)
           /\ sweep'[w].events = events
<1> DEFINE s == sweep[w]
           t == [s EXCEPT !.pc = IF s.at = Len(Services) THEN "exit" ELSE "probe",
                          !.at = @ + 1,
                          !.incidents = IF code = 0 THEN @ ELSE @ + 1,
                          !.events = events]
<1>1. s \in Local /\ sweep \in [Sweep -> Local]
  BY DEF TypeOK
<1>2. sweep' = [sweep EXCEPT ![w] = t]
  BY <1>1 DEF Return
<1>3. sweep'[w] = t
  BY <1>1, <1>2
<1>4. t \in Local
  <2>1. (IF s.at = Len(Services) THEN "exit" ELSE "probe") \in PC
    BY DEF PC
  <2>2. s.at + 1 \in Nat /\ (IF code = 0 THEN s.incidents ELSE s.incidents + 1) \in Nat
    BY <1>1 DEF Local
  <2> QED BY <1>1, <2>1, <2>2 DEF Local
<1> QED BY <1>1, <1>2, <1>3, <1>4 DEF Only, Local

GoTo(w, label, events) == sweep' = [sweep EXCEPT ![w].pc = label, ![w].events = events]

LEMMA GoToEffect ==
    ASSUME TypeOK, NEW w \in Sweep, NEW label \in PC, NEW events \in SUBSET (Service \X Event),
           GoTo(w, label, events)
    PROVE  /\ Only(w) /\ sweep'[w] \in Local
           /\ sweep'[w].pc = label /\ sweep'[w].events = events
           /\ sweep'[w].at = sweep[w].at /\ sweep'[w].incidents = sweep[w].incidents
<1> DEFINE s == sweep[w]
           t == [s EXCEPT !.pc = label, !.events = events]
<1>1. s \in Local /\ sweep \in [Sweep -> Local]
  BY DEF TypeOK
<1>2. sweep' = [sweep EXCEPT ![w] = t] /\ sweep'[w] = t
  BY <1>1 DEF GoTo
<1>3. t \in Local
  BY <1>1 DEF Local
<1> QED BY <1>1, <1>2, <1>3 DEF Only, Local

\* A command that logs nothing.
LEMMA LabelEffect ==
    ASSUME TypeOK, NEW w \in Sweep, NEW label \in PC, sweep' = [sweep EXCEPT ![w].pc = label]
    PROVE  /\ Only(w) /\ sweep'[w] \in Local
           /\ sweep'[w].pc = label /\ sweep'[w].events = sweep[w].events
           /\ sweep'[w].at = sweep[w].at /\ sweep'[w].incidents = sweep[w].incidents
<1> DEFINE s == sweep[w]
           t == [s EXCEPT !.pc = label]
<1>1. s \in Local /\ sweep \in [Sweep -> Local]
  BY DEF TypeOK
<1>2. sweep' = [sweep EXCEPT ![w] = t] /\ sweep'[w] = t
  BY <1>1
<1>3. t \in Local
  BY <1>1 DEF Local
<1> QED BY <1>1, <1>2, <1>3 DEF Only, Local

LEMMA NoSweepOK == NoSweep \in Local /\ SweepOK(NoSweep) /\ 1 \in 1..Len(Services) + 1
<1>1. NoSweep \in Local /\ 1 \in 1..Len(Services) + 1
  BY ListFacts DEF NoSweep, Local, PC
<1>2. Detections(NoSweep.events) = {} /\ Results(NoSweep.events) = {}
  BY DEF Detections, Results, NoSweep
<1>3. SweepOK(NoSweep)
  BY <1>2, FS_EmptySet DEF SweepOK, NoSweep
<1> QED BY <1>1, <1>3

-----------------------------------------------------------------------------
(* One sweep *)

\* What is to be shown of the record that a step has changed.
Fine(w) == /\ Only(w) /\ sweep'[w] \in Local
           /\ sweep'[w].at \in 1..Len(Services) + 1 /\ sweep'[w].incidents < sweep'[w].at
           /\ SweepOK(sweep'[w])

LEMMA Here ==
    ASSUME TypeOK, LogInv, NEW w \in Sweep, sweep[w].pc \notin {"idle", "exit"}
    PROVE  /\ sweep[w] \in Local /\ sweep[w].at \in 1..Len(Services)
           /\ sweep[w].incidents \in Nat /\ sweep[w].incidents < sweep[w].at
           /\ Current(w) \in Service /\ sweep[w].events \in SUBSET (Service \X Event)
           /\ SweepOK(sweep[w])
<1>1. /\ sweep[w] \in Local /\ SweepOK(sweep[w])
      /\ sweep[w].at \in 1..Len(Services) + 1 /\ sweep[w].incidents < sweep[w].at
  BY DEF TypeOK, LogInv
<1>2. sweep[w].at \in 1..Len(Services)
  BY <1>1, ListFacts DEF SweepOK
<1> QED BY <1>1, <1>2, ListFacts DEF Local, Current

LEMMA ProbeStep == ASSUME TypeOK, LogInv, NEW w \in Sweep, Probe(w) PROVE Fine(w)
<1>1. sweep[w].pc = "probe"
  BY DEF Probe, At
<1>2. CASE Return(w, 0, sweep[w].events)
  <2>1. UNCHANGED <<Detections(sweep[w].events), Results(sweep[w].events)>>
    BY <1>1, <1>2, Here, ReturnEffect DEF Detections, Results
  <2>2. sweep'[w].pc \in {"exit", "probe"} /\ sweep'[w].at \in 1..Len(Services) + 1
        /\ (sweep'[w].pc # "exit" => sweep'[w].at <= Len(Services))
    BY <1>1, <1>2, Here, ReturnEffect, ListFacts
  <2> QED BY <1>1, <1>2, <2>1, <2>2, Here, ReturnEffect DEF Fine, SweepOK
<1>3. CASE sweep' = [sweep EXCEPT ![w].pc = "detected"]
  <2>1. "detected" \in PC
    BY DEF PC
  <2>2. /\ Only(w) /\ sweep'[w] \in Local /\ sweep'[w].pc = "detected"
        /\ UNCHANGED <<sweep[w].events, sweep[w].at, sweep[w].incidents>>
    BY <1>3, <2>1, LabelEffect
  <2>3. UNCHANGED <<Detections(sweep[w].events), Results(sweep[w].events)>>
    BY <2>2 DEF Detections, Results
  <2> QED BY <1>1, <2>2, <2>3, Here, ListFacts DEF Fine, SweepOK
<1> QED BY <1>2, <1>3 DEF Probe

LEMMA RestartStep == ASSUME TypeOK, LogInv, NEW w \in Sweep, Restart(w) PROVE Fine(w)
<1>1. sweep[w].pc = "restart"
  BY DEF Restart, At
<1>2. "recheck" \in PC
  BY DEF PC
<1>3. /\ Only(w) /\ sweep'[w] \in Local /\ sweep'[w].pc = "recheck"
      /\ UNCHANGED <<sweep[w].events, sweep[w].at, sweep[w].incidents>>
  BY <1>2, LabelEffect DEF Restart
<1>4. UNCHANGED <<Detections(sweep[w].events), Results(sweep[w].events)>>
  BY <1>3 DEF Detections, Results
<1> QED BY <1>1, <1>3, <1>4, Here, ListFacts DEF Fine, SweepOK

\* A result is logged: the service is done with.
LEMMA ResultStep ==
    ASSUME TypeOK, LogInv, NEW w \in Sweep, NEW code \in {1, 2}, NEW k \in Event \ {"DETECTED"},
           sweep[w].pc = "recheck", Return(w, code, Log(w, k))
    PROVE  Fine(w)
<1> DEFINE s == sweep[w]
           t == sweep'[w]
<1>1. /\ s \in Local /\ s.at \in 1..Len(Services) /\ s.incidents \in Nat /\ s.incidents < s.at
      /\ Current(w) \in Service /\ s.events \in SUBSET (Service \X Event) /\ SweepOK(s)
  BY Here
<1>2. Log(w, k) \in SUBSET (Service \X Event)
  BY <1>1 DEF Log
<1>3. /\ Only(w) /\ t \in Local
      /\ t.pc = (IF s.at = Len(Services) THEN "exit" ELSE "probe")
      /\ t.at = s.at + 1 /\ t.incidents = s.incidents + 1
      /\ t.events = s.events \union {<<Current(w), k>>}
  BY <1>2, ReturnEffect DEF Log
<1>4. <<Current(w), k>> \notin s.events
  BY <1>1 DEF SweepOK, Current
<1>5. /\ IsFiniteSet(t.events) /\ Detections(t.events) = Detections(s.events)
      /\ Cardinality(Results(t.events)) = Cardinality(Results(s.events)) + 1
  <2>1. IsFiniteSet(s.events) /\ k # "DETECTED"
    BY <1>1 DEF SweepOK
  <2> QED BY <1>3, <1>4, <2>1, LogGrows
<1>6. \A i \in 1..Len(Services), kind \in Event :
        <<Services[i], kind>> \in t.events => i < t.at
  <2> SUFFICES ASSUME NEW i \in 1..Len(Services), NEW kind \in Event,
                      <<Services[i], kind>> \in t.events
               PROVE  i < t.at
    OBVIOUS
  <2>1. CASE <<Services[i], kind>> \in s.events
    BY <1>1, <1>3, <2>1 DEF SweepOK
  <2>2. CASE <<Services[i], kind>> = <<Current(w), k>>
    <3>1. i = s.at
      BY <1>1, <2>2, ListFacts DEF Current
    <3> QED BY <1>1, <1>3, <3>1
  <2> QED BY <1>3, <2>1, <2>2
<1>7. t.at \in 1..Len(Services) + 1 /\ (t.pc # "exit" => t.at <= Len(Services))
  BY <1>1, <1>3, ListFacts
<1>8. t.pc \in {"exit", "probe"}
  BY <1>3
<1>9. Cardinality(Detections(s.events)) = s.incidents + 1 /\ Cardinality(Results(s.events)) = s.incidents
  BY <1>1 DEF SweepOK
<1> QED BY <1>1, <1>3, <1>5, <1>6, <1>7, <1>8, <1>9 DEF Fine, SweepOK

LEMMA RecheckStep == ASSUME TypeOK, LogInv, NEW w \in Sweep, Recheck(w) PROVE Fine(w)
<1>1. sweep[w].pc = "recheck"
  BY DEF Recheck, At
<1>2. Return(w, 1, Log(w, "SUCCESSFUL")) \/ Return(w, 2, Log(w, "FAILED"))
  BY DEF Recheck
<1> QED BY <1>1, <1>2, ResultStep DEF Event

\* A detection is logged, and the simulated result with it when nothing can be done.
LEMMA DetectedStep == ASSUME TypeOK, LogInv, NEW w \in Sweep, Detected(w) PROVE Fine(w)
<1> DEFINE s == sweep[w]
           t == sweep'[w]
           logged == Log(w, "DETECTED")
           both == logged \union {<<Current(w), "SIMULATED">>}
<1>1. s.pc = "detected"
  BY DEF Detected, At
<1>2. /\ s \in Local /\ s.at \in 1..Len(Services) /\ s.incidents \in Nat /\ s.incidents < s.at
      /\ Current(w) \in Service /\ s.events \in SUBSET (Service \X Event) /\ SweepOK(s)
  BY <1>1, Here
<1>3. logged \in SUBSET (Service \X Event) /\ both \in SUBSET (Service \X Event)
  BY <1>2 DEF Log, Event
<1>4. \A k \in Event : <<Current(w), k>> \notin s.events
  BY <1>1, <1>2 DEF SweepOK, Current
<1>5. \A i \in 1..Len(Services), kind, k \in Event :
        <<Services[i], kind>> = <<Current(w), k>> => i = s.at /\ kind = k
  BY <1>2, ListFacts DEF Current
<1>6. Cardinality(Detections(s.events)) = s.incidents /\ Cardinality(Results(s.events)) = s.incidents
      /\ IsFiniteSet(s.events)
  BY <1>1, <1>2 DEF SweepOK
<1>7. /\ IsFiniteSet(logged)
      /\ Cardinality(Detections(logged)) = s.incidents + 1
      /\ Results(logged) = Results(s.events)
  <2>1. <<Current(w), "DETECTED">> \notin s.events
    BY <1>4 DEF Event
  <2> QED BY <1>6, <2>1, LogGrows DEF Log
<1>8. CASE sweep' = [sweep EXCEPT ![w].pc = "restart", ![w].events = logged]
  <2>1. /\ Only(w) /\ t \in Local /\ t.pc = "restart" /\ t.events = logged
        /\ t.at = s.at /\ t.incidents = s.incidents
    <3>1. "restart" \in PC
      BY DEF PC
    <3>2. GoTo(w, "restart", logged)
      BY <1>8 DEF GoTo
    <3> QED BY <1>3, <3>1, <3>2, GoToEffect
  <2>2. Cardinality(Detections(t.events)) = s.incidents + 1 /\ Cardinality(Results(t.events)) = s.incidents
    BY <1>6, <1>7, <2>1
  <2>3. \A i \in 1..Len(Services), k \in Event :
          <<Services[i], k>> \in t.events => i < t.at \/ (i = t.at /\ k = "DETECTED")
    BY <1>1, <1>2, <1>5, <2>1 DEF Log, Event, SweepOK
  <2> QED BY <1>2, <1>7, <2>1, <2>2, <2>3, ListFacts DEF Fine, SweepOK
<1>9. CASE Return(w, 1, both)
  <2>1. /\ Only(w) /\ t \in Local
        /\ t.pc = (IF s.at = Len(Services) THEN "exit" ELSE "probe")
        /\ t.at = s.at + 1 /\ t.incidents = s.incidents + 1 /\ t.events = both
    BY <1>3, <1>9, ReturnEffect
  <2>2. <<Current(w), "SIMULATED">> \notin logged
    BY <1>4 DEF Log, Event
  <2>3. /\ IsFiniteSet(t.events)
        /\ Cardinality(Results(t.events)) = s.incidents + 1 /\ Cardinality(Detections(t.events)) = s.incidents + 1
    <3>1. /\ IsFiniteSet(both) /\ Detections(both) = Detections(logged)
          /\ Cardinality(Results(both)) = Cardinality(Results(logged)) + 1
      <4> HIDE DEF logged
      <4> QED BY <1>7, <2>2, LogGrows
    <3> QED BY <1>6, <1>7, <2>1, <3>1
  <2>4. \A i \in 1..Len(Services), k \in Event : <<Services[i], k>> \in t.events => i < t.at
    <3>1. \A e \in both : \/ e \in s.events \/ e = <<Current(w), "DETECTED">>
                          \/ e = <<Current(w), "SIMULATED">>
      BY DEF Log
    <3>2. \A i \in 1..Len(Services), k \in Event : <<Services[i], k>> \in s.events => i < s.at
      BY <1>1, <1>2 DEF SweepOK
    <3>3. ASSUME NEW i \in 1..Len(Services), NEW k \in Event, <<Services[i], k>> \in both
          PROVE  i <= s.at
      <4> HIDE DEF both
      <4>1. CASE <<Services[i], k>> \in s.events
        BY <1>2, <3>2, <4>1
      <4>2. CASE \/ <<Services[i], k>> = <<Current(w), "DETECTED">>
                 \/ <<Services[i], k>> = <<Current(w), "SIMULATED">>
        BY <1>2, <1>5, <4>2 DEF Event
      <4> QED BY <3>1, <3>3, <4>1, <4>2
    <3> HIDE DEF both
    <3> QED BY <1>2, <2>1, <3>3
  <2>5. /\ t.at \in 1..Len(Services) + 1 /\ (t.pc # "exit" => t.at <= Len(Services))
        /\ t.pc \in {"exit", "probe"}
    BY <1>2, <2>1, ListFacts
  <2> QED BY <1>2, <2>1, <2>3, <2>4, <2>5 DEF Fine, SweepOK
<1> QED BY <1>8, <1>9 DEF Detected

-----------------------------------------------------------------------------
(* All sweeps and services *)

LEMMA BeginsFine ==
    ASSUME TypeOK, NEW w \in Sweep, NEW root \in BOOLEAN,
           sweep' = [sweep EXCEPT ![w] = [NoSweep EXCEPT !.pc = "probe", !.root = root]]
    PROVE  Fine(w)
<1> DEFINE t == [NoSweep EXCEPT !.pc = "probe", !.root = root]
<1>1. sweep \in [Sweep -> Local]
  BY DEF TypeOK
<1>2. t.pc = "probe" /\ t.at = 1 /\ t.incidents = 0 /\ t.events = {}
  <2>1. NoSweep \in Local /\ NoSweep.at = 1 /\ NoSweep.incidents = 0 /\ NoSweep.events = {}
    BY NoSweepOK DEF NoSweep
  <2> QED BY <2>1 DEF Local
<1>3. t \in Local
  <2>1. "probe" \in PC
    BY DEF PC
  <2> QED BY <2>1, NoSweepOK DEF Local
<1>4. sweep'[w] = t /\ Only(w)
  BY <1>1 DEF Only
<1>5. SweepOK(t)
  <2>1. Detections({}) = {} /\ Results({}) = {}
    BY DEF Detections, Results
  <2> QED BY <1>2, <2>1, FS_EmptySet, ListFacts DEF SweepOK
<1> HIDE DEF t
<1>7. t.at \in 1..Len(Services) + 1 /\ t.incidents < t.at
  BY <1>2, NoSweepOK
<1> QED BY <1>3, <1>4, <1>5, <1>7 DEF Fine

LEMMA EndsFine ==
    ASSUME TypeOK, NEW w \in Sweep, sweep' = [sweep EXCEPT ![w] = NoSweep] PROVE Fine(w)
<1>1. sweep'[w] = NoSweep /\ Only(w)
  BY DEF TypeOK, Only
<1>2. NoSweep.at = 1 /\ NoSweep.incidents = 0
  BY DEF NoSweep
<1> QED BY <1>1, <1>2, NoSweepOK DEF Fine

\* A step leaves the sweeps alone, or changes one of them as it should.
LEMMA SweepSteps ==
    ASSUME TypeOK, LogInv, [Next]_vars
    PROVE  UNCHANGED sweep \/ \E w \in Sweep : Fine(w)
<1>1. ASSUME NEW w \in Sweep, Begin(w) PROVE Fine(w)
  BY <1>1, BeginsFine DEF Begin
<1>2. ASSUME NEW w \in Sweep, Exit(w) \/ Interrupt(w) PROVE Fine(w)
  BY <1>2, EndsFine DEF Exit, Interrupt
<1>3. ASSUME NEW w \in Sweep, Step(w) PROVE Fine(w)
  BY <1>2, <1>3, ProbeStep, DetectedStep, RestartStep, RecheckStep DEF Step
<1>4. ASSUME NEW s \in Service, Crash(s) \/ SystemdRestart(s) \/ AdminStop(s) \/ AdminStart(s)
      PROVE  UNCHANGED sweep
  BY <1>4 DEF Crash, SystemdRestart, AdminStop, AdminStart
<1>5. CASE DisableNow \/ RemoveUnit \/ RemoveFiles \/ DaemonReload \/ UNCHANGED vars
  BY <1>5 DEF DisableNow, RemoveUnit, RemoveFiles, DaemonReload, vars
<1> QED BY <1>1, <1>2, <1>3, <1>4, <1>5 DEF Next

LEMMA OutcomeType == ASSUME NEW s PROVE StartOutcome(s) \subseteq {"active", "down"}
BY DEF StartOutcome

LEMMA UnitType == ASSUME TypeOK, LogInv, [Next]_vars PROVE unit' \in [Service -> {"active", "waiting", "down"}]
<1> DEFINE U == {"active", "waiting", "down"}
<1>1. unit \in [Service -> U]
  BY DEF TypeOK
<1>2. ASSUME NEW s \in Service, NEW u \in U, unit' = [unit EXCEPT ![s] = u]
      PROVE  unit' \in [Service -> U]
  BY <1>1, <1>2
<1>3. ASSUME NEW s \in Service, NEW u \in StartOutcome(s), unit' = [unit EXCEPT ![s] = u]
      PROVE  unit' \in [Service -> U]
  BY <1>2, <1>3, OutcomeType
<1>4. ASSUME NEW s \in Service, Crash(s) PROVE unit' \in [Service -> U]
  <2>1. (IF s \in AutoRestart THEN "waiting" ELSE "down") \in U
    OBVIOUS
  <2>2. unit' = [unit EXCEPT ![s] = IF s \in AutoRestart THEN "waiting" ELSE "down"]
    BY <1>4 DEF Crash
  <2> QED BY <1>2, <2>1, <2>2
<1>5. ASSUME NEW s \in Service, SystemdRestart(s) \/ AdminStart(s) PROVE unit' \in [Service -> U]
  <2>1. PICK u \in StartOutcome(s) : unit' = [unit EXCEPT ![s] = u]
    BY <1>5 DEF SystemdRestart, AdminStart
  <2> QED BY <1>3, <2>1
<1>6. ASSUME NEW s \in Service, AdminStop(s) PROVE unit' \in [Service -> U]
  BY <1>2, <1>6 DEF AdminStop
<1>7. ASSUME NEW w \in Sweep, Restart(w) PROVE unit' \in [Service -> U]
  <2>1. Current(w) \in Service
    BY <1>7, Here DEF Restart, At
  <2>2. PICK u \in StartOutcome(Current(w)) : unit' = [unit EXCEPT ![Current(w)] = u]
    BY <1>7 DEF Restart
  <2> QED BY <1>3, <2>1, <2>2
<1>8. ASSUME NEW w \in Sweep,
             Begin(w) \/ Probe(w) \/ Detected(w) \/ Recheck(w) \/ Exit(w) \/ Interrupt(w)
      PROVE  UNCHANGED unit
  BY <1>8 DEF Begin, Probe, Detected, Recheck, Exit, Interrupt
<1>9. CASE DisableNow
  BY <1>1, <1>2, <1>9, ListFacts DEF DisableNow
<1>10. CASE RemoveUnit \/ RemoveFiles \/ DaemonReload \/ UNCHANGED vars
  BY <1>1, <1>10 DEF RemoveUnit, RemoveFiles, DaemonReload, vars
<1>11. ASSUME NEW w \in Sweep, Begin(w) \/ Step(w) \/ Interrupt(w)
       PROVE  unit' \in [Service -> U]
  BY <1>1, <1>7, <1>8, <1>11 DEF Step
<1>s. ASSUME NEW s \in Service, Crash(s) \/ SystemdRestart(s) \/ AdminStop(s) \/ AdminStart(s)
      PROVE  unit' \in [Service -> U]
  BY <1>4, <1>5, <1>6, <1>s
<1>12. unit' \in [Service -> U]
  BY <1>s, <1>9, <1>10, <1>11 DEF Next
<1> QED BY <1>12

LEMMA RemoverType ==
    ASSUME TypeOK, [Next]_vars
    PROVE  /\ remover' \in {"idle", "stopped", "unitGone", "allGone", "done"}
           /\ unitFile' \in {"there", "loaded", "gone"}
           /\ cronJob' \in BOOLEAN /\ disturbed' \in BOOLEAN
<1> DEFINE T == /\ remover' \in {"idle", "stopped", "unitGone", "allGone", "done"}
                /\ unitFile' \in {"there", "loaded", "gone"}
                /\ cronJob' \in BOOLEAN /\ disturbed' \in BOOLEAN
<1>1. CASE UNCHANGED removerVars
  BY <1>1 DEF TypeOK, removerVars
<1>2. ASSUME NEW w \in Sweep, Begin(w) PROVE T
  BY <1>2 DEF Begin, TypeOK
<1>3. ASSUME NEW w \in Sweep, Step(w) \/ Interrupt(w) PROVE UNCHANGED removerVars
  BY <1>3 DEF Step, Probe, Detected, Restart, Recheck, Exit, Interrupt
<1>4. ASSUME NEW s \in Service, Crash(s) \/ SystemdRestart(s) \/ AdminStop(s) \/ AdminStart(s)
      PROVE  UNCHANGED removerVars
  BY <1>4 DEF Crash, SystemdRestart, AdminStop, AdminStart
<1>5. CASE DisableNow
  BY <1>5 DEF DisableNow, TypeOK
<1>6. CASE RemoveUnit \/ RemoveFiles \/ DaemonReload
  BY <1>6 DEF RemoveUnit, RemoveFiles, DaemonReload, TypeOK
<1>7. CASE UNCHANGED vars
  BY <1>1, <1>7 DEF vars
<1> HIDE DEF T
<1>8. T
  BY <1>1, <1>2, <1>3, <1>4, <1>5, <1>6, <1>7 DEF Next, T
<1> QED BY <1>8 DEF T

Inv == TypeOK /\ LogInv /\ RemovalInv

LEMMA SweepNext ==
    ASSUME TypeOK, LogInv, [Next]_vars
    PROVE  /\ LogInv' /\ sweep' \in [Sweep -> Local]
           /\ \A w \in Sweep : /\ sweep'[w].at \in 1..Len(Services) + 1
                               /\ sweep'[w].incidents < sweep'[w].at
<1>1. CASE UNCHANGED sweep
  BY <1>1 DEF LogInv, SweepOK, TypeOK
<1>2. ASSUME NEW w \in Sweep, Fine(w)
      PROVE  /\ sweep' \in [Sweep -> Local]
             /\ \A v \in Sweep : v # w => sweep'[v] = sweep[v]
  BY <1>2, OnlyOne DEF Fine
<1>3. ASSUME NEW w \in Sweep, Fine(w), NEW v \in Sweep
      PROVE  /\ SweepOK(sweep'[v])
             /\ sweep'[v].at \in 1..Len(Services) + 1 /\ sweep'[v].incidents < sweep'[v].at
  BY <1>2, <1>3 DEF Fine, LogInv, TypeOK
<1>4. CASE \E w \in Sweep : Fine(w)
  BY <1>2, <1>3, <1>4 DEF LogInv
<1> QED BY <1>1, <1>4, SweepSteps

LEMMA TypeNext == ASSUME TypeOK, LogInv, [Next]_vars PROVE TypeOK'
BY SweepNext, UnitType, RemoverType DEF TypeOK

\* Nothing starts a service that is down, but an administrator or a sweep.
LEMMA RemovalNext == ASSUME TypeOK, LogInv, RemovalInv, [Next]_vars PROVE RemovalInv'
<1> USE DEF RemovalInv
<1>u. unit \in [Service -> {"active", "waiting", "down"}] /\ Daemon \in Service
  BY ListFacts DEF TypeOK
<1>1. ASSUME NEW s \in Service, Crash(s) \/ SystemdRestart(s) \/ AdminStop(s) \/ AdminStart(s)
      PROVE  RemovalInv'
  <2>1. UNCHANGED <<sweep, remover, unitFile, disturbed>>
    BY <1>1 DEF Crash, SystemdRestart, AdminStop, AdminStart, removerVars
  <2>2. ASSUME remover # "idle", unit[Daemon] = "down" PROVE unit'[Daemon] = "down"
    <3>1. CASE s = Daemon
      BY <1>1, <1>u, <2>2, <3>1 DEF Crash, SystemdRestart, AdminStop, AdminStart
    <3>2. CASE s # Daemon
      BY <1>1, <1>u, <2>2, <3>2 DEF Crash, SystemdRestart, AdminStop, AdminStart
    <3> QED BY <3>1, <3>2
  <2> QED BY <2>1, <2>2
<1>2. ASSUME NEW w \in Sweep, Begin(w) PROVE RemovalInv'
  BY <1>2 DEF Begin, TypeOK
<1>3. ASSUME NEW w \in Sweep, Restart(w) PROVE RemovalInv'
  <2>1. UNCHANGED <<remover, unitFile, disturbed>> /\ sweep[w].pc = "restart"
    BY <1>3 DEF Restart, At, removerVars
  <2>2. CASE remover # "idle" /\ ~disturbed
    <3>1. remover = "done" /\ unitFile = "gone" /\ unit[Daemon] = "down"
      BY <2>1, <2>2
    <3>2. Current(w) \in Service
      BY <2>1, Here
    <3>3. PICK u \in StartOutcome(Current(w)) : unit' = [unit EXCEPT ![Current(w)] = u]
      BY <1>3 DEF Restart
    <3>4. unit'[Daemon] = "down"
      BY <1>u, <3>1, <3>2, <3>3 DEF StartOutcome
    <3> QED BY <2>1, <3>1, <3>4
  <2>3. CASE ~(remover # "idle" /\ ~disturbed)
    BY <2>1, <2>3
  <2> QED BY <2>2, <2>3
<1>4. ASSUME NEW w \in Sweep, Probe(w) \/ Detected(w) \/ Recheck(w) PROVE RemovalInv'
  <2>1. UNCHANGED <<unit, remover, unitFile, disturbed>> /\ sweep[w].pc # "idle"
    BY <1>4 DEF Probe, Detected, Recheck, At, removerVars
  <2> QED BY <2>1
<1>5. ASSUME NEW w \in Sweep, Exit(w) \/ Interrupt(w) PROVE RemovalInv'
  <2>1. UNCHANGED <<unit, remover, unitFile, disturbed>> /\ sweep[w].pc # "idle"
    BY <1>5 DEF Exit, Interrupt, At, removerVars
  <2> QED BY <2>1
<1>6. CASE DisableNow
  BY <1>6, <1>u DEF DisableNow
<1>7. CASE RemoveUnit \/ RemoveFiles \/ DaemonReload
  BY <1>7 DEF RemoveUnit, RemoveFiles, DaemonReload
<1>8. CASE UNCHANGED vars
  BY <1>8 DEF vars, removerVars
<1> QED BY <1>1, <1>2, <1>3, <1>4, <1>5, <1>6, <1>7, <1>8 DEF Next, Step

-----------------------------------------------------------------------------
(* The theorems *)

LEMMA InvInit == Init => Inv
<1> SUFFICES ASSUME Init PROVE Inv
  OBVIOUS
<1>1. sweep \in [Sweep -> Local] /\ \A w \in Sweep : sweep[w] = NoSweep
  BY NoSweepOK DEF Init
<1>2. TypeOK
  <2>1. NoSweep.at = 1 /\ NoSweep.incidents = 0
    BY DEF NoSweep
  <2>2. \A w \in Sweep : sweep[w].at \in 1..Len(Services) + 1 /\ sweep[w].incidents < sweep[w].at
    BY <1>1, <2>1, NoSweepOK
  <2>3. unit \in [Service -> {"active", "waiting", "down"}]
    BY DEF Init
  <2> QED BY <1>1, <2>2, <2>3 DEF Init, TypeOK
<1> QED BY <1>1, <1>2, NoSweepOK DEF Inv, LogInv, RemovalInv, Init

LEMMA InvHolds == Spec => []Inv
<1>1. Inv /\ [Next]_vars => Inv'
  BY TypeNext, SweepNext, RemovalNext DEF Inv
<1> QED BY <1>1, InvInit, PTL DEF Spec

\* Type correctness; no sweep leaves its list or counts more than it has passed.
THEOREM TypeOKHolds == Spec => []TypeOK
<1>1. Inv => TypeOK
  BY DEF Inv
<1> QED BY <1>1, InvHolds, PTL

\* Count and log of a sweep that ends agree, for any list and any other sweeps.
THEOREM IncidentsAddUp == Spec => []IncidentsLogged
<1>1. ASSUME Inv PROVE IncidentsLogged
  <2> SUFFICES ASSUME NEW w \in Sweep, At(w, "exit")
               PROVE  /\ sweep[w].incidents = Cardinality(Of(w, {"DETECTED"}))
                      /\ sweep[w].incidents = Cardinality(Of(w, Event \ {"DETECTED"}))
    BY DEF IncidentsLogged
  <2>1. SweepOK(sweep[w]) /\ sweep[w].events \subseteq Service \X Event
    BY <1>1 DEF Inv, LogInv, TypeOK, Local
  <2>2. Of(w, {"DETECTED"}) = Detections(sweep[w].events)
    BY DEF Of, Detections
  <2>3. \A e \in sweep[w].events : e[2] \in Event
    BY <2>1
  <2>4. Of(w, Event \ {"DETECTED"}) = Results(sweep[w].events)
    BY <2>3 DEF Of, Results
  <2> QED BY <2>1, <2>2, <2>4 DEF SweepOK, At
<1> QED BY <1>1, InvHolds, PTL

\* The uninstalled daemon is up only if something came between.
THEOREM RemovalLasts == Spec => []UninstalledAlone
<1>1. Inv => UninstalledAlone
  BY DEF Inv, RemovalInv, UninstalledAlone
<1> QED BY <1>1, InvHolds, PTL

-----------------------------------------------------------------------------
(***************************************************************************)
(* Why a service that can start comes back. That a sweep begins again and  *)
(* goes on is fairness; that it gets to the end of its list in a bounded   *)
(* number of commands, and leaves none of its services down that could be  *)
(* started, is not.                                                        *)
(***************************************************************************)

\* The most commands a sweep has left: four for each service still to pass.
Left(s) ==
    CASE s.pc = "probe"    -> 4 * (Len(Services) - s.at) + 5
      [] s.pc = "detected" -> 4 * (Len(Services) - s.at) + 4
      [] s.pc = "restart"  -> 4 * (Len(Services) - s.at) + 3
      [] s.pc = "recheck"  -> 4 * (Len(Services) - s.at) + 2
      [] s.pc = "exit" -> 1
      [] OTHER -> 0

\* A sweep under way ends, or stays, or passes one service more.
Advances(w) ==
    sweep[w].pc # "idle" =>
        \/ sweep'[w].pc = "idle" /\ (w \in HandSweep \/ sweep[w].pc = "exit")
        \/ sweep'[w] = sweep[w] /\ ~Step(w)
        \/ /\ Left(sweep'[w]) < Left(sweep[w])
           /\ sweep'[w].at \in {sweep[w].at, sweep[w].at + 1}

\* A sweep of cron's passes a service that it has found active, or after the
\* restart that has made it active.
Attends(w) ==
    HasSystemctl /\ remover = "idle" /\ sweep[w].pc \notin {"idle", "exit"} =>
        /\ sweep'[w].at # sweep[w].at /\ sweep[w].pc # "recheck" =>
               unit[Current(w)] = "active"
        /\ sweep[w].pc = "restart" /\ sweep'[w].pc = "recheck" /\ Current(w) \in Sound =>
               unit'[Current(w)] = "active"
        /\ sweep'[w].pc = "recheck" => sweep[w].pc \in {"restart", "recheck"}

SweepsAttend == (\A w \in Sweep : Advances(w)) /\ (\A w \in CronSweep : Attends(w))

\* What Attends needs to know: cron's sweeps are root's, and the daemon can be
\* started until it is removed.
AbleInv ==
    /\ remover = "idle" => unitFile = "there"
    /\ \A w \in CronSweep : sweep[w].pc # "idle" => sweep[w].root

\* The commands of a sweep, as far as its place in the list goes.
LEMMA StepMoves ==
    ASSUME TypeOK, LogInv, NEW w \in Sweep, Step(w)
    PROVE  /\ sweep[w].pc # "idle" /\ Only(w) /\ sweep'[w] \in Local
           /\ \/ /\ sweep[w].pc = "exit" /\ sweep'[w].pc = "idle"
              \/ /\ sweep[w].pc \in {"probe", "detected", "recheck"}
                 /\ sweep'[w].pc = IF sweep[w].at = Len(Services) THEN "exit" ELSE "probe"
                 /\ sweep'[w].at = sweep[w].at + 1
                 /\ sweep[w].pc = "probe" => unit[Current(w)] = "active" \/ ~HasSystemctl
                 /\ sweep[w].pc = "detected" => ~(HasSystemctl /\ sweep[w].root)
              \/ /\ sweep'[w].at = sweep[w].at
                 /\ \/ sweep[w].pc = "probe" /\ sweep'[w].pc = "detected"
                    \/ sweep[w].pc = "detected" /\ sweep'[w].pc = "restart"
                    \/ /\ sweep[w].pc = "restart" /\ sweep'[w].pc = "recheck"
                       /\ unit'[Current(w)] \in StartOutcome(Current(w))
<1>1. Fine(w)
  BY EndsFine, ProbeStep, DetectedStep, RestartStep, RecheckStep DEF Step, Exit
<1>2. CASE Exit(w)
  BY <1>1, <1>2 DEF Exit, At, TypeOK, NoSweep, Fine
<1>3. CASE Probe(w)
  <2>1. sweep[w].pc = "probe" /\ "detected" \in PC
    BY <1>3 DEF Probe, At, PC
  <2>2. \/ (unit[Current(w)] = "active" \/ ~HasSystemctl) /\ Return(w, 0, sweep[w].events)
        \/ sweep' = [sweep EXCEPT ![w].pc = "detected"]
    BY <1>3 DEF Probe
  <2> QED BY <1>1, <2>1, <2>2, Here, ReturnEffect, LabelEffect DEF Fine
<1>4. CASE Detected(w)
  <2>1. sweep[w].pc = "detected" /\ "restart" \in PC
    BY <1>4 DEF Detected, At, PC
  <2>2. /\ Log(w, "DETECTED") \in SUBSET (Service \X Event)
        /\ Log(w, "DETECTED") \union {<<Current(w), "SIMULATED">>} \in SUBSET (Service \X Event)
    BY <2>1, Here DEF Log, Event
  <2>3. \/ GoTo(w, "restart", Log(w, "DETECTED"))
        \/ /\ ~(HasSystemctl /\ sweep[w].root)
           /\ Return(w, 1, Log(w, "DETECTED") \union {<<Current(w), "SIMULATED">>})
    BY <1>4 DEF Detected, GoTo
  <2> QED BY <1>1, <2>1, <2>2, <2>3, ReturnEffect, GoToEffect DEF Fine
<1>5. CASE Restart(w)
  <2>1. sweep[w].pc = "restart" /\ "recheck" \in PC /\ sweep' = [sweep EXCEPT ![w].pc = "recheck"]
    BY <1>5 DEF Restart, At, PC
  <2>2. unit'[Current(w)] \in StartOutcome(Current(w))
    BY <1>5, <2>1, Here DEF Restart, TypeOK
  <2> QED BY <1>1, <2>1, <2>2, LabelEffect DEF Fine
<1>6. CASE Recheck(w)
  <2>1. sweep[w].pc = "recheck"
    BY <1>6 DEF Recheck, At
  <2>2. Log(w, "SUCCESSFUL") \in SUBSET (Service \X Event) /\ Log(w, "FAILED") \in SUBSET (Service \X Event)
    BY <2>1, Here DEF Log, Event
  <2>3. Return(w, 1, Log(w, "SUCCESSFUL")) \/ Return(w, 2, Log(w, "FAILED"))
    BY <1>6 DEF Recheck
  <2> QED BY <1>1, <2>1, <2>2, <2>3, ReturnEffect DEF Fine
<1> QED BY <1>2, <1>3, <1>4, <1>5, <1>6 DEF Step

LEMMA StepAdvances ==
    ASSUME TypeOK, LogInv, NEW w \in Sweep, Step(w)
    PROVE  Advances(w)
<1> DEFINE n == Len(Services)
           a == sweep[w].at
           b == sweep'[w].at
<1>1. CASE sweep[w].pc = "exit"
  BY <1>1, StepMoves DEF Advances
<1>2. CASE sweep[w].pc # "exit"
  <2>1. sweep[w].pc \notin {"idle", "exit"}
    BY <1>2, StepMoves
  <2>2. n \in Nat /\ a \in 1..n
    BY <2>1, ListFacts, Here
  <2> HIDE DEF n, a, b
  <2>3. CASE b = a + 1
    <3>1. /\ sweep[w].pc \in {"probe", "detected", "recheck"}
          /\ sweep'[w].pc = IF a = n THEN "exit" ELSE "probe"
      BY <1>2, <2>2, <2>3, StepMoves DEF a, b, n
    <3>2. Left(sweep'[w]) = IF a = n THEN 1 ELSE 4 * (n - b) + 5
      BY <3>1 DEF Left, b, n
    <3>3. Left(sweep[w]) \in {4 * (n - a) + 5, 4 * (n - a) + 4, 4 * (n - a) + 2}
      BY <3>1 DEF Left, a, n
    <3>4. Left(sweep'[w]) < Left(sweep[w])
      BY <2>2, <2>3, <3>2, <3>3
    <3> QED BY <2>3, <3>4 DEF Advances, a, b
  <2>4. CASE b # a + 1
    <3>1. /\ b = a
          /\ \/ sweep[w].pc = "probe" /\ sweep'[w].pc = "detected"
             \/ sweep[w].pc = "detected" /\ sweep'[w].pc = "restart"
             \/ sweep[w].pc = "restart" /\ sweep'[w].pc = "recheck"
      BY <1>2, <2>4, StepMoves DEF a, b
    <3>2. \/ Left(sweep[w]) = 4 * (n - a) + 5 /\ Left(sweep'[w]) = 4 * (n - b) + 4
          \/ Left(sweep[w]) = 4 * (n - a) + 4 /\ Left(sweep'[w]) = 4 * (n - b) + 3
          \/ Left(sweep[w]) = 4 * (n - a) + 3 /\ Left(sweep'[w]) = 4 * (n - b) + 2
      BY <3>1 DEF Left, a, b, n
    <3>3. Left(sweep'[w]) < Left(sweep[w])
      BY <2>2, <3>1, <3>2
    <3> QED BY <3>1, <3>3 DEF Advances, a, b
  <2> QED BY <2>3, <2>4
<1> QED BY <1>1, <1>2

\* A step of the system as one sweep sees it.
LEMMA StepsAsSeen ==
    ASSUME TypeOK, LogInv, [Next]_vars, NEW w \in Sweep
    PROVE  \/ Step(w)
           \/ sweep[w].pc = "idle" /\ (w \in CronSweep => sweep'[w].pc = "probe" /\ sweep'[w].root)
           \/ w \in HandSweep /\ sweep'[w].pc = "idle"
           \/ sweep'[w] = sweep[w]
<1>1. ASSUME NEW v \in Sweep, v # w, Begin(v) \/ Step(v) \/ Interrupt(v)
      PROVE  sweep'[w] = sweep[w]
  <2>1. Fine(v)
    BY <1>1, BeginsFine, EndsFine, StepMoves, ProbeStep, DetectedStep, RestartStep, RecheckStep
    DEF Begin, Interrupt, Step, Exit
  <2> QED BY <1>1, <2>1, OnlyOne DEF Fine
<1>2. CASE Begin(w)
  <2>1. PICK root \in BOOLEAN :
          /\ w \in CronSweep => root
          /\ sweep' = [sweep EXCEPT ![w] = [NoSweep EXCEPT !.pc = "probe", !.root = root]]
    BY <1>2 DEF Begin
  <2>2. sweep'[w] = [NoSweep EXCEPT !.pc = "probe", !.root = root]
    BY <2>1 DEF TypeOK
  <2>3. sweep'[w].pc = "probe" /\ sweep'[w].root = root
    BY <2>2 DEF NoSweep
  <2> QED BY <1>2, <2>1, <2>3 DEF Begin, At
<1>3. CASE Interrupt(w)
  BY <1>3 DEF Interrupt, NoSweep, TypeOK
<1>4. CASE \E s \in Service : Crash(s) \/ SystemdRestart(s) \/ AdminStop(s) \/ AdminStart(s)
  BY <1>4 DEF Crash, SystemdRestart, AdminStop, AdminStart
<1>5. CASE DisableNow \/ RemoveUnit \/ RemoveFiles \/ DaemonReload \/ UNCHANGED vars
  BY <1>5 DEF DisableNow, RemoveUnit, RemoveFiles, DaemonReload, vars
<1> QED BY <1>1, <1>2, <1>3, <1>4, <1>5 DEF Next

\* No command of a sweep but the first sets root, and the end of it clears it.
LEMMA StepKeepsRoot ==
    ASSUME TypeOK, NEW w \in Sweep, Step(w), sweep[w].root
    PROVE  sweep'[w].root \/ sweep'[w].pc = "idle"
<1>m. sweep[w] \in Local /\ sweep \in [Sweep -> Local]
  BY DEF TypeOK
<1>1. ASSUME NEW code, NEW events, Return(w, code, events) PROVE sweep'[w].root
  BY <1>1, <1>m DEF Return, Local
<1>2. ASSUME NEW label, sweep' = [sweep EXCEPT ![w].pc = label] PROVE sweep'[w].root
  BY <1>2, <1>m DEF Local
<1>3. ASSUME NEW label, NEW events, GoTo(w, label, events) PROVE sweep'[w].root
  BY <1>3, <1>m DEF GoTo, Local
<1>4. CASE Probe(w) \/ Restart(w) \/ Recheck(w)
  BY <1>1, <1>2, <1>4 DEF Probe, Restart, Recheck
<1>5. CASE Detected(w)
  BY <1>1, <1>3, <1>5 DEF Detected, GoTo
<1>6. CASE Exit(w)
  BY <1>6, <1>m DEF Exit, NoSweep
<1> QED BY <1>4, <1>5, <1>6 DEF Step

LEMMA AbleNext ==
    ASSUME TypeOK, LogInv, AbleInv, [Next]_vars
    PROVE  AbleInv'
<1>1. remover' = "idle" => unitFile' = "there"
  <2>1. CASE \E s \in Service : Crash(s) \/ SystemdRestart(s) \/ AdminStop(s) \/ AdminStart(s)
    BY <2>1 DEF Crash, SystemdRestart, AdminStop, AdminStart, AbleInv, removerVars
  <2>2. CASE \E w \in Sweep : Begin(w) \/ Step(w) \/ Interrupt(w)
    BY <2>2 DEF Begin, Step, Probe, Detected, Restart, Recheck, Exit, Interrupt, AbleInv, removerVars
  <2>3. CASE DisableNow \/ RemoveUnit \/ RemoveFiles \/ DaemonReload
    BY <2>3 DEF DisableNow, RemoveUnit, RemoveFiles, DaemonReload
  <2>4. CASE UNCHANGED vars
    BY <2>4 DEF vars, removerVars, AbleInv
  <2> QED BY <2>1, <2>2, <2>3, <2>4 DEF Next
<1>2. ASSUME NEW w \in CronSweep PROVE sweep'[w].pc # "idle" => sweep'[w].root
  <2>1. w \in Sweep /\ w \notin HandSweep
    BY WatchdogAssumption DEF Sweep
  <2>2. CASE Step(w)
    BY <2>1, <2>2, StepMoves, StepKeepsRoot DEF AbleInv
  <2>3. CASE ~Step(w)
    BY <2>1, <2>3, StepsAsSeen DEF AbleInv
  <2> QED BY <2>2, <2>3
<1> QED BY <1>1, <1>2 DEF AbleInv

LEMMA AttendsNext ==
    ASSUME TypeOK, LogInv, AbleInv, [Next]_vars
    PROVE  SweepsAttend
<1>1. ASSUME NEW w \in Sweep PROVE Advances(w)
  BY StepAdvances, StepsAsSeen DEF Advances
<1>2. ASSUME NEW w \in CronSweep PROVE Attends(w)
  <2> SUFFICES ASSUME HasSystemctl, remover = "idle", sweep[w].pc \notin {"idle", "exit"}
               PROVE  /\ sweep'[w].at # sweep[w].at /\ sweep[w].pc # "recheck" =>
                             unit[Current(w)] = "active"
                      /\ sweep[w].pc = "restart" /\ sweep'[w].pc = "recheck"
                             /\ Current(w) \in Sound => unit'[Current(w)] = "active"
                      /\ sweep'[w].pc = "recheck" => sweep[w].pc \in {"restart", "recheck"}
    BY DEF Attends
  <2>1. w \in Sweep /\ w \notin HandSweep /\ sweep[w].root /\ unitFile = "there"
    BY WatchdogAssumption DEF Sweep, AbleInv
  <2>2. Current(w) \in Sound => StartOutcome(Current(w)) = {"active"}
    BY <2>1 DEF StartOutcome
  <2>3. CASE Step(w)
    BY <2>1, <2>2, <2>3, StepMoves
  <2>4. CASE ~Step(w)
    BY <2>1, <2>4, StepsAsSeen
  <2> QED BY <2>3, <2>4
<1> QED BY <1>1, <1>2 DEF SweepsAttend

\* A sweep runs for at most four commands a service and one to end, whatever the
\* services, the other sweeps and the uninstaller do; cron's, as long as nothing
\* is being removed, passes a service only when it has found it active or has
\* restarted it, and a service that can start is active after that restart.
THEOREM SweepsAttendToAll == Spec => [][SweepsAttend]_vars
<1>1. Init => AbleInv
  BY DEF Init, AbleInv, NoSweep, Sweep
<1>2. Inv /\ AbleInv /\ [Next]_vars => AbleInv' /\ SweepsAttend
  BY AbleNext, AttendsNext DEF Inv
<1> QED BY <1>1, <1>2, InvHolds, PTL DEF Spec

=============================================================================
