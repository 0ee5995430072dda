-------------------------- MODULE MCSysHealthDaemon --------------------------
(* Instances of SysHealthDaemon for TLC. *)
EXTENDS SysHealthDaemon, TLC

\* Process identifiers are interchangeable: sound for the runs without liveness.
PidSymmetry == Permutations(Pid)

\* The state without what the run on pid files can neither read nor act upon: the
\* history saw; when no version is misshapen, the configurations in memory; and the
\* fate of dead processes, save the one whose number is in /run: no other's will
\* ever be written there again.
PidFileView ==
    <<pc, kind, [p \in Pid |-> <<mem[p].running, mem[p].reload, mem[p].pidPath>>],
      pidFile, version, unitVars, half,
      IF pidFile["run"] \in Pid THEN fate[pidFile["run"]] ELSE "none">>

=============================================================================
