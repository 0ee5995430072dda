------------------------- MODULE MCServiceWatchdog -------------------------
(* Instances of ServiceWatchdog for TLC. *)
EXTENDS ServiceWatchdog, TLC

CONSTANTS syshealthd, ssh, ufw, c1, c2, h1

\* Lists of one, two and three services, the daemon last.
DaemonOnly == <<syshealthd>>
DaemonLast == <<ssh, syshealthd>>
AllThree   == <<ssh, ufw, syshealthd>>

=============================================================================
