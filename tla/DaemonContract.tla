---------------------------- MODULE DaemonContract ----------------------------
(***************************************************************************)
(* What one process of syshealthd promises whoever edits its configuration *)
(* and sends it signals. The two flags by which the program keeps these    *)
(* promises are not mentioned: SysHealthDaemon implements it with them.    *)
(***************************************************************************)
EXTENDS Naturals

CONSTANTS
    Part,         \* the parts of the daemon that a configuration shapes
    Hot,          \* those that a reload reaches
    BadShape      \* versions that no sample is taken with

VARIABLES
    phase,        \* "starting" and after it handle signals
    file,         \* the version in the process's configuration file
    read,         \* the version that was on file when it was read last
    value,        \* what that reading has yielded, 0 being the defaults
    owed,         \* the version on file at the last SIGHUP that it must honour
    stop,         \* a SIGTERM has reached its main loop
    using         \* the version that each part works with

contractVars == <<phase, file, read, value, owed, stop, using>>

Looping == {"idle", "reading", "applying", "sampling"}
Phase   == {"off", "deaf", "starting", "ending", "broken"} \union Looping

Whole(v) == [x \in Part |-> v]

ContractInit ==
    /\ phase = "off" /\ file = 0 /\ read = 0 /\ value = 0 /\ owed = 0
    /\ stop = FALSE /\ using = Whole(0)

\* The outside world: a process appears, its file is replaced.
Appear ==
    /\ phase = "off" /\ phase' = "deaf"
    /\ file' \in Nat
    /\ UNCHANGED <<read, value, owed, stop, using>>

Edit ==
    /\ file' \in Nat /\ file' > file
    /\ UNCHANGED <<phase, read, value, owed, stop, using>>

\* A SIGHUP obliges, except between the read and the end of a reload.
HangUp ==
    /\ phase \notin {"off", "deaf", "applying"}
    /\ owed' = file
    /\ UNCHANGED <<phase, file, read, value, stop, using>>

\* A SIGTERM obliges in the main loop; an earlier one is forgotten.
Terminate ==
    /\ phase \in Looping
    /\ stop' = TRUE
    /\ UNCHANGED <<phase, file, read, value, owed, using>>

\* A reading yields the file, or the defaults when it fails.
Reading == read' = file /\ value' \in {file, 0}

\* The configuration is read whole, before the handlers are in place.
Construct ==
    /\ phase = "deaf" /\ Reading /\ using' = Whole(value')
    /\ UNCHANGED <<phase, file, owed, stop>>

Enter ==
    /\ \/ phase = "deaf" /\ phase' = "starting"
       \/ phase = "starting" /\ phase' = "idle"
    /\ UNCHANGED <<file, read, value, owed, stop, using>>

\* No reload begins after a SIGTERM; the one under way ends.
Reload ==
    /\ phase = "idle" /\ ~stop /\ phase' = "reading"
    /\ UNCHANGED <<file, read, value, owed, stop, using>>

Read ==
    /\ phase = "reading" /\ phase' = "applying" /\ Reading
    /\ UNCHANGED <<file, owed, stop, using>>

\* A sample begins with what was read last, which no SIGHUP has made outdated, in
\* every part that a reload reaches, and with the others as they were built; after a
\* SIGTERM, only when it completes a reload.
Sample ==
    /\ phase \in {"idle", "applying"} /\ phase' = "sampling"
    /\ stop => phase = "applying"
    /\ read >= owed
    /\ value \notin BadShape
    /\ using' = [x \in Part |-> IF x \in Hot THEN value ELSE using[x]]
    /\ UNCHANGED <<file, read, value, owed, stop>>

Rest ==
    /\ phase = "sampling" /\ phase' = "idle"
    /\ UNCHANGED <<file, read, value, owed, stop, using>>

\* The main loop is left because of a SIGTERM, between two rounds, or because
\* something in it, a handler included, has raised: for nothing else.
Leave ==
    /\ phase = "idle" /\ stop /\ phase' = "ending"
    /\ UNCHANGED <<file, read, value, owed, stop, using>>

Break ==
    /\ phase \in Looping /\ phase' = "broken"
    /\ UNCHANGED <<file, read, value, owed, stop, using>>

\* The process ends, by itself or killed, and what it owed with it.
End ==
    /\ phase # "off" /\ phase' = "off"
    /\ read' = 0 /\ value' = 0 /\ owed' = 0 /\ stop' = FALSE /\ using' = Whole(0)
    /\ UNCHANGED file

ContractNext ==
    \/ Appear \/ Edit \/ HangUp \/ Terminate \/ Construct \/ Enter
    \/ Reload \/ Read \/ Sample \/ Rest \/ Leave \/ Break \/ End

ContractSpec == ContractInit /\ [][ContractNext]_contractVars

=============================================================================
