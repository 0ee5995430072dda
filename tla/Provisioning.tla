---------------------------- MODULE Provisioning ----------------------------
(***************************************************************************)
(* provisioning/scripts: setup_network.sh, setup_ufw.sh, harden_ssh.sh, as *)
(* root, alone or one after the other (cmd_provision of sys-admin-suite),  *)
(* again and again on one host. All run under set -e. A run may be killed  *)
(* between any two commands, and the host may be rebooted at any time.     *)
(* Other people edit the rest of sshd's configuration, but not while a     *)
(* script is running.                                                      *)
(***************************************************************************)
EXTENDS Naturals, Sequences

CONSTANT Rules    \* the ufw commands between reset and enable: 8

ASSUME RulesAssumption == Rules \in Nat \ {0}

VARIABLES
    host,         \* what the host has; it does not change
    pc, left,     \* the command that is next, and the scripts after this one
    asked,        \* the scripts of this run
    warned,       \* its warnings, and the notice that it is a dry run
    outcome,      \* how the latest run ended
    plan, net,    \* 60-static-diagnostics.yaml; whether the interface is set up
    fw,           \* ufw: on or off, and how much of the script's rules it has
    main, dropIn, \* whether sshd_config and the drop-in file have the directives
    foreign,      \* whether the rest of sshd's configuration is acceptable
    sshd,         \* the server: whether it is up, and whether it runs the directives
    \* History, read by properties only:
    torn,         \* a run ended between writing the directives and judging them
    rejected      \* sshd -t has failed since it last let a run go on to load them

ctlVars == <<pc, left, asked, warned, outcome>>
netVars == <<plan, net>>
sshVars == <<main, dropIn, foreign, sshd, torn, rejected>>
vars == <<host, ctlVars, netVars, fw, sshVars>>

Script == {"network", "ufw", "ssh"}
\* etcNetplan, directory: /etc/netplan and sshd_config.d exist; iface: so does
\* STATIC_IFACE; knows: this sshd accepts the directives; the others: these commands are
\* found in PATH.
Host == [{"etcNetplan", "netplan", "ip", "iface", "ufw", "directory", "sshd", "knows",
          "systemctl", "service"} -> BOOLEAN]
PC == {"idle", "netWrite", "netGenerate", "netApply", "ipLink", "fwReset", "fwRule", "fwEnable",
       "fwStatus", "sshWrite", "sshFill", "sshTest", "sshReload", "sshRevert"}
\* rules: how many of its commands the script has got through since its reset; ours:
\* whether there has been one.
Firewall == [on : BOOLEAN, ours : BOOLEAN, rules : 0..Rules]

TypeOK ==
    /\ host \in Host /\ pc \in PC
    /\ left \in {<<>>, <<"ssh">>, <<"ufw", "ssh">>}
    /\ asked \subseteq Script /\ warned \subseteq {"netplan", "apply", "dryRun", "iface", "ufw", "sshd"}
    /\ outcome \in {"none", "ok", "failed", "killed"}
    /\ plan \in {"none", "part", "whole"} /\ net \in BOOLEAN
    /\ fw \in Firewall
    /\ main \in BOOLEAN /\ dropIn \in BOOLEAN /\ foreign \in BOOLEAN
    /\ sshd \in [up : BOOLEAN, hardened : BOOLEAN]
    /\ torn \in BOOLEAN /\ rejected \in BOOLEAN

OnDisk == main \/ dropIn
\* What sshd -t says; the server starts, and reloads, on the same condition.
Acceptable == foreign /\ (OnDisk => host.knows)
\* Whether there is something to ask to reload or restart "ssh": systemctl is asked only
\* about a server that is active, service always.
Managed == (host.systemctl /\ sshd.up) \/ host.service

Init ==
    /\ host \in Host
    /\ pc = "idle" /\ left = <<>> /\ asked = {} /\ warned = {} /\ outcome = "none"
    /\ plan = "none" /\ net = FALSE
    /\ \E b \in BOOLEAN : fw = [on |-> b /\ host.ufw, ours |-> FALSE, rules |-> 0]
    /\ main = FALSE /\ dropIn = FALSE /\ foreign = TRUE
    /\ \E b \in BOOLEAN : sshd = [up |-> b, hardened |-> FALSE]
    /\ torn = FALSE /\ rejected = FALSE

-----------------------------------------------------------------------------
(* cmd_provision *)

First == [network |-> IF host.etcNetplan THEN "netWrite" ELSE "ipLink",
          ufw |-> "fwReset", ssh |-> "sshWrite"]

\* One script, or all of them in their order.
Provision(scripts) ==
    /\ pc = "idle"
    /\ pc' = First[scripts[1]] /\ left' = Tail(scripts)
    /\ asked' = {scripts[i] : i \in DOMAIN scripts} /\ warned' = {} /\ outcome' = "none"
    /\ UNCHANGED <<host, netVars, fw, sshVars>>

\* The script has exited with 0, having warned of w.
ScriptDone(w) ==
    /\ warned' = warned \union w /\ UNCHANGED asked
    /\ IF left = <<>> THEN pc' = "idle" /\ outcome' = "ok" /\ UNCHANGED left
       ELSE pc' = First[left[1]] /\ left' = Tail(left) /\ UNCHANGED outcome

\* Mutant: without set -e.
AbortIgnored == ScriptDone({})

\* A command has failed, and with it everything that was to come after.
Abort == pc' = "idle" /\ left' = <<>> /\ outcome' = "failed" /\ UNCHANGED <<asked, warned>>

Continue(next) == pc' = next /\ UNCHANGED <<left, asked, warned, outcome>>

-----------------------------------------------------------------------------
(* setup_network.sh *)

\* cat > file: the file is there, cut short, before it is whole.
NetWrite ==
    /\ pc = "netWrite"
    /\ \/ plan # "part" /\ plan' = "part" /\ UNCHANGED ctlVars
       \/ /\ plan = "part" /\ plan' = "whole"
          /\ IF host.netplan THEN Continue("netGenerate") ELSE ScriptDone({"netplan"})
       \/ Abort /\ UNCHANGED plan
    /\ UNCHANGED <<host, net, fw, sshVars>>

NetGenerate ==
    /\ pc = "netGenerate"
    /\ Continue("netApply") \/ Abort
    /\ UNCHANGED <<host, netVars, fw, sshVars>>

\* Netplan sets up an interface that the host has, and says nothing of one that it has
\* not; of a failure there is a warning. Then the routing table is shown, or cannot be.
NetApply ==
    /\ pc = "netApply"
    /\ \/ net' = host.iface /\ (ScriptDone({}) \/ Abort)
       \/ net' \in {net, host.iface} /\ (ScriptDone({"apply"}) \/ Abort)
    /\ UNCHANGED <<host, plan, fw, sshVars>>

\* apply_iproute_fallback: the address and the route may be there already, or be refused
\* for another reason, which is no failure of the script's.
IpLink ==
    /\ pc = "ipLink"
    /\ \/ ~host.ip /\ ScriptDone({"dryRun"}) /\ UNCHANGED net
       \/ host.ip /\ ~host.iface /\ ScriptDone({"iface"}) /\ UNCHANGED net
       \/ host.ip /\ host.iface /\ ScriptDone({}) /\ net' \in {net, TRUE}
       \/ Abort /\ net' \in {net, host.ip /\ host.iface}
    /\ UNCHANGED <<host, plan, fw, sshVars>>

-----------------------------------------------------------------------------
(* setup_ufw.sh *)

\* Mutant: the rules are deleted one by one, the firewall stays on.
DeletedRules == [on |-> fw.on, ours |-> TRUE, rules |-> 0]

\* ufw --force reset: off, and without rules.
ResetRules == [on |-> FALSE, ours |-> TRUE, rules |-> 0]

FwReset ==
    /\ pc = "fwReset"
    /\ \/ ~host.ufw /\ ScriptDone({"ufw"}) /\ UNCHANGED fw
       \/ host.ufw /\ Continue("fwRule") /\ fw' = ResetRules
       \/ host.ufw /\ Abort /\ UNCHANGED fw
    /\ UNCHANGED <<host, netVars, sshVars>>

\* Whether this rule is not the last.
MoreRules == fw.rules + 1 < Rules

\* The default policies, the rules, the logging level: any of them may fail.
FwRule ==
    /\ pc = "fwRule"
    /\ \/ /\ fw' = [fw EXCEPT !.rules = @ + 1]
          /\ Continue(IF MoreRules THEN "fwRule" ELSE "fwEnable")
       \/ Abort /\ UNCHANGED fw
    /\ UNCHANGED <<host, netVars, sshVars>>

FwEnable ==
    /\ pc = "fwEnable"
    /\ \/ Continue("fwStatus") /\ fw' = [fw EXCEPT !.on = TRUE]
       \/ Abort /\ UNCHANGED fw
    /\ UNCHANGED <<host, netVars, sshVars>>

FwStatus ==
    /\ pc = "fwStatus"
    /\ ScriptDone({}) \/ Abort
    /\ UNCHANGED <<host, netVars, fw, sshVars>>

-----------------------------------------------------------------------------
(* harden_ssh.sh *)

\* The redirection empties the drop-in file before echo fills it. Without the directory
\* sshd_config is copied and appended to; a write that fails may leave a part.
SshWrite ==
    /\ pc = "sshWrite"
    /\ \/ /\ host.directory /\ dropIn' = FALSE
          /\ Continue("sshFill") /\ UNCHANGED <<main, torn>>
       \/ /\ ~host.directory /\ main' = TRUE
          /\ \/ Continue("sshTest") /\ UNCHANGED torn
             \/ Abort /\ torn' = TRUE
          /\ UNCHANGED dropIn
       \/ Abort /\ UNCHANGED <<main, dropIn, torn>>
    /\ UNCHANGED <<host, netVars, fw, foreign, sshd, rejected>>

\* echo and chmod.
SshFill ==
    /\ pc = "sshFill"
    /\ \/ dropIn' = TRUE /\ Continue("sshTest") /\ UNCHANGED torn
       \/ dropIn' \in BOOLEAN /\ Abort /\ torn' = TRUE
    /\ UNCHANGED <<host, netVars, fw, main, foreign, sshd, rejected>>

\* Mutant: the test is made after the reload.
AfterTest == "sshReload"

\* Where sshd -t leads.
Tested == IF Acceptable THEN "sshReload" ELSE "sshRevert"

SshTest ==
    /\ pc = "sshTest"
    /\ IF ~host.sshd THEN ScriptDone({"sshd"}) ELSE Continue(Tested)
    /\ rejected' = (rejected \/ (host.sshd /\ ~Acceptable))
    /\ UNCHANGED <<host, netVars, fw, main, dropIn, foreign, sshd, torn>>

\* Mutant: the revert is not in the branch of its own.
LoadedAndReverted == Continue("sshRevert")

\* The script goes on to its last line.
Loaded == ScriptDone({})

\* reload || restart, by systemctl, or by service, which also starts a server that
\* was down. Either may fail with a configuration that sshd -t has accepted (an address
\* in use, no unit of this name), and a restart that fails may leave no server; of what
\* is not acceptable it leaves none.
SshReload ==
    /\ pc = "sshReload"
    /\ \/ ~Managed /\ Loaded /\ UNCHANGED <<sshd, rejected>>
       \/ /\ Managed /\ Acceptable /\ rejected' = FALSE
          /\ \/ sshd' = [up |-> TRUE, hardened |-> TRUE] /\ (Loaded \/ Abort)
             \/ sshd' \in {sshd, [sshd EXCEPT !.up = FALSE]} /\ Abort
       \/ /\ Managed /\ ~Acceptable /\ UNCHANGED rejected
          /\ sshd' = [sshd EXCEPT !.up = FALSE] /\ Abort
    /\ UNCHANGED <<host, netVars, fw, main, dropIn, foreign, torn>>

\* Mutant: nothing is taken back.
NothingReverted == UNCHANGED <<main, dropIn>>

\* "Reverting changes...": the drop-in file goes, whichever file was written.
Reverted == dropIn' = FALSE /\ UNCHANGED main

SshRevert ==
    /\ pc = "sshRevert"
    /\ Reverted
    /\ Abort
    /\ UNCHANGED <<host, netVars, fw, foreign, sshd, torn, rejected>>

-----------------------------------------------------------------------------
(* The world *)

\* Killed, cut off with the connection it runs over, or ended by set -e at a message
\* that could not be written.
Kill ==
    /\ pc # "idle"
    /\ pc' = "idle" /\ left' = <<>> /\ outcome' \in {"failed", "killed"}
    /\ UNCHANGED <<asked, warned>>
    /\ torn' = (torn \/ pc \in {"sshFill", "sshTest", "sshRevert"})
    /\ UNCHANGED <<host, netVars, fw, main, dropIn, foreign, sshd, rejected>>

\* The server starts from what is on the disk, if it can; a whole netplan file is
\* applied to an interface that is there, ip commands are forgotten, ufw is as it was.
Reboot ==
    /\ pc = "idle"
    /\ sshd' = [up |-> Acceptable, hardened |-> OnDisk]
    /\ net' = (plan = "whole" /\ host.netplan /\ host.iface)
    /\ UNCHANGED <<host, ctlVars, plan, fw, main, dropIn, foreign, torn, rejected>>

\* Somebody else's edit of sshd's configuration, or its repair.
ForeignEdit ==
    /\ pc = "idle"
    /\ foreign' = ~foreign
    /\ UNCHANGED <<host, ctlVars, netVars, fw, main, dropIn, sshd, torn, rejected>>

All == <<"network", "ufw", "ssh">>
Run == NetWrite \/ NetGenerate \/ NetApply \/ IpLink \/ FwReset \/ FwRule \/ FwEnable \/ FwStatus
       \/ SshWrite \/ SshFill \/ SshTest \/ SshReload \/ SshRevert

Next == \/ \E scripts \in {All} \union {<<s>> : s \in Script} : Provision(scripts)
        \/ Run \/ Kill \/ Reboot \/ ForeignEdit

Spec == Init /\ [][Next]_vars

-----------------------------------------------------------------------------
(* What the scripts leave *)

\* The firewall is never on with a part of the script's rules, so without the one
\* that lets SSH in: not during a run, nor after one that failed or was killed.
FirewallWhole == fw.on /\ fw.ours => fw.rules = Rules

\* harden_ssh.sh:76: a run stops the server only where a restart fails whose configuration
\* sshd accepts, so that the next start may bring it back, and such a run does not end as
\* a success. What sshd refuses is met by a boot alone, which finds it on the disk.
ConfigNeverStopsSshd ==
    [][sshd.up /\ ~sshd'.up => Reboot \/ (Acceptable /\ outcome' = "failed")]_vars

\* harden_ssh.sh:86: the next boot finds a configuration that sshd refuses, though
\* nobody else spoiled it, only when the directives were appended to sshd_config,
\* from which they are not taken back, or not tested, or when a run ended
\* before they were judged.
SpoiltOnlyByAppend ==
    pc = "idle" /\ foreign /\ ~Acceptable => ~host.directory \/ ~host.sshd \/ torn

\* A server that runs the directives runs them after the next boot as well, unless
\* a later run was rejected, be it for what somebody else wrote, and so took the
\* file of the earlier one away, or was cut off before it had written it anew.
HardeningLasts ==
    pc = "idle" /\ sshd.up /\ sshd.hardened => OnDisk \/ rejected \/ torn

\* A run that exits with 0 has the parts that were asked for in effect, or has warned of
\* it. There is no warning when no manager could be asked to reload sshd, nor of an
\* interface that netplan does not find; and where there is no /etc/netplan nothing is
\* promised of the network, since setup_network.sh:68,70 swallow a refusal.
\* setup_ufw.sh:43: so it is after a failure that the host is left without firewall.
DoneOrWarned ==
    [][outcome = "none" /\ outcome' = "ok" =>
         /\ "network" \in asked /\ host.etcNetplan =>
              /\ plan' = "whole"
              /\ net' \/ ~host.iface \/ warned' \intersect {"netplan", "apply"} # {}
         /\ "ufw" \in asked => (fw'.on /\ fw'.ours) \/ "ufw" \in warned'
         /\ "ssh" \in asked =>
              OnDisk' /\ (sshd' = [up |-> TRUE, hardened |-> TRUE] \/ "sshd" \in warned'
                          \/ ~Managed)]_vars

=============================================================================
