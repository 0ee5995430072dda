-------------------------- MODULE ProvisioningProofs --------------------------
(***************************************************************************)
(* The properties of Provisioning for any number of firewall rules. What   *)
(* a run that is under way guarantees of its parts (RunInv) is what none   *)
(* of the properties says by itself: they speak of runs that are over.     *)
(***************************************************************************)
EXTENDS Provisioning, TLAPS

NetPC == {"netWrite", "netGenerate", "netApply", "ipLink"}
FwPC  == {"fwReset", "fwRule", "fwEnable", "fwStatus"}
SshPC == {"sshWrite", "sshFill", "sshTest", "sshReload", "sshRevert"}

NetResult == host.etcNetplan =>
    plan = "whole" /\ (net \/ ~host.iface \/ warned \intersect {"netplan", "apply"} # {})
FwResult  == (fw.on /\ fw.ours) \/ "ufw" \in warned

ControlOK ==
    /\ pc \in PC /\ left \in {<<>>, <<"ssh">>, <<"ufw", "ssh">>}
    /\ asked \subseteq Script
    /\ warned \subseteq {"netplan", "apply", "dryRun", "iface", "ufw", "sshd"}
    /\ outcome \in {"none", "ok", "failed", "killed"}

\* Between reset and enable the firewall is off and counts the rules it was given.
FwInv ==
    /\ FirewallWhole
    /\ pc \in {"fwRule", "fwEnable", "fwStatus"} => fw.ours
    /\ pc = "fwRule" => ~fw.on /\ fw.rules < Rules
    /\ pc = "fwEnable" => fw.rules = Rules
    /\ pc = "fwStatus" => fw.on

\* The directives are on the disk while they are judged, and nobody else interferes.
SshInv ==
    /\ pc \in {"sshTest", "sshReload"} => OnDisk
    /\ pc = "sshReload" => Acceptable
    /\ pc = "sshRevert" => rejected
    /\ sshd.hardened => OnDisk \/ rejected \/ torn \/ pc = "sshFill"
    /\ host.directory /\ host.sshd /\ ~host.knows /\ ~torn =>
         ~main /\ (dropIn => pc \in {"sshTest", "sshRevert"})

\* Each script that was asked for is still to come, under way, or has its result.
RunInv ==
    /\ pc # "idle" => outcome = "none"
    /\ pc \in NetPC => left # <<"ssh">> /\ (left = <<>> => asked = {"network"})
    /\ pc = "ipLink" => ~host.etcNetplan
    /\ pc \in {"netGenerate", "netApply"} => plan = "whole"
    /\ pc \in FwPC => /\ left = <<>> => asked = {"ufw"}
                      /\ "network" \in asked => NetResult
    /\ pc \in SshPC => /\ left = <<>>
                       /\ "network" \in asked => NetResult
                       /\ "ufw" \in asked => FwResult

Inv == TypeOK /\ FwInv /\ SshInv /\ RunInv

-----------------------------------------------------------------------------
(* The sequence of scripts *)

LEMMA Tuples ==
    /\ <<"ssh">> # <<>> /\ <<"ufw", "ssh">> # <<>> /\ <<"ufw", "ssh">> # <<"ssh">>
    /\ <<"ssh">>[1] = "ssh" /\ Tail(<<"ssh">>) = <<>>
    /\ <<"ufw", "ssh">>[1] = "ufw" /\ Tail(<<"ufw", "ssh">>) = <<"ssh">>
    /\ All[1] = "network" /\ Tail(All) = <<"ufw", "ssh">>
    /\ {All[i] : i \in DOMAIN All} = Script
<1>1. Len(<<>>) = 0 /\ Len(<<"ssh">>) = 1 /\ Len(<<"ufw", "ssh">>) = 2
  OBVIOUS
<1>2. /\ <<"ssh">>[1] = "ssh" /\ Tail(<<"ssh">>) = <<>>
      /\ <<"ufw", "ssh">>[1] = "ufw" /\ Tail(<<"ufw", "ssh">>) = <<"ssh">>
      /\ All[1] = "network" /\ Tail(All) = <<"ufw", "ssh">>
  BY DEF All
<1>3. {All[i] : i \in DOMAIN All} = Script
  BY DEF All, Script
<1> QED BY <1>1, <1>2, <1>3

LEMMA FirstPC ==
    /\ First["network"] = IF host.etcNetplan THEN "netWrite" ELSE "ipLink"
    /\ First["ufw"] = "fwReset" /\ First["ssh"] = "sshWrite"
BY DEF First

\* What follows a script that has ended well.
LEMMA ScriptDoneEffect ==
    ASSUME TypeOK, NEW w, ScriptDone(w)
    PROVE  /\ warned' = warned \union w /\ asked' = asked
           /\ \/ left = <<>> /\ left' = <<>> /\ pc' = "idle" /\ outcome' = "ok"
              \/ left = <<"ssh">> /\ left' = <<>> /\ pc' = "sshWrite" /\ outcome' = outcome
              \/ /\ left = <<"ufw", "ssh">> /\ left' = <<"ssh">>
                 /\ pc' = "fwReset" /\ outcome' = outcome
BY Tuples, FirstPC DEF ScriptDone, TypeOK

LEMMA ProvisionEffect ==
    ASSUME TypeOK, NEW scripts \in {All} \union {<<x>> : x \in Script}, Provision(scripts)
    PROVE  /\ pc = "idle" /\ warned' = {} /\ outcome' = "none"
           /\ UNCHANGED <<host, netVars, fw, sshVars>>
           /\ \/ left' = <<"ufw", "ssh">> /\ pc' \in {"netWrite", "ipLink"} /\ asked' = Script
              \/ left' = <<>> /\ pc' \in {"netWrite", "ipLink"} /\ asked' = {"network"}
              \/ left' = <<>> /\ pc' = "fwReset" /\ asked' = {"ufw"}
              \/ left' = <<>> /\ pc' = "sshWrite" /\ asked' = {"ssh"}
           /\ pc' = "ipLink" => ~host.etcNetplan
<1>1. CASE scripts = All
  BY <1>1, Tuples, FirstPC DEF Provision
<1>2. ASSUME NEW x \in Script, scripts = <<x>>
      PROVE  /\ scripts[1] = x /\ Tail(scripts) = <<>>
             /\ {scripts[i] : i \in DOMAIN scripts} = {x}
  <2>1. <<x>>[1] = x /\ Tail(<<x>>) = <<>> /\ {<<x>>[i] : i \in DOMAIN <<x>>} = {x}
    OBVIOUS
  <2> QED BY <1>2, <2>1
<1>3. CASE scripts # All
  <2>1. PICK x \in Script : scripts = <<x>>
    BY <1>3
  <2> QED BY <1>2, <2>1, FirstPC DEF Provision, Script
<1> QED BY <1>1, <1>3 DEF Provision

-----------------------------------------------------------------------------
(* Steps *)

\* The four ways in which a command hands over.
LEMMA ControlType ==
    ASSUME TypeOK,
           \/ \E next \in PC : Continue(next)
           \/ Abort
           \/ \E w \in SUBSET {"netplan", "apply", "dryRun", "iface", "ufw", "sshd"} : ScriptDone(w)
           \/ UNCHANGED ctlVars
    PROVE  ControlOK'
<1> USE DEF ControlOK, TypeOK, PC
<1>1. ASSUME NEW next \in PC, Continue(next) PROVE ControlOK'
  BY <1>1 DEF Continue
<1>2. CASE Abort
  BY <1>2 DEF Abort
<1>3. ASSUME NEW w \in SUBSET {"netplan", "apply", "dryRun", "iface", "ufw", "sshd"}, ScriptDone(w)
      PROVE  ControlOK'
  BY <1>3, ScriptDoneEffect
<1>4. CASE UNCHANGED ctlVars
  BY <1>4 DEF ctlVars
<1> QED BY <1>1, <1>2, <1>3, <1>4

LEMMA TypeNext == ASSUME TypeOK, FwInv, [Next]_vars PROVE TypeOK'
<1>c. TypeOK' <=> /\ ControlOK' /\ host' \in Host
                  /\ plan' \in {"none", "part", "whole"} /\ net' \in BOOLEAN
                  /\ fw' \in Firewall
                  /\ main' \in BOOLEAN /\ dropIn' \in BOOLEAN /\ foreign' \in BOOLEAN
                  /\ sshd' \in [up : BOOLEAN, hardened : BOOLEAN]
                  /\ torn' \in BOOLEAN /\ rejected' \in BOOLEAN
  BY DEF TypeOK, ControlOK
<1>t. /\ host \in Host /\ plan \in {"none", "part", "whole"} /\ net \in BOOLEAN
      /\ fw \in Firewall
      /\ main \in BOOLEAN /\ dropIn \in BOOLEAN /\ foreign \in BOOLEAN
      /\ sshd \in [up : BOOLEAN, hardened : BOOLEAN] /\ torn \in BOOLEAN /\ rejected \in BOOLEAN
  BY DEF TypeOK
<1>w. {{}, {"netplan"}, {"apply"}, {"dryRun"}, {"iface"}, {"ufw"}, {"sshd"}}
        \subseteq SUBSET {"netplan", "apply", "dryRun", "iface", "ufw", "sshd"}
  OBVIOUS
<1>p. NetPC \union FwPC \union SshPC \subseteq PC
  BY DEF NetPC, FwPC, SshPC, PC
<1>1. ASSUME NEW scripts \in {All} \union {<<x>> : x \in Script}, Provision(scripts)
      PROVE  TypeOK'
  <2>1. ControlOK'
    BY <1>1, ProvisionEffect DEF ControlOK, PC, Script
  <2> QED BY <1>1, <1>c, <1>t, <2>1, ProvisionEffect DEF netVars, sshVars
<1>2. CASE NetWrite \/ NetGenerate \/ NetApply \/ IpLink
  <2>1. ControlOK'
    <3>1. CASE NetWrite
      <4>1. UNCHANGED ctlVars \/ Continue("netGenerate") \/ ScriptDone({"netplan"}) \/ Abort
        BY <3>1 DEF NetWrite
      <4> QED BY <4>1, <1>p, <1>w, ControlType DEF NetPC
    <3>2. CASE NetGenerate
      BY <3>2, <1>p, ControlType DEF NetGenerate, NetPC
    <3>3. CASE NetApply
      BY <3>3, <1>w, ControlType DEF NetApply
    <3>4. CASE IpLink
      BY <3>4, <1>w, ControlType DEF IpLink
    <3> QED BY <1>2, <3>1, <3>2, <3>3, <3>4
  <2>2. plan' \in {"none", "part", "whole"}
    BY <1>2, <1>t DEF NetWrite, NetGenerate, NetApply, IpLink, netVars
  <2>3. net' \in BOOLEAN
    <3>1. host.iface \in BOOLEAN /\ host.ip \in BOOLEAN
      BY <1>t DEF Host
    <3>2. CASE NetApply \/ IpLink
      BY <1>t, <3>1, <3>2 DEF NetApply, IpLink
    <3>3. CASE NetWrite \/ NetGenerate
      BY <1>t, <3>3 DEF NetWrite, NetGenerate, netVars
    <3> QED BY <1>2, <3>2, <3>3
  <2>4. UNCHANGED <<host, fw, main, dropIn, foreign, sshd, torn, rejected>>
    BY <1>2 DEF NetWrite, NetGenerate, NetApply, IpLink, sshVars
  <2> QED BY <1>c, <1>t, <2>1, <2>2, <2>3, <2>4
<1>3. CASE FwReset \/ FwRule \/ FwEnable \/ FwStatus
  <2>1. ControlOK'
    <3>1. CASE FwReset
      BY <3>1, <1>p, <1>w, ControlType DEF FwReset, FwPC
    <3>2. CASE FwRule
      <4>1. (IF MoreRules THEN "fwRule" ELSE "fwEnable") \in PC
        BY DEF PC
      <4>2. Continue(IF MoreRules THEN "fwRule" ELSE "fwEnable") \/ Abort
        BY <3>2 DEF FwRule
      <4> QED BY <4>1, <4>2, ControlType
    <3>3. CASE FwEnable
      BY <3>3, <1>p, ControlType DEF FwEnable, FwPC
    <3>4. CASE FwStatus
      BY <3>4, <1>w, ControlType DEF FwStatus
    <3> QED BY <1>3, <3>1, <3>2, <3>3, <3>4
  <2>2. fw' \in Firewall
    <3>1. CASE FwReset \/ FwEnable \/ FwStatus
      <4>1. fw' = fw \/ fw' = ResetRules \/ fw' = [fw EXCEPT !.on = TRUE]
        BY <3>1 DEF FwReset, FwEnable, FwStatus
      <4>2. ResetRules \in Firewall
        BY RulesAssumption DEF ResetRules, Firewall
      <4>3. [fw EXCEPT !.on = TRUE] \in Firewall
        BY <1>t DEF Firewall
      <4> QED BY <1>t, <4>1, <4>2, <4>3
    <3>2. CASE FwRule
      <4>1. fw.rules + 1 \in 0..Rules
        BY <1>t, <3>2, RulesAssumption DEF FwRule, FwInv, Firewall
      <4> QED BY <1>t, <3>2, <4>1 DEF FwRule, Firewall
    <3> QED BY <1>3, <3>1, <3>2
  <2> QED BY <1>3, <1>c, <1>t, <2>1, <2>2 DEF FwReset, FwRule, FwEnable, FwStatus, netVars, sshVars
<1>4. CASE SshWrite \/ SshFill \/ SshTest \/ SshReload \/ SshRevert
  <2>1. ControlOK'
    <3>1. Tested \in PC
      BY DEF Tested, PC
    <3>2. CASE SshWrite \/ SshFill
      BY <3>2, <1>p, ControlType DEF SshWrite, SshFill, SshPC
    <3>3. CASE SshTest
      <4>1. ScriptDone({"sshd"}) \/ Continue(Tested)
        BY <3>3 DEF SshTest
      <4> QED BY <3>1, <4>1, <1>w, ControlType
    <3>4. CASE SshReload
      <4>1. ScriptDone({}) \/ Abort
        BY <3>4 DEF SshReload, Loaded
      <4> QED BY <4>1, <1>w, ControlType
    <3>5. CASE SshRevert
      BY <3>5, ControlType DEF SshRevert
    <3> QED BY <1>4, <3>2, <3>3, <3>4, <3>5
  <2>2. SshWrite \/ SshFill \/ SshTest => TypeOK'
    BY <1>c, <1>t, <2>1 DEF SshWrite, SshFill, SshTest, netVars, Host, Acceptable, OnDisk
  <2>3. SshReload \/ SshRevert => TypeOK'
    <3>1. ASSUME SshReload \/ SshRevert
          PROVE  sshd' \in {sshd, [up |-> TRUE, hardened |-> TRUE], [sshd EXCEPT !.up = FALSE]}
      BY <3>1 DEF SshReload, SshRevert
    <3>2. {sshd, [up |-> TRUE, hardened |-> TRUE], [sshd EXCEPT !.up = FALSE]}
            \subseteq [up : BOOLEAN, hardened : BOOLEAN]
      <4>1. [up |-> TRUE, hardened |-> TRUE] \in [up : BOOLEAN, hardened : BOOLEAN]
        OBVIOUS
      <4>2. [sshd EXCEPT !.up = FALSE] \in [up : BOOLEAN, hardened : BOOLEAN]
        BY <1>t
      <4> QED BY <1>t, <4>1, <4>2
    <3>3. ASSUME SshReload \/ SshRevert PROVE rejected' \in BOOLEAN
      BY <1>t, <3>3 DEF SshReload, SshRevert
    <3>4. ASSUME SshReload \/ SshRevert
          PROVE  /\ UNCHANGED <<host, plan, net, fw, main, foreign, torn>>
                 /\ dropIn' = dropIn \/ dropIn' = FALSE
      BY <3>4 DEF SshReload, SshRevert, Reverted, netVars
    <3> QED BY <1>c, <1>t, <2>1, <3>1, <3>2, <3>3, <3>4
  <2> QED BY <1>4, <2>2, <2>3
<1>5. CASE Kill \/ Reboot \/ ForeignEdit
  <2>1. ControlOK'
    BY <1>5, ControlType DEF Kill, Reboot, ForeignEdit, ControlOK, PC, TypeOK
  <2>2. Acceptable \in BOOLEAN /\ OnDisk \in BOOLEAN /\ host.netplan \in BOOLEAN
    BY <1>t DEF Acceptable, OnDisk, Host
  <2>3. CASE Kill
    BY <2>3, <1>c, <1>t, <2>1 DEF Kill, netVars
  <2>4. CASE Reboot
    BY <2>4, <1>c, <1>t, <2>1, <2>2 DEF Reboot
  <2>5. CASE ForeignEdit
    BY <2>5, <1>c, <1>t, <2>1 DEF ForeignEdit, netVars
  <2> QED BY <1>5, <2>3, <2>4, <2>5
<1>6. CASE UNCHANGED vars
  BY <1>6 DEF vars, ctlVars, netVars, sshVars, TypeOK
<1> QED BY <1>1, <1>2, <1>3, <1>4, <1>5, <1>6 DEF Next, Run

LEMMA FwNext == ASSUME TypeOK, FwInv, [Next]_vars PROVE FwInv'
<1> USE DEF FwInv, FirewallWhole
<1>1. ASSUME NEW scripts \in {All} \union {<<x>> : x \in Script}, Provision(scripts)
      PROVE  FwInv'
  BY <1>1, ProvisionEffect
<1>2. ASSUME NEW w, ScriptDone(w) PROVE pc' \notin {"fwRule", "fwEnable", "fwStatus"}
  BY <1>2, ScriptDoneEffect
<1>3. CASE NetWrite \/ NetGenerate \/ NetApply \/ IpLink
  BY <1>2, <1>3 DEF NetWrite, NetGenerate, NetApply, IpLink, Continue, Abort, ctlVars
<1>4. CASE FwReset \/ FwStatus
  BY <1>2, <1>4, RulesAssumption DEF FwReset, FwStatus, Continue, Abort, ResetRules
<1>5. CASE FwRule
  <2>1. fw.rules \in Nat /\ fw.rules < Rules /\ Rules \in Nat /\ ~fw.on /\ fw.ours
    BY <1>5, RulesAssumption DEF FwRule, TypeOK, Firewall
  <2>2. CASE fw' = [fw EXCEPT !.rules = @ + 1]
             /\ Continue(IF MoreRules THEN "fwRule" ELSE "fwEnable")
    <3>1. fw'.rules = fw.rules + 1 /\ fw'.on = fw.on /\ fw'.ours = fw.ours
      BY <2>2 DEF TypeOK, Firewall
    <3> QED BY <2>1, <2>2, <3>1 DEF Continue, MoreRules
  <2>3. CASE Abort /\ UNCHANGED fw
    BY <2>1, <2>3 DEF Abort
  <2> QED BY <1>5, <2>2, <2>3 DEF FwRule
<1>6. CASE FwEnable
  BY <1>6 DEF FwEnable, Continue, Abort, TypeOK, Firewall
<1>7. CASE SshWrite \/ SshFill \/ SshTest \/ SshReload \/ SshRevert
  BY <1>2, <1>7 DEF SshWrite, SshFill, SshTest, SshReload, SshRevert, Loaded, Tested, Continue, Abort
<1>8. CASE Kill \/ Reboot \/ ForeignEdit
  BY <1>8 DEF Kill, Reboot, ForeignEdit, ctlVars
<1>9. CASE UNCHANGED vars
  BY <1>9 DEF vars, ctlVars
<1> QED BY <1>1, <1>3, <1>4, <1>5, <1>6, <1>7, <1>8, <1>9 DEF Next, Run

LEMMA SshNext == ASSUME TypeOK, SshInv, [Next]_vars PROVE SshInv'
<1> USE DEF SshInv, OnDisk, Acceptable, TypeOK
<1>1. ASSUME NEW scripts \in {All} \union {<<x>> : x \in Script}, Provision(scripts)
      PROVE  SshInv'
  BY <1>1, ProvisionEffect DEF sshVars
<1>2. ASSUME NEW w, ScriptDone(w)
      PROVE  pc' \notin {"sshFill", "sshTest", "sshReload", "sshRevert"}
  BY <1>2, ScriptDoneEffect
<1>3. CASE NetWrite \/ NetGenerate \/ NetApply \/ IpLink
  <2>1. UNCHANGED <<host, main, dropIn, foreign, sshd, torn, rejected>>
    BY <1>3 DEF NetWrite, NetGenerate, NetApply, IpLink, sshVars
  <2>2. pc \in {"netWrite", "netGenerate", "netApply", "ipLink"}
    BY <1>3 DEF NetWrite, NetGenerate, NetApply, IpLink
  <2>3. pc' \notin {"sshFill", "sshTest", "sshReload", "sshRevert"}
    BY <1>2, <1>3 DEF NetWrite, NetGenerate, NetApply, IpLink, Continue, Abort, ctlVars
  <2> QED BY <2>1, <2>2, <2>3
<1>4. CASE FwReset \/ FwRule \/ FwEnable \/ FwStatus
  BY <1>2, <1>4 DEF FwReset, FwRule, FwEnable, FwStatus, Continue, Abort, sshVars
<1>5. CASE SshWrite
  <2>1. CASE host.directory /\ dropIn' = FALSE /\ Continue("sshFill") /\ UNCHANGED <<main, torn>>
    BY <1>5, <2>1 DEF SshWrite, Continue
  <2>2. CASE ~host.directory /\ main' = TRUE /\ Continue("sshTest") /\ UNCHANGED <<torn, dropIn>>
    BY <1>5, <2>2 DEF SshWrite, Continue
  <2>3. CASE ~host.directory /\ main' = TRUE /\ Abort /\ torn' = TRUE /\ UNCHANGED dropIn
    BY <1>5, <2>3 DEF SshWrite, Abort
  <2>4. CASE Abort /\ UNCHANGED <<main, dropIn, torn>>
    BY <1>5, <2>4 DEF SshWrite, Abort
  <2> QED BY <1>5, <2>1, <2>2, <2>3, <2>4 DEF SshWrite
<1>6. CASE SshFill
  <2>1. CASE dropIn' = TRUE /\ Continue("sshTest") /\ UNCHANGED torn
    BY <1>6, <2>1 DEF SshFill, Continue
  <2>2. CASE dropIn' \in BOOLEAN /\ Abort /\ torn' = TRUE
    BY <1>6, <2>2 DEF SshFill, Abort
  <2> QED BY <1>6, <2>1, <2>2 DEF SshFill
<1>7. CASE SshTest
  BY <1>2, <1>7 DEF SshTest, Tested, Continue
<1>8. CASE SshReload
  BY <1>2, <1>8 DEF SshReload, Loaded, Abort
<1>9. CASE SshRevert
  BY <1>9 DEF SshRevert, Reverted, Abort
<1>10. CASE Kill
  BY <1>10 DEF Kill
<1>11. CASE Reboot \/ ForeignEdit
  BY <1>11 DEF Reboot, ForeignEdit, ctlVars
<1>12. CASE UNCHANGED vars
  BY <1>12 DEF vars, ctlVars, sshVars
<1> QED BY <1>1, <1>3, <1>4, <1>5, <1>6, <1>7, <1>8, <1>9, <1>10, <1>11, <1>12 DEF Next, Run

-----------------------------------------------------------------------------
(* What is asked for and what is there *)

\* A script other than the network's leaves the interface's result as it is, one other
\* than ufw's the firewall's.
LEMMA ResultsStay ==
    ASSUME TypeOK, warned \subseteq warned'
    PROVE  /\ UNCHANGED <<host, netVars>> /\ NetResult => NetResult'
           /\ fw' = fw /\ FwResult => FwResult'
<1>1. ASSUME UNCHANGED <<host, netVars>>, NetResult PROVE NetResult'
  <2>1. host' = host /\ plan' = plan /\ net' = net
    BY <1>1 DEF netVars
  <2>2. warned \intersect {"netplan", "apply"} # {} => warned' \intersect {"netplan", "apply"} # {}
    OBVIOUS
  <2> QED BY <1>1, <2>1, <2>2 DEF NetResult
<1>2. fw' = fw /\ FwResult => FwResult'
  BY DEF FwResult
<1> QED BY <1>1, <1>2

\* A script hands over to the next one, or ends the run, with its own result.
LEMMA HandOver ==
    ASSUME TypeOK, RunInv, NEW w, ScriptDone(w),
           \/ pc \in NetPC /\ NetResult'
           \/ pc \in FwPC /\ UNCHANGED <<host, netVars>> /\ FwResult'
           \/ pc \in SshPC /\ UNCHANGED <<host, netVars>> /\ fw' = fw
    PROVE  RunInv'
<1> USE DEF NetPC, FwPC, SshPC
<1>1. warned \subseteq warned' /\ asked' = asked
  BY ScriptDoneEffect
<1>2. CASE left = <<>>
  BY <1>2, ScriptDoneEffect, Tuples DEF RunInv
<1>3. CASE left = <<"ssh">>
  BY <1>1, <1>3, ScriptDoneEffect, ResultsStay, Tuples DEF RunInv
<1>4. CASE left = <<"ufw", "ssh">>
  BY <1>1, <1>4, ScriptDoneEffect, ResultsStay, Tuples DEF RunInv
<1> QED BY <1>2, <1>3, <1>4 DEF TypeOK

\* Within a script nothing changes hands.
LEMMA WithinScript ==
    ASSUME TypeOK, RunInv, NEW next, Continue(next), host' = host,
           \/ /\ pc \in NetPC /\ next \in {"netGenerate", "netApply"}
              /\ plan' = "whole"
           \/ pc \in FwPC /\ next \in FwPC /\ UNCHANGED netVars
           \/ pc \in SshPC /\ next \in SshPC /\ UNCHANGED netVars /\ fw' = fw
    PROVE  RunInv'
<1> USE DEF NetPC, FwPC, SshPC
<1>1. pc' = next /\ left' = left /\ asked' = asked /\ warned' = warned /\ outcome' = outcome
  BY DEF Continue
<1>2. CASE pc \in NetPC /\ next \in {"netGenerate", "netApply"} /\ plan' = "whole"
  BY <1>1, <1>2 DEF RunInv
<1>3. CASE pc \in FwPC /\ next \in FwPC /\ UNCHANGED netVars
  BY <1>1, <1>3, ResultsStay DEF RunInv
<1>4. CASE pc \in SshPC /\ next \in SshPC /\ UNCHANGED netVars /\ fw' = fw
  BY <1>1, <1>4, ResultsStay DEF RunInv
<1> QED BY <1>2, <1>3, <1>4

LEMMA AfterAbort == ASSUME Abort PROVE RunInv'
BY DEF Abort, RunInv, NetPC, FwPC, SshPC

LEMMA RunNext == ASSUME TypeOK, FwInv, RunInv, [Next]_vars PROVE RunInv'
<1> USE DEF NetPC, FwPC, SshPC
<1>1. ASSUME NEW scripts \in {All} \union {<<x>> : x \in Script}, Provision(scripts)
      PROVE  RunInv'
  BY <1>1, ProvisionEffect, Tuples DEF RunInv, Script
<1>2. CASE NetWrite
  <2>1. CASE UNCHANGED ctlVars
    BY <1>2, <2>1 DEF NetWrite, ctlVars, RunInv
  <2>2. CASE plan' = "whole" /\ Continue("netGenerate")
    BY <1>2, <2>2, WithinScript DEF NetWrite
  <2>3. CASE plan' = "whole" /\ ScriptDone({"netplan"})
    <3>1. NetResult'
      BY <2>3, ScriptDoneEffect DEF NetResult
    <3> QED BY <1>2, <2>3, <3>1, HandOver DEF NetWrite
  <2> QED BY <1>2, <2>1, <2>2, <2>3, AfterAbort DEF NetWrite
<1>3. CASE NetGenerate
  <2>1. host' = host /\ plan' = plan /\ pc = "netGenerate"
    BY <1>3 DEF NetGenerate, netVars
  <2>2. plan = "whole"
    BY <2>1 DEF RunInv
  <2> QED BY <1>3, <2>1, <2>2, WithinScript, AfterAbort DEF NetGenerate
<1>4. CASE NetApply
  <2>1. plan' = "whole" /\ host' = host
    BY <1>4 DEF NetApply, RunInv
  <2>2. ASSUME NEW w \in {{}, {"apply"}}, ScriptDone(w), net' = host.iface \/ w = {"apply"}
        PROVE  RunInv'
    <3>1. warned' = warned \union w
      BY <2>2, ScriptDoneEffect
    <3>2. NetResult'
      BY <2>1, <2>2, <3>1 DEF NetResult
    <3> QED BY <1>4, <2>2, <3>2, HandOver DEF NetApply
  <2> QED BY <1>4, <2>2, AfterAbort DEF NetApply
<1>5. CASE IpLink
  <2>1. ~host.etcNetplan /\ host' = host
    BY <1>5 DEF IpLink, RunInv
  <2>2. NetResult'
    BY <2>1 DEF NetResult
  <2>3. ASSUME NEW w, ScriptDone(w) PROVE RunInv'
    BY <1>5, <2>2, <2>3, HandOver DEF IpLink
  <2> QED BY <1>5, <2>3, AfterAbort DEF IpLink
<1>6. CASE FwReset
  <2>1. UNCHANGED <<host, netVars>>
    BY <1>6 DEF FwReset
  <2>2. CASE ScriptDone({"ufw"})
    <3>1. FwResult'
      BY <2>2, ScriptDoneEffect DEF FwResult
    <3> QED BY <1>6, <2>1, <2>2, <3>1, HandOver DEF FwReset
  <2> QED BY <1>6, <2>1, <2>2, WithinScript, AfterAbort DEF FwReset
<1>7. CASE FwRule
  <2>1. UNCHANGED <<host, netVars>>
    BY <1>7 DEF FwRule
  <2>2. CASE Continue(IF MoreRules THEN "fwRule" ELSE "fwEnable")
    BY <1>7, <2>1, <2>2, WithinScript DEF FwRule
  <2> QED BY <1>7, <2>2, AfterAbort DEF FwRule
<1>8. CASE FwEnable
  <2>1. UNCHANGED <<host, netVars>>
    BY <1>8 DEF FwEnable
  <2> QED BY <1>8, <2>1, WithinScript, AfterAbort DEF FwEnable
<1>9. CASE FwStatus
  <2>1. UNCHANGED <<host, netVars>> /\ fw' = fw
    BY <1>9 DEF FwStatus
  <2>2. CASE ScriptDone({})
    <3>1. FwResult'
      BY <1>9, <2>1 DEF FwStatus, FwInv, FwResult
    <3> QED BY <1>9, <2>1, <2>2, <3>1, HandOver DEF FwStatus
  <2> QED BY <1>9, <2>2, AfterAbort DEF FwStatus
<1>10. CASE SshWrite \/ SshFill \/ SshTest \/ SshReload \/ SshRevert
  <2>1. UNCHANGED <<host, netVars>> /\ fw' = fw /\ pc \in SshPC
    BY <1>10 DEF SshWrite, SshFill, SshTest, SshReload, SshRevert
  <2>2. ASSUME NEW next \in SshPC, Continue(next) PROVE RunInv'
    BY <2>1, <2>2, WithinScript
  <2>3. ASSUME NEW w, ScriptDone(w) PROVE RunInv'
    BY <2>1, <2>3, HandOver
  <2>4. Tested \in SshPC
    BY DEF Tested
  <2>5. CASE SshWrite \/ SshFill
    BY <2>2, <2>5, AfterAbort DEF SshWrite, SshFill
  <2>6. CASE SshTest
    BY <2>2, <2>3, <2>4, <2>6 DEF SshTest
  <2>7. CASE SshReload \/ SshRevert
    BY <2>3, <2>7, AfterAbort DEF SshReload, SshRevert, Loaded
  <2> QED BY <1>10, <2>5, <2>6, <2>7
<1>11. CASE Kill
  BY <1>11 DEF Kill, RunInv
<1>12. CASE Reboot \/ ForeignEdit
  BY <1>12 DEF Reboot, ForeignEdit, ctlVars, RunInv
<1>13. CASE UNCHANGED vars
  BY <1>13 DEF vars, ctlVars, netVars, RunInv, NetResult, FwResult
<1> QED BY <1>1, <1>2, <1>3, <1>4, <1>5, <1>6, <1>7, <1>8, <1>9, <1>10, <1>11, <1>12, <1>13
        DEF Next, Run

-----------------------------------------------------------------------------
(* The theorems *)

LEMMA InvInit == Init => Inv
<1> SUFFICES ASSUME Init PROVE Inv
  OBVIOUS
<1>1. TypeOK
  <2>1. host \in Host /\ pc \in PC /\ outcome \in {"none", "ok", "failed", "killed"}
    BY DEF Init, PC
  <2>2. left \in {<<>>, <<"ssh">>, <<"ufw", "ssh">>} /\ asked \subseteq Script
        /\ warned \subseteq {"netplan", "apply", "dryRun", "iface", "ufw", "sshd"}
    BY DEF Init
  <2>3. plan \in {"none", "part", "whole"} /\ net \in BOOLEAN
    BY DEF Init
  <2>4. fw \in Firewall
    <3>1. 0 \in 0..Rules
      BY RulesAssumption
    <3>2. ASSUME NEW b \in BOOLEAN
          PROVE  [on |-> b /\ host.ufw, ours |-> FALSE, rules |-> 0] \in Firewall
      <4>1. (b /\ host.ufw) \in BOOLEAN
        OBVIOUS
      <4> QED BY <3>1, <4>1 DEF Firewall
    <3> QED BY <3>2 DEF Init
  <2>5. sshd \in [up : BOOLEAN, hardened : BOOLEAN]
    BY DEF Init
  <2>6. main \in BOOLEAN /\ dropIn \in BOOLEAN /\ foreign \in BOOLEAN
        /\ torn \in BOOLEAN /\ rejected \in BOOLEAN
    BY DEF Init
  <2> QED BY <2>1, <2>2, <2>3, <2>4, <2>5, <2>6 DEF TypeOK
<1>2. FwInv /\ SshInv /\ RunInv
  BY DEF Init, FwInv, FirewallWhole, SshInv, OnDisk, Acceptable, RunInv, NetPC, FwPC, SshPC
<1> QED BY <1>1, <1>2 DEF Inv

LEMMA InvNext == Inv /\ [Next]_vars => Inv'
BY TypeNext, FwNext, SshNext, RunNext DEF Inv

LEMMA InvHolds == Spec => []Inv
BY InvInit, InvNext, PTL DEF Spec

\* Type correctness, with ufw's rules never counted past their number.
THEOREM TypeOKHolds == Spec => []TypeOK
<1>1. Inv => TypeOK
  BY DEF Inv
<1> QED BY <1>1, InvHolds, PTL

\* However many rules there are, a firewall that is on has all of them.
THEOREM FirewallNeverPartial == Spec => []FirewallWhole
<1>1. Inv => FirewallWhole
  BY DEF Inv, FwInv
<1> QED BY <1>1, InvHolds, PTL

\* What a run leaves for the next boot to find is bad only for the reasons given.
THEOREM SpoiltForCause == Spec => []SpoiltOnlyByAppend
<1>1. Inv => SpoiltOnlyByAppend
  BY DEF Inv, TypeOK, Host, SshInv, SpoiltOnlyByAppend, Acceptable, OnDisk
<1> QED BY <1>1, InvHolds, PTL

\* The directives in force are on the disk, or it is known why they are not.
THEOREM HardeningIsOnDisk == Spec => []HardeningLasts
<1>1. Inv => HardeningLasts
  BY DEF Inv, SshInv, HardeningLasts
<1> QED BY <1>1, InvHolds, PTL

\* Only a failed restart of an accepted configuration, or a boot, leaves no server.
LEMMA UpNext ==
    ASSUME Inv, [Next]_vars, sshd.up, ~sshd'.up
    PROVE  Reboot \/ (Acceptable /\ outcome' = "failed")
<1>1. CASE SshReload
  BY <1>1 DEF SshReload, Abort, Inv, SshInv
<1>2. CASE SshWrite \/ SshFill \/ SshTest \/ SshRevert
  BY <1>2 DEF SshWrite, SshFill, SshTest, SshRevert
<1>3. CASE NetWrite \/ NetGenerate \/ NetApply \/ IpLink
  BY <1>3 DEF NetWrite, NetGenerate, NetApply, IpLink, sshVars
<1>4. CASE FwReset \/ FwRule \/ FwEnable \/ FwStatus
  BY <1>4 DEF FwReset, FwRule, FwEnable, FwStatus, sshVars
<1>5. CASE Kill \/ ForeignEdit \/ UNCHANGED vars
  BY <1>5 DEF Kill, ForeignEdit, vars, sshVars
<1>6. ASSUME NEW scripts \in {All} \union {<<x>> : x \in Script}, Provision(scripts)
      PROVE  FALSE
  BY <1>6 DEF Provision, sshVars
<1> QED BY <1>1, <1>2, <1>3, <1>4, <1>5, <1>6 DEF Next, Run

\* A run takes the server down only by a restart that fails, of a configuration that
\* sshd accepts, and fails itself.
THEOREM BadConfigIsNeverLoaded == Spec => ConfigNeverStopsSshd
<1>1. Inv /\ [Next]_vars =>
        [sshd.up /\ ~sshd'.up => Reboot \/ (Acceptable /\ outcome' = "failed")]_vars
  BY UpNext
<1> QED BY <1>1, InvHolds, PTL DEF Spec, ConfigNeverStopsSshd

\* What holds when a run ends well.
Delivered ==
    /\ "network" \in asked /\ host.etcNetplan =>
         /\ plan' = "whole"
         /\ net' \/ ~host.iface \/ warned' \intersect {"netplan", "apply"} # {}
    /\ "ufw" \in asked => (fw'.on /\ fw'.ours) \/ "ufw" \in warned'
    /\ "ssh" \in asked =>
         OnDisk' /\ (sshd' = [up |-> TRUE, hardened |-> TRUE] \/ "sshd" \in warned'
                     \/ ~Managed)

LEMMA DeliveredNext ==
    ASSUME Inv, [Next]_vars, outcome = "none", outcome' = "ok" PROVE Delivered
<1> USE DEF Inv, NetPC, FwPC, SshPC
<1>0. ASSUME NEW w, ScriptDone(w)
      PROVE  left = <<>> /\ warned' = warned \union w
  BY <1>0, ScriptDoneEffect
<1>1. ASSUME NEW scripts \in {All} \union {<<x>> : x \in Script}, Provision(scripts)
      PROVE  FALSE
  BY <1>1 DEF Provision
<1>2. CASE NetWrite \/ NetGenerate \/ NetApply \/ IpLink
  <2>1. host' = host
    BY <1>2 DEF NetWrite, NetGenerate, NetApply, IpLink
  <2>2. asked = {"network"}
    BY <1>0, <1>2 DEF NetWrite, NetGenerate, NetApply, IpLink, Continue, Abort, ctlVars, RunInv
  <2>3. NetResult'
    <3>1. CASE NetWrite
      BY <1>0, <3>1 DEF NetWrite, Continue, Abort, ctlVars, NetResult
    <3>2. CASE NetGenerate
      BY <3>2 DEF NetGenerate, Continue, Abort
    <3>3. CASE NetApply
      BY <1>0, <3>3 DEF NetApply, Abort, RunInv, NetResult
    <3>4. CASE IpLink
      BY <2>1, <3>4 DEF IpLink, RunInv, NetResult
    <3> QED BY <1>2, <3>1, <3>2, <3>3, <3>4
  <2> QED BY <2>1, <2>2, <2>3 DEF Delivered, NetResult
<1>3. CASE FwReset \/ FwRule \/ FwEnable \/ FwStatus
  <2>1. FwResult'
    BY <1>0, <1>3 DEF FwReset, FwRule, FwEnable, FwStatus, Continue, Abort, FwResult, FwInv
  <2>2. asked = {"ufw"}
    BY <1>0, <1>3 DEF FwReset, FwRule, FwEnable, FwStatus, Continue, Abort, RunInv
  <2> QED BY <2>1, <2>2 DEF Delivered, FwResult
<1>4. CASE SshTest \/ SshReload
  <2>1. /\ UNCHANGED <<host, netVars>> /\ fw' = fw /\ pc \in SshPC
        /\ UNCHANGED <<main, dropIn>>
    BY <1>4 DEF SshTest, SshReload
  <2>2. warned \subseteq warned'
    BY <1>0, <1>4 DEF SshTest, SshReload, Loaded, Continue, Abort
  <2>3. ("network" \in asked => NetResult') /\ ("ufw" \in asked => FwResult')
    BY <2>1, <2>2, ResultsStay DEF RunInv
  <2>4. OnDisk'
    BY <1>4, <2>1 DEF SshTest, SshReload, SshInv, OnDisk
  <2>5. \/ sshd' = [up |-> TRUE, hardened |-> TRUE] \/ "sshd" \in warned' \/ ~Managed
    <3>1. CASE SshTest
      BY <1>0, <3>1 DEF SshTest, Continue
    <3>2. CASE SshReload
      BY <3>2 DEF SshReload, Abort
    <3> QED BY <1>4, <3>1, <3>2
  <2> QED BY <2>1, <2>3, <2>4, <2>5 DEF Delivered, NetResult, FwResult
<1>5. CASE SshWrite \/ SshFill \/ SshRevert \/ Kill \/ Reboot \/ ForeignEdit \/ UNCHANGED vars
  BY <1>5 DEF SshWrite, SshFill, SshRevert, Kill, Reboot, ForeignEdit, Continue, Abort, vars, ctlVars
<1> QED BY <1>1, <1>2, <1>3, <1>4, <1>5 DEF Next, Run

\* Exit status 0 keeps its word, for the whole sequence of scripts as for each.
THEOREM SuccessDelivers == Spec => DoneOrWarned
<1>1. Inv /\ [Next]_vars => [outcome = "none" /\ outcome' = "ok" => Delivered]_vars
  BY DeliveredNext
<1> QED BY <1>1, InvHolds, PTL DEF Spec, DoneOrWarned, Delivered

=============================================================================
