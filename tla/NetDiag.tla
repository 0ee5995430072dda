------------------------------- MODULE NetDiag -------------------------------
(***************************************************************************)
(* diagnostics/netdiag.py: one run of the command line, from its arguments *)
(* to its report, with the latency probe, the iperf3 runner and the        *)
(* reporter it calls. The path to the target and the iperf3 server there   *)
(* change while it runs, and the server may be serving someone else. What  *)
(* an analysis of the sockets returns is SocketAnalyzer's subject; here it *)
(* is any of its statuses. A run may be killed at any point.               *)
(***************************************************************************)
EXTENDS Naturals

CONSTANT Count    \* packets, or handshakes, of a latency probe: 5

ASSUME CountAssumption == Count \in Nat \ {0}

VARIABLES
    pc,           \* where the run is
    args,         \* the tests that are asked for, and what is to be made of them
    path, server, \* the way to the target, and the iperf3 server at its end
    sent, heard,  \* packets or handshakes of the probe under way
    latency,      \* latency_res
    iperf,        \* whether shutil.which found iperf3
    tcp, udp,     \* the status of tcp_res and udp_res, "none" for None
    sockets,      \* socket_res: its status and whether it has diagnostics
    screen,       \* what was printed
    file,         \* what the file of --export holds
    accepting     \* history: the target took connections since the run began

probing == <<sent, heard, latency>>
results == <<latency, tcp, udp, sockets>>
outputs == <<screen, file>>
vars == <<pc, args, path, server, sent, heard, latency, iperf, tcp, udp, sockets, screen, file,
          accepting>>

Test   == {"tcp", "udp", "sockets"}
Args   == [tests : (SUBSET Test) \ {{}}, json : BOOLEAN, export : BOOLEAN]
\* "filtered" drops ICMP alone, "lossy" some of everything, "cut" everything.
Path   == {"clear", "lossy", "filtered", "cut"}
Server == {"free", "busy", "down"}
PC     == {"ping", "syn", "tcp", "udp", "sockets", "report", "export", "write", "done", "killed"}
Latency == [status : {"none", "OK", "DEGRADED", "UNREACHABLE", "TIMEOUT", "ERROR"},
            by : {"ICMP", "TCP"}, received : 0..Count]
Benchmark == {"none", "SUCCESS", "ERROR", "TIMEOUT", "UNAVAILABLE", "PARSE_ERROR"}
Analysis  == {<<"none", FALSE>>, <<"HEALTHY", FALSE>>, <<"HEALTHY", TRUE>>, <<"WARNING", TRUE>>,
              <<"EMPTY", FALSE>>, <<"ERROR", FALSE>>, <<"UNAVAILABLE", FALSE>>}
Shown  == {"absent", "numbers", "error"}
Report == [tcp : Shown, udp : Shown, sockets : {"absent", "healthy", "findings", "error"}]
Nothing == [tcp |-> "absent", udp |-> "absent", sockets |-> "absent"]

TypeOK ==
    /\ pc \in PC /\ args \in Args
    /\ path \in Path /\ server \in Server
    /\ sent \in 0..Count /\ heard \in 0..sent
    /\ latency \in Latency /\ iperf \in BOOLEAN
    /\ tcp \in Benchmark /\ udp \in Benchmark \ {"TIMEOUT"} /\ sockets \in Analysis
    /\ screen \in [form : {"none", "json", "terminal"}, shows : Report]
    /\ file \in [form : {"before", "truncated", "markdown"}, shows : Report]
    /\ accepting \in BOOLEAN

\* Handshakes are answered by the target's kernel, however busy the server is.
Accepts(p, s) == p \in {"clear", "filtered"} /\ s # "down"

\* main: no test named means all of them.
Init ==
    /\ pc = "ping"
    /\ \E named \in SUBSET Test, json, export \in BOOLEAN :
         args = [tests |-> IF named = {} THEN Test ELSE named, json |-> json, export |-> export]
    /\ path \in Path /\ server \in Server
    /\ sent = 0 /\ heard = 0
    /\ latency = [status |-> "none", by |-> "ICMP", received |-> 0]
    /\ iperf \in BOOLEAN
    /\ tcp = "none" /\ udp = "none" /\ sockets = <<"none", FALSE>>
    /\ screen = [form |-> "none", shows |-> Nothing]
    /\ file = [form |-> "before", shows |-> Nothing]
    /\ accepting = Accepts(path, server)

\* The world, while it matters to the run.
WorldMoves ==
    /\ pc \in {"ping", "syn", "tcp", "udp"}
    /\ path' \in Path /\ server' \in Server
    /\ accepting' = (accepting /\ Accepts(path', server'))
    /\ UNCHANGED <<pc, args, sent, heard, iperf, results, outputs>>

-----------------------------------------------------------------------------
(* LatencyProbe *)

\* One packet or handshake more, and whether it was answered.
Tried(reachable) ==
    /\ sent < Count
    /\ sent' = sent + 1
    /\ \/ reachable /\ heard' = heard + 1
       \/ ~reachable /\ heard' = heard
       \/ path = "lossy" /\ heard' \in {heard, heard + 1}
    /\ UNCHANGED <<pc, args, path, server, iperf, results, outputs, accepting>>

Echo == pc = "ping" /\ Tried(path = "clear")
Handshake == pc = "syn" /\ Tried(Accepts(path, server))

\* Both probes: what the losses amount to.
Verdict == IF heard = Count THEN "OK" ELSE IF heard > 0 THEN "DEGRADED" ELSE "UNREACHABLE"

Measured(status, by) ==
    /\ latency' = [status |-> status, by |-> by, received |-> heard]
    /\ pc' = "tcp"
    /\ UNCHANGED <<args, path, server, sent, heard, iperf, tcp, udp, sockets, outputs, accepting>>

\* Mutant: the result of ping is the result of the probe.
NoFallBack == Measured("UNREACHABLE", "ICMP")

\* run_tcp_syn_probe starts: --port always has a value.
FallBack ==
    /\ pc' = "syn" /\ sent' = 0 /\ heard' = 0
    /\ UNCHANGED <<args, path, server, iperf, results, outputs, accepting>>

\* ping has ended: a name that does not resolve or a socket it may not open ends
\* it before it has sent anything, and its output says nothing of packets.
PingEnds ==
    /\ pc = "ping"
    /\ sent = Count \/ sent = 0
    /\ IF Verdict = "UNREACHABLE" THEN FallBack ELSE Measured(Verdict, "ICMP")

\* ping is not there to be run, or is stopped after count * timeout + 3 seconds:
\* what it had heard by then is not read, and no handshake is tried.
PingFails ==
    /\ pc = "ping"
    /\ \E status \in {"ERROR", "TIMEOUT"} :
         latency' = [status |-> status, by |-> "ICMP", received |-> 0]
    /\ pc' = "tcp"
    /\ UNCHANGED <<args, path, server, sent, heard, iperf, tcp, udp, sockets, outputs, accepting>>

\* Mutant: handshakes are tried until one is answered.
SynAgain ==
    /\ pc = "syn" /\ sent = Count
    /\ IF Verdict = "UNREACHABLE" THEN FallBack ELSE Measured(Verdict, "TCP")

\* The handshakes count only when one of them was answered; otherwise the result
\* is the one of ping, which had heard nothing either.
SynEnds ==
    /\ pc = "syn" /\ sent = Count
    /\ Measured(Verdict, IF Verdict = "UNREACHABLE" THEN "ICMP" ELSE "TCP")

-----------------------------------------------------------------------------
(* IperfBenchmarkRunner *)

\* iperf3 exits with 0 when the server was free for it and the path held; its
\* output may still be no JSON. Otherwise it says why, or is stopped.
Outcomes(stopped) ==
    IF ~iperf THEN {"UNAVAILABLE"}
    ELSE {"ERROR", stopped} \union
         (IF server = "free" /\ path # "cut" THEN {"SUCCESS", "PARSE_ERROR"} ELSE {})

RunTcp ==
    /\ pc = "tcp"
    /\ IF "tcp" \in args.tests THEN tcp' \in Outcomes("TIMEOUT") ELSE UNCHANGED tcp
    /\ pc' = "udp"
    /\ UNCHANGED <<args, path, server, probing, iperf, udp, sockets, outputs, accepting>>

\* A stopped UDP benchmark has no clause of its own.
UdpStopped == "ERROR"

RunUdp ==
    /\ pc = "udp"
    /\ IF "udp" \in args.tests THEN udp' \in Outcomes(UdpStopped) ELSE UNCHANGED udp
    /\ pc' = "sockets"
    /\ UNCHANGED <<args, path, server, probing, iperf, tcp, sockets, outputs, accepting>>

AnalyzeSockets ==
    /\ pc = "sockets"
    /\ IF "sockets" \in args.tests
       THEN sockets' \in Analysis \ {<<"none", FALSE>>} ELSE UNCHANGED sockets
    /\ pc' = "report"
    /\ UNCHANGED <<args, path, server, probing, iperf, tcp, udp, outputs, accepting>>

-----------------------------------------------------------------------------
(* DiagnosticReporter *)

Full(status) == IF status = "none" THEN "absent"
                ELSE IF status = "SUCCESS" THEN "numbers" ELSE "error"
OnlySuccess(status) == IF status = "SUCCESS" THEN "numbers" ELSE "absent"

Analysed == sockets[1] \in {"HEALTHY", "WARNING"}
Findings == IF sockets[2] THEN "findings" ELSE "healthy"

\* Mutant: the TCP section is shown like the UDP one.
SummaryOfSuccess ==
    [tcp |-> OnlySuccess(tcp), udp |-> OnlySuccess(udp),
     sockets |-> IF Analysed THEN Findings ELSE "error"]

\* print_summary: a failed TCP benchmark gives its error, a failed UDP one
\* nothing; sockets that were not asked for are reported as unavailable.
Summary ==
    [tcp |-> Full(tcp), udp |-> OnlySuccess(udp),
     sockets |-> IF Analysed THEN Findings ELSE "error"]

\* Mutant: the findings hang on the status.
MarkdownOfWarning ==
    [tcp |-> OnlySuccess(tcp), udp |-> OnlySuccess(udp),
     sockets |-> CASE sockets[1] = "WARNING" -> "findings"
                   [] sockets[1] = "HEALTHY" -> "healthy" [] OTHER -> "absent"]

\* export_markdown: neither gives an error, and an analysis that failed leaves an
\* empty table.
Markdown ==
    [tcp |-> OnlySuccess(tcp), udp |-> OnlySuccess(udp),
     sockets |-> IF Analysed THEN Findings ELSE "absent"]

\* json.dumps(results) has everything.
Json == [tcp |-> Full(tcp), udp |-> Full(udp),
         sockets |-> IF Analysed THEN Findings ELSE IF sockets[1] = "none" THEN "absent" ELSE "error"]

\* Mutant: what comes after the JSON is not left out.
AfterJsonExport == IF args.export THEN "export" ELSE "done"

\* --json ends the run there, whatever else was asked for.
AfterJson == "done"

PrintReport ==
    /\ pc = "report"
    /\ IF args.json
       THEN screen' = [form |-> "json", shows |-> Json] /\ pc' = AfterJson
       ELSE /\ screen' = [form |-> "terminal", shows |-> Summary]
            /\ pc' = IF args.export THEN "export" ELSE "done"
    /\ UNCHANGED <<args, path, server, sent, heard, iperf, results, file, accepting>>

\* open(filepath, "w") empties the report of the last time. A directory or a file
\* that cannot be made raises, which ends the run as Kill does.
OpenExport ==
    /\ pc = "export"
    /\ pc' = "write" /\ file' = [form |-> "truncated", shows |-> Nothing]
    /\ UNCHANGED <<args, path, server, sent, heard, iperf, results, screen, accepting>>

WriteExport ==
    /\ pc = "write"
    /\ pc' = "done" /\ file' = [form |-> "markdown", shows |-> Markdown]
    /\ UNCHANGED <<args, path, server, sent, heard, iperf, results, screen, accepting>>

Step ==
    \/ Echo \/ Handshake \/ PingEnds \/ PingFails \/ SynEnds
    \/ RunTcp \/ RunUdp \/ AnalyzeSockets \/ PrintReport \/ OpenExport \/ WriteExport

Kill ==
    /\ pc \notin {"done", "killed"}
    /\ pc' = "killed"
    /\ UNCHANGED <<args, path, server, sent, heard, iperf, results, outputs, accepting>>

Next == Step \/ WorldMoves \/ Kill

Spec == Init /\ [][Next]_vars /\ WF_vars(Step)

-----------------------------------------------------------------------------
(* What a report is worth *)

\* A target that took connections all through the probe is never reported as
\* UNREACHABLE, whatever becomes of ICMP, and an OK lost nothing on the way. When
\* ping cannot be run or is stopped (probe.py:87) it is a TIMEOUT or an ERROR.
VerdictSound ==
    /\ latency.status = "UNREACHABLE" /\ pc = "tcp" => ~accepting
    /\ latency.status = "OK" => latency.received = Count
    /\ latency.status \in {"OK", "DEGRADED"} <=> latency.received > 0

\* Of the tests that were asked for, the terminal leaves out only a UDP benchmark
\* that failed, and JSON leaves out none.
OmitsOnlyFailedUdp ==
    \A t \in Test : screen.form # "none" /\ t \in args.tests =>
        \/ screen.shows[t] # "absent"
        \/ t = "udp" /\ udp # "SUCCESS" /\ screen.form = "terminal"

\* The exported file has the numbers and the findings that the terminal showed,
\* and nothing to say that a test failed.
FileAgrees ==
    file.form = "markdown" =>
        \A t \in Test :
            file.shows[t] = IF screen.shows[t] = "error" THEN "absent" ELSE screen.shows[t]

\* A run that ends has written the file it was to export, unless JSON was asked
\* for as well; only a run that was killed can leave it empty.
ExportExact ==
    /\ pc = "done" => (file.form = "markdown" <=> args.export /\ ~args.json)
    /\ file.form = "truncated" => pc \in {"write", "killed"}

\* Every run ends, or is killed: each program it starts has a time limit.
EveryRunEnds == <>(pc \in {"done", "killed"})

=============================================================================
