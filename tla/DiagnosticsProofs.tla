-------------------------- MODULE DiagnosticsProofs --------------------------
(***************************************************************************)
(* The safety properties of the two programs of diagnostics/: a run of     *)
(* NetDiag, for any number of packets, and the reports of SocketAnalyzer,  *)
(* on a host with any number of sockets and for any bounds.                *)
(***************************************************************************)
EXTENDS NetDiag, SocketAnalyzer, FiniteSetTheorems, WellFoundedInduction, TLAPS

-----------------------------------------------------------------------------
(* NetDiag: the properties speak of what a report shows; the invariant     *)
(* adds what the run knows while it is on the way there.                   *)


\* Handshakes with a target that has taken connections all along are all answered.
ProbeInv ==
    /\ VerdictSound
    /\ pc \in {"ping", "syn"} => latency.status = "none" /\ latency.received = 0
    /\ accepting => Accepts(path, server)
    /\ pc = "syn" /\ accepting => heard = sent

\* Which results are there, and what was made of them.
ReportInv ==
    /\ screen.form # "none" =>
         /\ \A t \in args.tests : CASE t = "tcp" -> tcp # "none"
                                    [] t = "udp" -> udp # "none"
                                    [] t = "sockets" -> sockets[1] # "none"
         /\ args.json => screen.form = "json" /\ screen.shows = Json
         /\ ~args.json => screen.form = "terminal" /\ screen.shows = Summary
    /\ pc \in {"udp", "sockets", "report"} => ("tcp" \in args.tests => tcp # "none")
    /\ pc \in {"sockets", "report"} => ("udp" \in args.tests => udp # "none")
    /\ pc = "report" => ("sockets" \in args.tests => sockets[1] # "none")

\* When the terminal and the file are written.
OutputInv ==
    /\ pc \in {"ping", "syn", "tcp", "udp", "sockets", "report"} =>
         screen.form = "none" /\ file.form = "before"
    /\ pc \in {"export", "write"} =>
         screen.form = "terminal" /\ args.export /\ ~args.json
    /\ pc = "export" => file.form = "before"
    /\ pc = "done" => (file.form = "markdown" <=> args.export /\ ~args.json)
    /\ file.form = "truncated" => pc \in {"write", "killed"}
    /\ file.form = "markdown" => screen.form = "terminal" /\ file.shows = Markdown

Inv == TypeOK /\ ProbeInv /\ ReportInv /\ OutputInv

-----------------------------------------------------------------------------
(* Types *)

LEMMA OutcomesType ==
    /\ Outcomes("TIMEOUT") \subseteq Benchmark \ {"none"}
    /\ Outcomes(UdpStopped) \subseteq Benchmark \ {"none", "TIMEOUT"}
BY DEF Outcomes, Benchmark, UdpStopped

LEMMA VerdictType ==
    ASSUME TypeOK
    PROVE  /\ Verdict \in {"OK", "DEGRADED", "UNREACHABLE"}
           /\ Verdict = "OK" <=> heard = Count
           /\ Verdict = "UNREACHABLE" <=> heard = 0
           /\ heard \in 0..Count
<1>1. /\ Count \in Nat /\ Count > 0
      /\ sent \in 0..Count /\ heard \in 0..sent
  BY CountAssumption DEF TypeOK
<1> QED BY <1>1 DEF Verdict

LEMMA ReportType ==
    ASSUME TypeOK PROVE Json \in Report /\ Summary \in Report /\ Markdown \in Report
BY DEF Json, Summary, Markdown, Report, Shown, Full, OnlySuccess, Findings

LEMMA MeasuredType ==
    ASSUME TypeOK, NEW status \in {"OK", "DEGRADED", "UNREACHABLE"}, NEW by \in {"ICMP", "TCP"}
    PROVE  [status |-> status, by |-> by, received |-> heard] \in Latency
BY VerdictType DEF Latency

LEMMA TypeNext == ASSUME TypeOK, [Next]_vars PROVE TypeOK'
<1> USE DEF TypeOK
<1>1. CASE Echo \/ Handshake
  <2>1. PICK r : Tried(r)
    BY <1>1 DEF Echo, Handshake
  <2>2. sent' \in 0..Count /\ heard' \in 0..sent'
    <3>1. Count \in Nat /\ sent \in 0..Count /\ heard \in 0..sent /\ sent < Count
      BY <2>1, CountAssumption DEF Tried
    <3>2. sent' = sent + 1 /\ heard' \in {heard, heard + 1}
      BY <2>1 DEF Tried
    <3> QED BY <3>1, <3>2
  <2> QED BY <2>1, <2>2 DEF Tried, results, outputs
<1>2. CASE PingEnds \/ SynEnds
  <2>1. CASE FallBack
    BY <2>1, CountAssumption DEF FallBack, results, outputs, PC
  <2>2. ASSUME NEW status \in {"OK", "DEGRADED", "UNREACHABLE"}, NEW by \in {"ICMP", "TCP"},
               Measured(status, by)
        PROVE  TypeOK'
    BY <2>2, MeasuredType DEF Measured, outputs, PC
  <2> QED BY <1>2, <2>1, <2>2, VerdictType DEF PingEnds, SynEnds
<1>3. CASE PingFails
  <2>1. latency' \in Latency
    BY <1>3, CountAssumption DEF PingFails, Latency
  <2> QED BY <1>3, <2>1 DEF PingFails, outputs, PC
<1>4. CASE RunTcp
  BY <1>4, OutcomesType DEF RunTcp, probing, outputs, PC
<1>5. CASE RunUdp
  BY <1>5, OutcomesType DEF RunUdp, probing, outputs, PC
<1>6. CASE AnalyzeSockets
  BY <1>6 DEF AnalyzeSockets, probing, outputs, PC
<1>7. CASE PrintReport
  BY <1>7, ReportType DEF PrintReport, AfterJson, results, PC
<1>8. CASE OpenExport \/ WriteExport
  <2>1. Nothing \in Report
    BY DEF Nothing, Report, Shown
  <2> QED BY <1>8, <2>1, ReportType DEF OpenExport, WriteExport, results, PC
<1>9. CASE WorldMoves
  <2>1. accepting' \in BOOLEAN
    BY <1>9 DEF WorldMoves, Accepts
  <2> QED BY <1>9, <2>1 DEF WorldMoves, results, outputs
<1>10. CASE Kill
  BY <1>10 DEF Kill, results, outputs, PC
<1>11. CASE UNCHANGED vars
  BY <1>11 DEF vars
<1> QED BY <1>1, <1>2, <1>3, <1>4, <1>5, <1>6, <1>7, <1>8, <1>9, <1>10, <1>11 DEF Next, Step

-----------------------------------------------------------------------------
(* The probe *)

LEMMA ProbeNext == ASSUME TypeOK, ProbeInv, [Next]_vars PROVE ProbeInv'
<1> USE DEF ProbeInv, VerdictSound
<1>1. CASE Echo
  BY <1>1 DEF Echo, Tried, results, Accepts
<1>2. CASE Handshake
  <2>1. accepting => heard' = sent'
    <3>1. accepting => path # "lossy" /\ Accepts(path, server)
      BY DEF Accepts
    <3> QED BY <1>2, <3>1 DEF Handshake, Tried
  <2> QED BY <1>2, <2>1 DEF Handshake, Tried, results, Accepts
<1>3. CASE PingEnds
  <2>1. CASE FallBack
    BY <1>3, <2>1 DEF PingEnds, FallBack, results, Accepts
  <2>2. CASE Verdict # "UNREACHABLE" /\ Measured(Verdict, "ICMP")
    BY <2>2, VerdictType, CountAssumption DEF Measured, Accepts
  <2> QED BY <1>3, <2>1, <2>2 DEF PingEnds
<1>4. CASE SynEnds
  <2>1. accepting => Verdict = "OK"
    BY <1>4, VerdictType DEF SynEnds
  <2>2. latency'.status = Verdict /\ latency'.received = heard /\ pc' = "tcp"
        /\ UNCHANGED <<path, server, accepting>>
    BY <1>4 DEF SynEnds, Measured
  <2> QED BY <2>1, <2>2, VerdictType, CountAssumption DEF Accepts
<1>5. CASE PingFails
  BY <1>5, CountAssumption DEF PingFails, Accepts
<1>6. CASE RunTcp \/ RunUdp \/ AnalyzeSockets
  <2>1. UNCHANGED <<latency, path, server, accepting>>
        /\ pc \notin {"ping", "syn"} /\ pc' \in {"udp", "sockets", "report"}
    BY <1>6 DEF RunTcp, RunUdp, AnalyzeSockets, probing
  <2> QED BY <2>1 DEF Accepts
<1>7. CASE PrintReport \/ OpenExport \/ WriteExport \/ Kill
  BY <1>7 DEF PrintReport, AfterJson, OpenExport, WriteExport, Kill, results, Accepts
<1>8. CASE WorldMoves
  BY <1>8 DEF WorldMoves, results, Accepts
<1>9. CASE UNCHANGED vars
  BY <1>9 DEF vars, Accepts
<1> QED BY <1>1, <1>2, <1>3, <1>4, <1>5, <1>6, <1>7, <1>8, <1>9 DEF Next, Step

-----------------------------------------------------------------------------
(* The report *)

\* What is shown depends on the results alone.
LEMMA SameResults ==
    ASSUME UNCHANGED <<tcp, udp, sockets>>
    PROVE  UNCHANGED <<Json, Summary, Markdown>>
BY DEF Json, Summary, Markdown, Full, OnlySuccess, Analysed, Findings

LEMMA ReportNext == ASSUME TypeOK, ReportInv, OutputInv, [Next]_vars PROVE ReportInv'
<1>1. CASE RunTcp \/ RunUdp \/ AnalyzeSockets
  <2>1. screen'.form = "none"
    BY <1>1 DEF OutputInv, RunTcp, RunUdp, AnalyzeSockets, outputs
  <2>2. CASE RunTcp
    BY <2>1, <2>2, OutcomesType DEF RunTcp, ReportInv
  <2>3. CASE RunUdp
    BY <2>1, <2>3, OutcomesType DEF RunUdp, ReportInv
  <2>4. CASE AnalyzeSockets
    <3>1. \A s \in Analysis \ {<<"none", FALSE>>} : s[1] # "none"
      <4>1. \A a, b : <<a, b>>[1] = a
        OBVIOUS
      <4>2. \A s \in Analysis :
               \/ s = <<"none", FALSE>>
               \/ \E a \in {"HEALTHY", "WARNING", "EMPTY", "ERROR", "UNAVAILABLE"}, b \in BOOLEAN :
                    s = <<a, b>>
        BY DEF Analysis
      <4>3. \A a \in {"HEALTHY", "WARNING", "EMPTY", "ERROR", "UNAVAILABLE"} : a # "none"
        OBVIOUS
      <4> QED BY <4>1, <4>2, <4>3, Zenon
    <3> QED BY <2>1, <2>4, <3>1 DEF AnalyzeSockets, ReportInv
  <2> QED BY <1>1, <2>2, <2>3, <2>4
<1>2. CASE PrintReport
  <2>1. UNCHANGED <<Json, Summary, tcp, udp, sockets, args>>
    BY <1>2, SameResults DEF PrintReport, results
  <2>2. pc = "report" /\ pc' \in {"export", "done"}
    BY <1>2 DEF PrintReport, AfterJson
  <2>3. args.tests \subseteq Test
    BY DEF TypeOK, Args
  <2>4. /\ args.json => screen'.form = "json" /\ screen'.shows = Json
        /\ ~args.json => screen'.form = "terminal" /\ screen'.shows = Summary
    BY <1>2 DEF PrintReport
  <2> QED BY <2>1, <2>2, <2>3, <2>4 DEF ReportInv, Test
<1>3. ASSUME UNCHANGED <<args, tcp, udp, sockets, screen>>,
             pc' \in {"udp", "sockets", "report"} => pc' = pc
      PROVE  ReportInv'
  BY <1>3, SameResults DEF ReportInv
<1>4. CASE Echo \/ Handshake \/ PingEnds \/ PingFails \/ SynEnds
  BY <1>3, <1>4 DEF Echo, Handshake, PingEnds, PingFails, SynEnds, Tried, Measured, FallBack,
     results, outputs
<1>5. CASE OpenExport \/ WriteExport \/ WorldMoves \/ Kill \/ UNCHANGED vars
  BY <1>3, <1>5 DEF OpenExport, WriteExport, WorldMoves, Kill, vars, results, outputs
<1> QED BY <1>1, <1>2, <1>4, <1>5 DEF Next, Step

LEMMA OutputNext == ASSUME TypeOK, ReportInv, OutputInv, [Next]_vars PROVE OutputInv'
<1> USE DEF OutputInv
<1>1. CASE Echo \/ Handshake \/ PingEnds \/ PingFails \/ SynEnds
  BY <1>1 DEF Echo, Handshake, PingEnds, PingFails, SynEnds, Tried, Measured, FallBack, outputs
<1>2. CASE RunTcp \/ RunUdp \/ AnalyzeSockets
  BY <1>2 DEF RunTcp, RunUdp, AnalyzeSockets, outputs
<1>3. CASE PrintReport
  BY <1>3 DEF PrintReport, AfterJson
<1>4. CASE OpenExport
  BY <1>4 DEF OpenExport
<1>5. CASE WriteExport
  <2>1. UNCHANGED Markdown
    BY <1>5, SameResults DEF WriteExport, results
  <2> QED BY <1>5, <2>1 DEF WriteExport
<1>6. CASE WorldMoves \/ Kill \/ UNCHANGED vars
  <2>1. UNCHANGED Markdown
    BY <1>6, SameResults DEF WorldMoves, Kill, vars, results
  <2> QED BY <1>6, <2>1 DEF WorldMoves, Kill, vars, outputs
<1> QED BY <1>1, <1>2, <1>3, <1>4, <1>5, <1>6 DEF Next, Step

-----------------------------------------------------------------------------
(* The theorems *)

LEMMA InvInit == Init => Inv
<1> SUFFICES ASSUME Init PROVE Inv
  OBVIOUS
<1>1. TypeOK
  <2>1. args \in Args
    <3>1. PICK named \in SUBSET Test, json \in BOOLEAN, export \in BOOLEAN :
            args = [tests |-> IF named = {} THEN Test ELSE named, json |-> json, export |-> export]
      BY DEF Init
    <3>2. (IF named = {} THEN Test ELSE named) \in (SUBSET Test) \ {{}}
      <4>1. "tcp" \in Test
        BY DEF Test
      <4>2. CASE named = {}
        BY <4>1, <4>2
      <4>3. CASE named # {}
        BY <4>3
      <4> QED BY <4>2, <4>3
    <3> QED BY <3>1, <3>2 DEF Args
  <2>2. sent \in 0..Count /\ heard \in 0..sent /\ latency \in Latency
    BY CountAssumption DEF Init, Latency
  <2>3. Nothing \in Report
    BY DEF Nothing, Report, Shown
  <2>4. screen \in [form : {"none", "json", "terminal"}, shows : Report]
        /\ file \in [form : {"before", "truncated", "markdown"}, shows : Report]
    BY <2>3 DEF Init
  <2>5. pc \in PC /\ path \in Path /\ server \in Server /\ iperf \in BOOLEAN
        /\ accepting \in BOOLEAN
    BY DEF Init, PC, Accepts
  <2>6. tcp \in Benchmark /\ udp \in Benchmark \ {"TIMEOUT"} /\ sockets \in Analysis
    BY DEF Init, Benchmark, Analysis
  <2> QED BY <2>1, <2>2, <2>4, <2>5, <2>6 DEF TypeOK
<1>2. ProbeInv /\ ReportInv /\ OutputInv
  BY DEF Init, ProbeInv, VerdictSound, ReportInv, OutputInv
<1> QED BY <1>1, <1>2 DEF Inv

LEMMA InvHolds == Spec => []Inv
<1>1. Inv /\ [Next]_vars => Inv'
  BY TypeNext, ProbeNext, ReportNext, OutputNext DEF Inv
<1> QED BY <1>1, InvInit, PTL DEF Spec

\* Type correctness of the whole run, its counters within the packets asked for.
THEOREM TypeOKHolds == Spec => []TypeOK
<1>1. Inv => TypeOK
  BY DEF Inv
<1> QED BY <1>1, InvHolds, PTL

\* The probe's verdict for any number of packets and any course of the network.
THEOREM VerdictsAreSound == Spec => []VerdictSound
<1>1. Inv => VerdictSound
  BY DEF Inv, ProbeInv
<1> QED BY <1>1, InvHolds, PTL

\* What the terminal and JSON leave out of a report.
THEOREM OnlyUdpIsOmitted == Spec => []OmitsOnlyFailedUdp
<1>1. ASSUME Inv PROVE OmitsOnlyFailedUdp
  <2>1. SUFFICES ASSUME NEW t \in Test, screen.form # "none", t \in args.tests
                 PROVE  \/ screen.shows[t] # "absent"
                        \/ t = "udp" /\ udp # "SUCCESS" /\ screen.form = "terminal"
    BY DEF OmitsOnlyFailedUdp
  <2>r. /\ t = "tcp" => tcp # "none"
        /\ t = "udp" => udp # "none"
        /\ t = "sockets" => sockets[1] # "none"
    BY <1>1, <2>1 DEF Inv, ReportInv
  <2>2. CASE args.json
    <3>1. screen.shows = Json
      BY <1>1, <2>1, <2>2 DEF Inv, ReportInv
    <3>2. /\ Json.tcp = Full(tcp) /\ Json.udp = Full(udp)
          /\ Json.sockets = IF Analysed THEN Findings
                            ELSE IF sockets[1] = "none" THEN "absent" ELSE "error"
      BY DEF Json
    <3> QED BY <2>r, <3>1, <3>2 DEF Test, Full, Findings
  <2>3. CASE ~args.json
    <3>1. screen.shows = Summary /\ screen.form = "terminal"
      BY <1>1, <2>1, <2>3 DEF Inv, ReportInv
    <3>2. /\ Summary.tcp = Full(tcp) /\ Summary.udp = OnlySuccess(udp)
          /\ Summary.sockets = IF Analysed THEN Findings ELSE "error"
      BY DEF Summary
    <3> QED BY <2>r, <3>1, <3>2 DEF Test, Full, OnlySuccess, Findings
  <2> QED BY <2>2, <2>3
<1> QED BY <1>1, InvHolds, PTL

\* The exported file against the terminal.
THEOREM FileFollowsScreen == Spec => []FileAgrees
<1>1. ASSUME Inv PROVE FileAgrees
  <2>1. SUFFICES ASSUME file.form = "markdown", NEW t \in Test
                 PROVE  Markdown[t] = IF Summary[t] = "error" THEN "absent" ELSE Summary[t]
    BY <1>1 DEF Inv, ReportInv, OutputInv, FileAgrees
  <2>2. /\ Summary.tcp = Full(tcp) /\ Markdown.tcp = OnlySuccess(tcp)
        /\ Summary.udp = OnlySuccess(udp) /\ Markdown.udp = OnlySuccess(udp)
        /\ Summary.sockets = (IF Analysed THEN Findings ELSE "error")
        /\ Markdown.sockets = (IF Analysed THEN Findings ELSE "absent")
    BY DEF Summary, Markdown
  <2> QED BY <2>1, <2>2 DEF Test, Full, OnlySuccess, Findings
<1> QED BY <1>1, InvHolds, PTL

\* When there is an exported file, and when it is empty.
THEOREM ExportsAreExact == Spec => []ExportExact
<1>1. Inv => ExportExact
  BY DEF Inv, OutputInv, ExportExact
<1> QED BY <1>1, InvHolds, PTL

\* The most steps a run has left: ping's packets, then the handshakes that a
\* silent ping is followed by, then the tests and the reports.
StepsLeft ==
    CASE pc = "ping" -> (Count - sent) + Count + 9
      [] pc = "syn" -> (Count - sent) + 8
      [] pc = "tcp" -> 6 [] pc = "udp" -> 5 [] pc = "sockets" -> 4
      [] pc = "report" -> 3 [] pc = "export" -> 2 [] pc = "write" -> 1
      [] OTHER -> 0

RunCountsDown == /\ StepsLeft' <= StepsLeft
                 /\ Step => StepsLeft' < StepsLeft

LEMMA StepsLeftType == TypeOK => StepsLeft \in Nat
<1> SUFFICES ASSUME TypeOK PROVE StepsLeft \in Nat
  OBVIOUS
<1>1. Count \in Nat /\ sent \in 0..Count
  BY CountAssumption DEF TypeOK
<1>2. Count - sent \in Nat
  BY <1>1
<1> DEFINE d == Count - sent
<1> HIDE DEF d
<1> QED BY <1>1, <1>2 DEF StepsLeft, d

LEMMA StepCounts == ASSUME TypeOK, Step PROVE StepsLeft' < StepsLeft
<1>c. Count \in Nat /\ Count > 0 /\ sent \in 0..Count
  BY CountAssumption DEF TypeOK
<1>1. CASE Echo \/ Handshake
  <2>1. pc \in {"ping", "syn"} /\ pc' = pc /\ sent < Count /\ sent' = sent + 1
    BY <1>1 DEF Echo, Handshake, Tried
  <2>2. CASE pc = "ping"
    <3>1. StepsLeft = (Count - sent) + Count + 9 /\ StepsLeft' = (Count - sent') + Count + 9
      BY <2>1, <2>2 DEF StepsLeft
    <3> QED BY <1>c, <2>1, <3>1
  <2>3. CASE pc = "syn"
    <3>1. StepsLeft = (Count - sent) + 8 /\ StepsLeft' = (Count - sent') + 8
      BY <2>1, <2>3 DEF StepsLeft
    <3> QED BY <1>c, <2>1, <3>1
  <2> QED BY <2>1, <2>2, <2>3
<1>2. CASE PingEnds \/ PingFails
  <2>1. StepsLeft = (Count - sent) + Count + 9
    BY <1>2 DEF PingEnds, PingFails, StepsLeft
  <2>2. \/ pc' = "syn" /\ sent' = 0
        \/ pc' = "tcp"
    BY <1>2 DEF PingEnds, PingFails, FallBack, Measured
  <2>3. StepsLeft' \in {(Count - 0) + 8, 6}
    BY <2>2 DEF StepsLeft
  <2> QED BY <1>c, <2>1, <2>3
<1>3. CASE SynEnds
  <2>1. StepsLeft = (Count - sent) + 8 /\ StepsLeft' = 6
    BY <1>3 DEF SynEnds, Measured, StepsLeft
  <2> QED BY <1>c, <2>1
<1>4. CASE RunTcp \/ RunUdp \/ AnalyzeSockets
  <2>1. \/ pc = "tcp" /\ pc' = "udp"
        \/ pc = "udp" /\ pc' = "sockets"
        \/ pc = "sockets" /\ pc' = "report"
    BY <1>4 DEF RunTcp, RunUdp, AnalyzeSockets
  <2> QED BY <2>1 DEF StepsLeft
<1>5. CASE PrintReport \/ OpenExport \/ WriteExport
  BY <1>5 DEF PrintReport, AfterJson, OpenExport, WriteExport, StepsLeft
<1> QED BY <1>1, <1>2, <1>3, <1>4, <1>5 DEF Step

\* A run takes a bounded number of steps, twice the packets of a probe and nine
\* more at most, whatever the path, the target and its server do meanwhile: no
\* answer and no failure makes the program try a probe or a test once more.
THEOREM RunsAreBounded == Spec => [][RunCountsDown]_vars
<1>1. ASSUME TypeOK, [Next]_vars, (StepsLeft \in Nat)' PROVE RunCountsDown
  <2>1. CASE Step
    BY <2>1, <1>1, StepsLeftType, StepCounts DEF RunCountsDown
  <2>2. CASE ~Step /\ (WorldMoves \/ UNCHANGED vars)
    <3>1. pc' = pc /\ sent' = sent
      BY <2>2 DEF WorldMoves, vars
    <3>2. StepsLeft' = StepsLeft
      BY <3>1 DEF StepsLeft
    <3> QED BY <2>2, <3>2, <1>1, StepsLeftType DEF RunCountsDown
  <2>3. CASE ~Step /\ Kill
    <3>1. StepsLeft' = 0
      BY <2>3 DEF Kill, StepsLeft
    <3> QED BY <2>3, <3>1, <1>1, StepsLeftType DEF RunCountsDown
  <2> QED BY <1>1, <2>1, <2>2, <2>3 DEF Next
<1> QED BY <1>1, StepsLeftType, TypeOKHolds, PTL DEF Spec

-----------------------------------------------------------------------------
(* SocketAnalyzer: a count of words is compared with the count of sockets: *)
(* the rows are sockets, and a word stands for one state at most.          *)


\* A report of an analysis never counts more in one of the three states than there
\* was, and netstat's counts are exact.
AnalysisInv ==
    /\ NoFalseAlarm
    /\ NetstatExact
    /\ BreakdownComplete

SocketInv == SocketTypeOK /\ AnalysisInv

Judged == {"CLOSE_WAIT", "TIME_WAIT", "SYN_SENT"}

-----------------------------------------------------------------------------
(* Counting *)

In(st) == {s \in Socket : table[s].state = st}

LEMMA CountType ==
    ASSUME NEW A \in SUBSET Socket
    PROVE  /\ IsFiniteSet(A) /\ Cardinality(A) \in 0..Cardinality(Socket)
           /\ \A B \in SUBSET A : Cardinality(B) <= Cardinality(A) /\ Cardinality(B) \in Nat
<1>1. IsFiniteSet(A) /\ Cardinality(A) <= Cardinality(Socket) /\ Cardinality(Socket) \in Nat
  BY SocketAssumption, FS_Subset, FS_CardinalityType
<1>2. \A B \in SUBSET A : IsFiniteSet(B) /\ Cardinality(B) <= Cardinality(A)
  BY <1>1, FS_Subset
<1> QED BY <1>1, <1>2, FS_CardinalityType

LEMMA ListingType ==
    /\ Listing(table) \in [State -> 0..Cardinality(Socket)]
    /\ \A st \in State : Listing(table)[st] = Cardinality(In(st))
<1>1. \A st \in State : In(st) \in SUBSET Socket
  BY DEF In
<1>2. \A st \in State : Cardinality(In(st)) \in 0..Cardinality(Socket)
  BY <1>1, CountType
<1>3. Listing(table) = [st \in State |-> Cardinality(In(st))]
  BY DEF Listing, In
<1> QED BY <1>2, <1>3

LEMMA Words ==
    /\ \A st \in State : SsState[st] \notin Judged
    /\ \A st \in State : NetstatWord[st] \in {st, "PROGRAM"}
    /\ tool = "netstat" => \A st \in State : NetstatWord[st] = st
    /\ Judged \subseteq State /\ State \subseteq Word /\ "PROGRAM" \notin State
BY DEF SsState, SsWord, NetstatWord, State, Word, Judged

\* A counter of rows that are sockets, in words that stand for one judged state at most.
LEMMA CountsType ==
    ASSUME NEW rows \in SUBSET Socket, NEW word
    PROVE  /\ StateCounts(rows, word) \in [Word -> Nat]
           /\ \A w \in Word : StateCounts(rows, word)[w]
                                = Cardinality({s \in rows : word[table[s].state] = w})
<1>1. \A w \in Word : Cardinality({s \in rows : word[table[s].state] = w}) \in Nat
  BY CountType
<1> QED BY <1>1 DEF StateCounts

LEMMA CountsBounded ==
    ASSUME SocketTypeOK, NEW rows \in SUBSET Open, NEW word \in {SsState, NetstatWord}, NEW st \in Judged
    PROVE  StateCounts(rows, word)[st] <= Cardinality(In(st))
<1> DEFINE counted == {s \in rows : word[table[s].state] = st}
<1>1. rows \subseteq Socket /\ \A s \in rows : table[s].state \in State
  BY DEF Open, SocketTypeOK, Entry
<1>2. counted \subseteq In(st)
  BY <1>1, Words DEF In
<1>3. Cardinality(counted) <= Cardinality(In(st))
  BY <1>2, CountType DEF In
<1>4. StateCounts(rows, word)[st] = Cardinality(counted)
  BY <1>1, Words DEF StateCounts
<1> QED BY <1>3, <1>4

LEMMA NetstatCounts ==
    ASSUME SocketTypeOK, tool = "netstat", NEW st \in Judged
    PROVE  StateCounts(Open, NetstatWord)[st] = Cardinality(In(st))
<1>1. Open \subseteq Socket /\ \A s \in Open : table[s].state \in State
  BY DEF Open, SocketTypeOK, Entry
<1>2. st \in State /\ st # "closed"
  BY DEF Judged, State
<1>3. {s \in Open : NetstatWord[table[s].state] = st} = In(st)
  BY <1>1, <1>2, Words DEF In, Open
<1> QED BY <1>1, <1>2, <1>3, Words, CountsType

LEMMA NothingCounted == ASSUME NEW word PROVE StateCounts({}, word) = NoCount
<1>1. \A w : {s \in {} : word[table[s].state] = w} = {}
  OBVIOUS
<1> QED BY <1>1, FS_EmptySet DEF StateCounts, NoCount

-----------------------------------------------------------------------------
(* Adding up *)

\* Any nonempty set of naturals has a least element.
LEMMA LeastNat ==
    ASSUME NEW B \in SUBSET Nat, B # {}
    PROVE  \E n \in B : \A m \in B : n <= m
<1>1. \E n \in B : \A m \in B : ~(<<m, n>> \in OpToRel(<, Nat))
  BY NatLessThanWellFounded, WFMin
<1>2. \A m, n \in Nat : m < n => <<m, n>> \in OpToRel(<, Nat)
  BY DEF OpToRel
<1>3. PICK n \in B : \A m \in B : ~(<<m, n>> \in OpToRel(<, Nat))
  BY <1>1
<1>4. \A m \in B : ~(m < n)
  BY <1>2, <1>3
<1> QED BY <1>4

\* Total adds the counts one word at a time: how it picks the next one, and what
\* remains to be added.
Pick(s) == CHOOSE x \in s : TRUE
IsSumming(g, c) ==
    g = [s \in SUBSET (DOMAIN c) |-> IF s = {} THEN 0 ELSE c[Pick(s)] + g[s \ {Pick(s)}]]

LEMMA TotalUnfolds ==
    ASSUME NEW c
    PROVE  Total(c) = (CHOOSE g : IsSumming(g, c))[DOMAIN c]
BY DEF Total, FoldFunction, FoldFunctionOnSet, MapThenFoldSet, IsSumming, Pick

LEMMA SummingUnique ==
    ASSUME NEW c, IsFiniteSet(DOMAIN c), NEW g, IsSumming(g, c), NEW h, IsSumming(h, c)
    PROVE  g[DOMAIN c] = h[DOMAIN c]
<1> DEFINE D == DOMAIN c
           Differ == {s \in SUBSET D : g[s] # h[s]}
           Sizes == {Cardinality(s) : s \in Differ}
<1>1. \A s \in SUBSET D : IsFiniteSet(s) /\ Cardinality(s) \in Nat
  BY FS_Subset, FS_CardinalityType
<1>2. \A s \in SUBSET D : g[s] = IF s = {} THEN 0 ELSE c[Pick(s)] + g[s \ {Pick(s)}]
  BY DEF IsSumming
<1>3. \A s \in SUBSET D : h[s] = IF s = {} THEN 0 ELSE c[Pick(s)] + h[s \ {Pick(s)}]
  BY DEF IsSumming
<1>4. CASE Differ # {}
  <2>1. Sizes \in SUBSET Nat /\ Sizes # {}
    BY <1>1, <1>4
  <2>2. PICK s \in Differ : \A t \in Differ : Cardinality(s) <= Cardinality(t)
    <3>1. PICK n \in Sizes : \A m \in Sizes : n <= m
      BY <2>1, LeastNat
    <3> QED BY <3>1
  <2>3. s # {} /\ s \in SUBSET D
    BY <1>2, <1>3
  <2>4. Pick(s) \in s
    BY <2>3 DEF Pick
  <2>5. s \ {Pick(s)} \notin Differ
    <3>1. Cardinality(s \ {Pick(s)}) = Cardinality(s) - 1
      BY <1>1, <2>3, <2>4, FS_RemoveElement
    <3> QED BY <1>1, <2>2, <2>3, <3>1
  <2> QED BY <1>2, <1>3, <2>3, <2>5
<1> QED BY <1>4

\* The total of the counts of several words is the count of all of them.
LEMMA TotalOfCounts ==
    ASSUME NEW D, IsFiniteSet(D), NEW R, IsFiniteSet(R), NEW w, NEW c,
           c = [d \in D |-> Cardinality({r \in R : w[r] = d})]
    PROVE  Total(c) = Cardinality({r \in R : w[r] \in D})
<1> DEFINE With(s) == {r \in R : w[r] \in s}
           g == [s \in SUBSET D |-> Cardinality(With(s))]
<1>1. \A s : IsFiniteSet(With(s)) /\ Cardinality(With(s)) \in Nat
  BY FS_Subset, FS_CardinalityType
<1>2. ASSUME NEW s \in SUBSET D, s # {}
      PROVE  g[s] = c[Pick(s)] + g[s \ {Pick(s)}]
  <2> DEFINE x == Pick(s)
             One == {r \in R : w[r] = x}
  <2>1. x \in s
    BY <1>2 DEF Pick
  <2> HIDE DEF x
  <2>2. /\ With(s) = One \union With(s \ {x})
        /\ One \intersect With(s \ {x}) = {}
    BY <2>1
  <2>3. IsFiniteSet(One) /\ Cardinality(One) \in Nat
    BY FS_Subset, FS_CardinalityType
  <2>4. Cardinality(With(s)) = Cardinality(One) + Cardinality(With(s \ {x}))
    <3>1. /\ IsFiniteSet(With(s \ {x})) /\ Cardinality(With(s \ {x})) \in Nat
          /\ Cardinality({}) = 0
      BY <1>1, FS_EmptySet
    <3> HIDE DEF With, One
    <3>2. Cardinality(One \union With(s \ {x}))
            = Cardinality(One) + Cardinality(With(s \ {x})) - Cardinality(One \intersect With(s \ {x}))
      BY <2>3, <3>1, FS_Union
    <3>3. Cardinality(With(s)) = Cardinality(One) + Cardinality(With(s \ {x})) - Cardinality({})
      BY <2>2, <3>2, Zenon
    <3> QED BY <2>3, <3>1, <3>3
  <2>5. c[x] = Cardinality(One)
    BY <2>1
  <2>6. g[s] = Cardinality(With(s)) /\ g[s \ {x}] = Cardinality(With(s \ {x}))
    OBVIOUS
  <2> QED BY <2>4, <2>5, <2>6 DEF x
<1>3. g[{}] = 0
  <2>1. With({}) = {}
    OBVIOUS
  <2> QED BY <2>1, FS_EmptySet
<1>4. DOMAIN c = D
  OBVIOUS
<1>5. IsSumming(g, c)
  <2>1. \A s \in SUBSET D : g[s] = IF s = {} THEN 0 ELSE c[Pick(s)] + g[s \ {Pick(s)}]
    BY <1>2, <1>3
  <2>2. g = [s \in SUBSET D |-> g[s]]
    OBVIOUS
  <2> HIDE DEF g
  <2> QED BY <1>4, <2>1, <2>2 DEF IsSumming
<1>6. g[D] = Cardinality(With(D))
  OBVIOUS
<1> HIDE DEF g
<1>7. (CHOOSE h : IsSumming(h, c))[D] = g[D]
  BY <1>4, <1>5, SummingUnique
<1> QED BY <1>4, <1>6, <1>7, TotalUnfolds

LEMMA FiveAreFinite == ASSUME NEW a, NEW b, NEW c, NEW d, NEW e PROVE IsFiniteSet({a, b, c, d, e})
<1>1. \A x : IsFiniteSet({x})
  BY FS_Singleton
<1>2. IsFiniteSet({a} \union {b})
  BY <1>1, FS_Union
<1>3. IsFiniteSet(({a} \union {b}) \union {c})
  BY <1>1, <1>2, FS_Union
<1>4. IsFiniteSet((({a} \union {b}) \union {c}) \union {d})
  BY <1>1, <1>3, FS_Union
<1>5. IsFiniteSet(((({a} \union {b}) \union {c}) \union {d}) \union {e})
  BY <1>1, <1>4, FS_Union
<1>6. {a, b, c, d, e} = ((({a} \union {b}) \union {c}) \union {d}) \union {e}
  OBVIOUS
<1> QED BY <1>5, <1>6

LEMMA WordsAreFinite == IsFiniteSet(State) /\ IsFiniteSet(Word)
<1>1. IsFiniteSet(State)
  BY FiveAreFinite DEF State
<1>2. IsFiniteSet({"ESTAB", "TIME-WAIT", "CLOSE-WAIT", "SYN-SENT", "PROGRAM"})
  BY FiveAreFinite
<1> QED BY <1>1, <1>2, FS_Union DEF Word

\* Each row is counted once, each open socket was listed once.
LEMMA RowsAddUp ==
    ASSUME SocketTypeOK, NEW word \in {SsState, NetstatWord}
    PROVE  Total(StateCounts(Open, word)) = Cardinality(Open)
<1> DEFINE w == [s \in Open |-> word[table[s].state]]
<1>1. Open \subseteq Socket /\ \A s \in Open : table[s].state \in State
  BY DEF Open, SocketTypeOK, Entry
<1>2. \A st \in State : word[st] \in Word
  BY DEF SsState, SsWord, NetstatWord, State, Word
<1>3. {s \in Open : w[s] \in Word} = Open
  BY <1>1, <1>2
<1>4. StateCounts(Open, word) = [d \in Word |-> Cardinality({s \in Open : w[s] = d})]
  <2>1. \A d : {s \in Open : word[table[s].state] = d} = {s \in Open : w[s] = d}
    OBVIOUS
  <2> QED BY <2>1 DEF StateCounts
<1>5. IsFiniteSet(Open)
  BY <1>1, CountType
<1> HIDE DEF w
<1> QED BY <1>3, <1>4, <1>5, WordsAreFinite, TotalOfCounts

LEMMA ListingAddsUp == ASSUME SocketTypeOK PROVE Total(Listing(table)) = Cardinality(Open)
<1> DEFINE w == [s \in Socket |-> table[s].state]
<1>1. {s \in Socket : w[s] \in State} = Open
  <2>1. \A s \in Socket : table[s].state \in State <=> table[s].state # "closed"
    BY DEF SocketTypeOK, Entry, State
  <2> QED BY <2>1 DEF Open
<1>2. Listing(table) = [st \in State |-> Cardinality({s \in Socket : w[s] = st})]
  <2>1. \A st : {s \in Socket : table[s].state = st} = {s \in Socket : w[s] = st}
    OBVIOUS
  <2> QED BY <2>1 DEF Listing
<1>3. IsFiniteSet(Socket)
  BY SocketAssumption
<1> HIDE DEF w
<1> QED BY <1>1, <1>2, <1>3, WordsAreFinite, TotalOfCounts

LEMMA EstablishedCounts ==
    ASSUME SocketTypeOK, NEW word, word = SsState \/ (word = NetstatWord /\ tool # "netstat-p")
    PROVE  StateCounts(Open, word)["ESTABLISHED"] = Listing(table)["ESTABLISHED"]
<1>1. Open \subseteq Socket /\ \A s \in Open : table[s].state \in State
  BY DEF Open, SocketTypeOK, Entry
<1>2. \A st \in State : word[st] = "ESTABLISHED" <=> st = "ESTABLISHED"
  BY DEF SsState, SsWord, NetstatWord, State
<1>3. "ESTABLISHED" \in State /\ "ESTABLISHED" \in Word
  BY DEF State, Word
<1>4. {s \in Open : word[table[s].state] = "ESTABLISHED"} = In("ESTABLISHED")
  BY <1>1, <1>2 DEF In, Open
<1>5. StateCounts(Open, word)["ESTABLISHED"]
        = Cardinality({s \in Open : word[table[s].state] = "ESTABLISHED"})
  BY <1>3 DEF StateCounts
<1> QED BY <1>3, <1>4, <1>5, ListingType

-----------------------------------------------------------------------------
(* One analysis *)

\* What is to be shown of a report, against what was listed for it.
Sound(r) == r.diagnostics \intersect {"leak", "time_wait", "syn_sent"} \subseteq Exceeded'

LEMMA NoAnalysisType ==
    ASSUME NEW status \in {"none", "EMPTY", "ERROR", "UNAVAILABLE"}
    PROVE  /\ NoAnalysis(status) \in SocketReport
           /\ NoAnalysis(status).diagnostics = {} /\ NoAnalysis(status).breakdown = NoCount
<1>1. NoCount \in [Word -> Nat]
  BY DEF NoCount
<1> QED BY <1>1 DEF NoAnalysis, SocketReport

LEMMA EvaluateType ==
    ASSUME NEW counts \in [Word -> Nat], NEW hr, NEW hs
    PROVE  /\ EvaluateHealth(counts, hr, hs) \in SocketReport
           /\ EvaluateHealth(counts, hr, hs).breakdown = counts
           /\ EvaluateHealth(counts, hr, hs).diagnostics = Diagnoses(counts, hr, hs)
           /\ EvaluateHealth(counts, hr, hs).status =
                (IF Diagnoses(counts, hr, hs) \subseteq {"recv", "send"} THEN "HEALTHY" ELSE "WARNING")
<1>1. Diagnoses(counts, hr, hs) \subseteq Diagnosis
  BY DEF Diagnoses
<1> QED BY <1>1 DEF EvaluateHealth, SocketReport

\* Counts that are bounded by what is listed raise no false alarm.
LEMMA BoundedIsSound ==
    ASSUME NEW counts \in [Word -> Nat], NEW hr, NEW hs, listed' = Listing(table),
           \A st \in Judged : counts[st] <= Cardinality(In(st))
    PROVE  Sound(EvaluateHealth(counts, hr, hs))
<1>1. \A st \in Judged : listed'[st] = Cardinality(In(st))
  BY ListingType, Words
<1>2. \A st \in Judged : counts[st] \in Nat /\ Cardinality(In(st)) \in Nat
  BY Words, CountType DEF In
<1>3. {MaxCloseWait, MaxTimeWait, MaxSynSent} \subseteq Nat
  BY SocketAssumption
<1> QED BY <1>1, <1>2, <1>3, EvaluateType DEF Sound, Diagnoses, Exceeded, Judged

LEMMA AnalyzeSound ==
    ASSUME SocketTypeOK, Analyze
    PROVE  /\ report' \in SocketReport /\ NoFalseAlarm'
           /\ tool = "netstat" /\ report'.breakdown # NoCount =>
                \E hr, hs : report' = EvaluateHealth(StateCounts(Open, NetstatWord), hr, hs)
<1>1. Open \in SUBSET Socket /\ {} \in SUBSET Open
  BY DEF Open
<1>2. ASSUME NEW status \in {"none", "EMPTY", "ERROR", "UNAVAILABLE"}, report' = NoAnalysis(status)
      PROVE  report' \in SocketReport /\ NoFalseAlarm' /\ report'.breakdown = NoCount
  BY <1>2, NoAnalysisType DEF NoFalseAlarm
<1>3. ASSUME NEW rows \in {Open, {}}, NEW word \in {SsState, NetstatWord}, NEW hr, NEW hs,
             report' = EvaluateHealth(StateCounts(rows, word), hr, hs)
      PROVE  /\ report' \in SocketReport /\ NoFalseAlarm'
             /\ report'.breakdown = StateCounts(rows, word)
  <2>1. StateCounts(rows, word) \in [Word -> Nat]
    BY <1>1, CountsType
  <2>2. Sound(EvaluateHealth(StateCounts(rows, word), hr, hs))
    BY <1>1, <2>1, CountsBounded, BoundedIsSound DEF Analyze
  <2> QED BY <1>3, <2>1, <2>2, EvaluateType DEF Sound, NoFalseAlarm
<1>4. CASE report' = NoAnalysis("UNAVAILABLE") \/ report' = NoAnalysis("ERROR")
  BY <1>2, <1>4
<1>5. ASSUME NEW rows \in {Open, {}}, tool = "ss", report' = AnalyzeViaSs(rows)
      PROVE  report' \in SocketReport /\ NoFalseAlarm'
  BY <1>2, <1>3, <1>5 DEF AnalyzeViaSs
<1>6. ASSUME NEW rows \in {Open, {}}, report' = AnalyzeViaNetstat(rows)
      PROVE  /\ report' \in SocketReport /\ NoFalseAlarm'
             /\ report'.breakdown # NoCount => rows = Open
  BY <1>3, <1>6, NothingCounted DEF AnalyzeViaNetstat
<1> QED BY <1>4, <1>2, <1>5, <1>6 DEF Analyze, AnalyzeViaNetstat

LEMMA AnalyzeNetstat ==
    ASSUME SocketTypeOK, Analyze PROVE NetstatExact'
<1> SUFFICES ASSUME tool' = "netstat", report'.breakdown # NoCount
             PROVE  /\ Exceeded' \subseteq report'.diagnostics
                    /\ report'.status = "WARNING" <=> Exceeded' # {}
  BY DEF NetstatExact, NoCount
<1> DEFINE counts == StateCounts(Open, NetstatWord)
<1>1. PICK hr, hs : report' = EvaluateHealth(counts, hr, hs)
  BY AnalyzeSound DEF Analyze
<1>2. \A st \in Judged : counts[st] = listed'[st]
  BY NetstatCounts, ListingType, Words DEF Analyze
<1>3. counts \in [Word -> Nat]
  BY CountsType DEF Open
<1> HIDE DEF counts
<1>4. {d \in Diagnoses(counts, hr, hs) : d \notin {"recv", "send"}} = Exceeded'
  BY <1>2 DEF Diagnoses, Exceeded, Judged, Diagnosis
<1> QED BY <1>1, <1>3, <1>4, EvaluateType

LEMMA AnalyzeBreakdown ==
    ASSUME SocketTypeOK, Analyze
    PROVE  \/ report'.breakdown = NoCount
           \/ report'.breakdown = StateCounts(Open, SsState)
           \/ tool # "ss" /\ report'.breakdown = StateCounts(Open, NetstatWord)
<1>1. \A status \in {"EMPTY", "ERROR", "UNAVAILABLE"} : NoAnalysis(status).breakdown = NoCount
  BY NoAnalysisType
<1>2. ASSUME NEW rows \in {Open, {}}, report' = AnalyzeViaSs(rows)
      PROVE  report'.breakdown = NoCount \/ report'.breakdown = StateCounts(Open, SsState)
  BY <1>1, <1>2, NothingCounted DEF AnalyzeViaSs, EvaluateHealth
<1>3. ASSUME NEW rows \in {Open, {}}, report' = AnalyzeViaNetstat(rows)
      PROVE  report'.breakdown = NoCount \/ report'.breakdown = StateCounts(Open, NetstatWord)
  BY <1>3, NothingCounted DEF AnalyzeViaNetstat, EvaluateHealth
<1> QED BY <1>1, <1>2, <1>3 DEF Analyze

LEMMA AnalyzeComplete == ASSUME SocketTypeOK, Analyze PROVE BreakdownComplete'
<1> SUFFICES ASSUME report'.breakdown # NoCount
             PROVE  /\ Total(report'.breakdown) = Total(listed')
                    /\ tool # "netstat-p" =>
                         report'.breakdown["ESTABLISHED"] = listed'["ESTABLISHED"]
  BY DEF BreakdownComplete, NoCount, Analyze
<1>1. PICK word \in {SsState, NetstatWord} : report'.breakdown = StateCounts(Open, word)
  BY AnalyzeBreakdown
<1>2. listed' = Listing(table)
  BY DEF Analyze
<1> QED BY <1>1, <1>2, RowsAddUp, ListingAddsUp, EstablishedCounts

-----------------------------------------------------------------------------
(* The theorems *)

LEMMA SocketInvInit == SocketInit => SocketInv
<1> SUFFICES ASSUME SocketInit PROVE SocketInv
  OBVIOUS
<1>1. table \in [Socket -> Entry]
  BY DEF SocketInit, Closed, Entry
<1>2. SocketTypeOK
  BY <1>1, ListingType, NoAnalysisType DEF SocketInit, SocketTypeOK
<1>3. AnalysisInv
  BY NoAnalysisType DEF SocketInit, AnalysisInv, NoFalseAlarm, NetstatExact, BreakdownComplete
<1> QED BY <1>2, <1>3 DEF SocketInv

LEMMA SocketInvNext == ASSUME SocketInv, [SocketNext]_socketVars PROVE SocketInv'
<1>1. CASE Analyze
  <2>1. SocketTypeOK'
    BY <1>1, AnalyzeSound, ListingType DEF SocketInv, SocketTypeOK, Analyze
  <2> QED BY <1>1, <2>1, AnalyzeSound, AnalyzeNetstat, AnalyzeComplete DEF SocketInv, AnalysisInv
<1>2. ASSUME NEW s \in Socket, SocketMoves(s) PROVE SocketInv'
  <2>1. PICK new \in Follows[table[s].state], recv \in BOOLEAN, send \in BOOLEAN :
          table' = [table EXCEPT ![s] = [state |-> new, recv |-> recv, send |-> send]]
    BY <1>2 DEF SocketMoves
  <2>2. \A st \in State \union {"closed"} : Follows[st] \subseteq State \union {"closed"}
    BY DEF Follows, State
  <2>3. table' \in [Socket -> Entry]
    BY <2>1, <2>2 DEF SocketInv, SocketTypeOK, Entry
  <2>4. UNCHANGED <<tool, listed, report>>
    BY <1>2 DEF SocketMoves
  <2> QED BY <2>3, <2>4 DEF SocketInv, SocketTypeOK, AnalysisInv, NoFalseAlarm, NetstatExact, BreakdownComplete, Exceeded
<1>3. CASE UNCHANGED socketVars
  BY <1>3 DEF socketVars, SocketInv, SocketTypeOK, AnalysisInv, NoFalseAlarm, NetstatExact, BreakdownComplete, Exceeded
<1> QED BY <1>1, <1>2, <1>3 DEF SocketNext

LEMMA SocketInvHolds == SocketSpec => []SocketInv
BY SocketInvInit, SocketInvNext, PTL DEF SocketSpec

\* Type correctness of the host and of every report.
THEOREM SocketTypeOKHolds == SocketSpec => []SocketTypeOK
<1>1. SocketInv => SocketTypeOK
  BY DEF SocketInv
<1> QED BY <1>1, SocketInvHolds, PTL

\* No analysis of any host diagnoses a state that was not there in excess.
THEOREM AlarmsAreTrue == SocketSpec => []NoFalseAlarm
<1>1. SocketInv => NoFalseAlarm
  BY DEF SocketInv, AnalysisInv
<1> QED BY <1>1, SocketInvHolds, PTL

\* Through netstat without its -p, the three diagnoses and the status are exact.
THEOREM NetstatIsExact == SocketSpec => []NetstatExact
<1>1. SocketInv => NetstatExact
  BY DEF SocketInv, AnalysisInv
<1> QED BY <1>1, SocketInvHolds, PTL

\* Every socket that was listed is counted, under one word, whatever the host has.
THEOREM BreakdownsAreComplete == SocketSpec => []BreakdownComplete
<1>1. SocketInv => BreakdownComplete
  BY DEF SocketInv, AnalysisInv
<1> QED BY <1>1, SocketInvHolds, PTL

=============================================================================
