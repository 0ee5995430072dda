--------------------------- MODULE SocketAnalyzer ---------------------------
(***************************************************************************)
(* diagnostics/sockets/socket_analyzer.py: the TCP sockets of the host go  *)
(* through their states, and at any moment an analyze() lists them with ss *)
(* or, when there is no ss, with netstat, counts the words in the state    *)
(* column and derives a status and diagnoses from the counts.              *)
(***************************************************************************)
EXTENDS Naturals, FiniteSets, Functions

CONSTANTS
    Socket,       \* the sockets the host may have
    Tools,        \* the tools the host may have, of "ss", "netstat", "netstat-p", "none"
    MaxCloseWait, \* the three counts above which a diagnosis is made: 10,
    MaxTimeWait,  \* 2000
    MaxSynSent    \* and 50 in the code

ASSUME SocketAssumption ==
    /\ Tools \subseteq {"ss", "netstat", "netstat-p", "none"}
    /\ {MaxCloseWait, MaxTimeWait, MaxSynSent} \subseteq Nat
    /\ IsFiniteSet(Socket)

VARIABLES
    table,        \* the host's sockets
    tool,         \* has_ss and has_netstat: the tool that analyze() will use
    listed,       \* history: what the host had when it was last analysed
    report        \* what the latest analysis returned

socketVars == <<table, tool, listed, report>>

State == {"ESTABLISHED", "LISTEN", "TIME_WAIT", "CLOSE_WAIT", "SYN_SENT"}
\* Whether the kernel's two queue figures of a socket exceed 1024. For a listener
\* the second one is not a queue but the limit of the first.
Entry == [state : State \union {"closed"}, recv : BOOLEAN, send : BOOLEAN]
Closed == [state |-> "closed", recv |-> FALSE, send |-> FALSE]

\* The words of either tool's state column, in upper case.
Word == State \union {"ESTAB", "TIME-WAIT", "CLOSE-WAIT", "SYN-SENT", "PROGRAM"}
Diagnosis == {"leak", "time_wait", "syn_sent", "recv", "send"}
SocketReport == [status : {"none", "HEALTHY", "WARNING", "EMPTY", "ERROR", "UNAVAILABLE"},
                 breakdown : [Word -> Nat], diagnostics : SUBSET Diagnosis]

\* The sockets in each state.
Listing(t) == [st \in State |-> Cardinality({s \in Socket : t[s].state = st})]

NoCount == [w \in Word |-> 0]
NoAnalysis(status) == [status |-> status, breakdown |-> NoCount, diagnostics |-> {}]

SocketTypeOK ==
    /\ table \in [Socket -> Entry]
    /\ listed \in [State -> 0..Cardinality(Socket)]
    /\ tool \in Tools
    /\ report \in SocketReport

SocketInit ==
    /\ table = [s \in Socket |-> Closed] /\ listed = Listing(table)
    /\ tool \in Tools
    /\ report = NoAnalysis("none")

-----------------------------------------------------------------------------
(* The host *)

Follows == [closed      |-> {"SYN_SENT", "ESTABLISHED", "LISTEN"},
            SYN_SENT    |-> {"ESTABLISHED", "closed"},
            ESTABLISHED |-> {"CLOSE_WAIT", "TIME_WAIT", "closed"},
            CLOSE_WAIT  |-> {"closed"},
            TIME_WAIT   |-> {"closed"},
            LISTEN      |-> {"closed"}]

\* A socket changes state. Only an open connection has bytes queued; a listener
\* has a backlog, and its limit.
SocketMoves(s) ==
    /\ \E new \in Follows[table[s].state], recv, send \in BOOLEAN :
         /\ new \in {"SYN_SENT", "TIME_WAIT", "closed"} => ~recv /\ ~send
         /\ table' = [table EXCEPT ![s] = [state |-> new, recv |-> recv, send |-> send]]
    /\ UNCHANGED <<tool, listed, report>>

\* What ss prints for a state: hyphens, and a short form of ESTABLISHED.
SsWord(state) ==
    CASE state = "ESTABLISHED" -> "ESTAB"
      [] state = "TIME_WAIT"   -> "TIME-WAIT"
      [] state = "CLOSE_WAIT"  -> "CLOSE-WAIT"
      [] state = "SYN_SENT"    -> "SYN-SENT"
      [] OTHER                 -> state

\* The last word of a netstat row: the state, or, on the hosts where -p appends
\* it ("netstat-p"), the program.
NetstatWord == [state \in State |-> IF tool = "netstat-p" THEN "PROGRAM" ELSE state]

-----------------------------------------------------------------------------
(* The analysis *)

Open == {s \in Socket : table[s].state # "closed"}

\* The counter of state words over the rows.
StateCounts(rows, word) ==
    [w \in Word |-> Cardinality({s \in rows : word[table[s].state] = w})]

\* Mutant: the words of ss are counted as they are.
SsStateAsPrinted == [state \in State |-> SsWord(state)]

\* The state of an ss row after the two normalisations.
SsState == [state \in State |-> IF SsWord(state) = "ESTAB" THEN "ESTABLISHED" ELSE SsWord(state)]

\* Mutant: a bound that is reached is exceeded.
DiagnosesAtBound(counts, highRecv, highSend) ==
    {d \in Diagnosis :
        \/ d = "leak"      /\ counts["CLOSE_WAIT"] >= MaxCloseWait
        \/ d = "time_wait" /\ counts["TIME_WAIT"] > MaxTimeWait
        \/ d = "syn_sent"  /\ counts["SYN_SENT"] > MaxSynSent
        \/ d = "recv"      /\ highRecv # {}
        \/ d = "send"      /\ highSend # {}}

\* The conditions of _evaluate_health, each with its diagnosis.
Diagnoses(counts, highRecv, highSend) ==
    {d \in Diagnosis :
        \/ d = "leak"      /\ counts["CLOSE_WAIT"] > MaxCloseWait
        \/ d = "time_wait" /\ counts["TIME_WAIT"] > MaxTimeWait
        \/ d = "syn_sent"  /\ counts["SYN_SENT"] > MaxSynSent
        \/ d = "recv"      /\ highRecv # {}
        \/ d = "send"      /\ highSend # {}}

\* Mutant: only a leak makes a warning.
EvaluateHealthLeakOnly(counts, highRecv, highSend) ==
    [status |-> IF "leak" \in Diagnoses(counts, highRecv, highSend)
                THEN "WARNING" ELSE "HEALTHY",
     breakdown |-> counts,
     diagnostics |-> Diagnoses(counts, highRecv, highSend)]

\* Backpressure is diagnosed and leaves the status as it is.
EvaluateHealth(counts, highRecv, highSend) ==
    LET found == Diagnoses(counts, highRecv, highSend)
    IN  [status |-> IF found \subseteq {"recv", "send"} THEN "HEALTHY" ELSE "WARNING",
         breakdown |-> counts,
         diagnostics |-> found]

\* The exit status of ss is not looked at: when it fails, it has printed nothing.
AnalyzeViaSs(rows) ==
    IF rows = {} THEN NoAnalysis("EMPTY")
    ELSE EvaluateHealth(StateCounts(rows, SsState),
                        {s \in rows : table[s].recv}, {s \in rows : table[s].send})

\* The queues are read from the rows and compared with nothing.
AnalyzeViaNetstat(rows) == EvaluateHealth(StateCounts(rows, NetstatWord), {}, {})

\* rows is everything, or nothing when the tool fails; one that does not start
\* or is stopped after 5 seconds raises.
Analyze ==
    /\ listed' = Listing(table)
    /\ \/ /\ tool = "none"
          /\ report' = NoAnalysis("UNAVAILABLE")
       \/ /\ tool # "none"
          /\ report' = NoAnalysis("ERROR")
       \/ /\ tool # "none"
          /\ \E rows \in {Open, {}} :
               report' = IF tool = "ss" THEN AnalyzeViaSs(rows) ELSE AnalyzeViaNetstat(rows)
    /\ UNCHANGED <<table, tool>>

SocketNext == Analyze \/ \E s \in Socket : SocketMoves(s)

SocketSpec == SocketInit /\ [][SocketNext]_socketVars

-----------------------------------------------------------------------------
(* What a report is worth *)

Exceeded == {d \in {"leak", "time_wait", "syn_sent"} :
                \/ d = "leak"      /\ listed["CLOSE_WAIT"] > MaxCloseWait
                \/ d = "time_wait" /\ listed["TIME_WAIT"] > MaxTimeWait
                \/ d = "syn_sent"  /\ listed["SYN_SENT"] > MaxSynSent}

\* A diagnosis of a state is never a false alarm, whichever tool gave the words
\* and whatever the host has done since.
NoFalseAlarm == report.diagnostics \intersect {"leak", "time_wait", "syn_sent"} \subseteq Exceeded

\* Where netstat ends its rows with the state, a WARNING means exactly that one
\* of the three bounds was exceeded in what was listed, and all are diagnosed.
NetstatExact ==
    tool = "netstat" /\ report.breakdown # NoCount =>
        /\ Exceeded \subseteq report.diagnostics
        /\ report.status = "WARNING" <=> Exceeded # {}

Total(counts) == FoldFunction(LAMBDA a, b : a + b, 0, counts)

\* Every socket that was listed is in the breakdown, under one word, and the
\* established ones are under ESTABLISHED whichever tool listed them.
BreakdownComplete ==
    report.breakdown # NoCount =>
        /\ Total(report.breakdown) = Total(listed)
        /\ tool # "netstat-p" => report.breakdown["ESTABLISHED"] = listed["ESTABLISHED"]

-----------------------------------------------------------------------------
(* What is said of the analyzer and does not hold *)

\* README.md:97, "detecting application socket leaks (lingering CLOSE_WAIT)": an
\* analysis of more CLOSE_WAIT sockets than the bound reports the leak.
LeakDetected ==
    report.breakdown # NoCount /\ "leak" \in Exceeded =>
        "leak" \in report.diagnostics

=============================================================================
