----------------------------- MODULE LogRotation -----------------------------
(***************************************************************************)
(* The JSON log of daemon/alerts.py under the logrotate stanza of          *)
(* reliability/logrotate/syshealthd.logrotate. A dispatcher opens its file *)
(* once, when its process starts, and writes to that inode until the       *)
(* process ends. logrotate renames the file, compresses the one renamed    *)
(* the time before and signals the daemon, whose reload keeps the handler. *)
(* A rotation is one step: a record written or a log opened while it is    *)
(* under way counts as written or opened before it or after it.            *)
(***************************************************************************)
EXTENDS Naturals, Sequences, FiniteSets

CONSTANTS
    Proc,         \* processes with a dispatcher: the service, foreground monitors
    Keep,         \* "rotate 14": how many renamed files are kept
    MaxRecords,   \* bound on the records dispatched
    MaxOpens,     \* bound on the starts of processes
    NoFile,       \* no handler: the process is not running, or could open no file
    Fallback      \* fallback_log_file in the working directory; nothing rotates it

ASSUME RotationAssumption ==
    /\ Keep \in Nat \ {0}
    /\ MaxRecords \in Nat /\ MaxOpens \in Nat
    /\ NoFile \notin Nat /\ Fallback \notin Nat /\ NoFile # Fallback

VARIABLES
    files,        \* syshealthd.log, .1, .2.gz, ...: the inode and the records of each
    handle,       \* the inode that each process's handler has open
    hup,          \* processes that the postrotate script has signalled
    inodes,       \* inodes given out so far
    \* History, read by properties only:
    record,       \* what is known of each record when it is written
    since,        \* rotations since each process opened its log
    rotations,    \* rotations so far
    opens         \* starts of processes so far

vars == <<files, handle, hup, inodes, record, since, rotations, opens>>

File   == [ino : Nat, recs : SUBSET (1..MaxRecords)]
\* The writer's handler was `since` rotations old, and it was the rotation `at`.
Record == [to : {"log", "fallback"}, since : Nat, at : Nat]

TypeOK ==
    /\ files \in Seq(File) /\ Len(files) <= Keep + 1
    /\ handle \in [Proc -> Nat \union {NoFile, Fallback}]
    /\ hup \subseteq Proc
    /\ inodes \in Nat
    /\ record \in Seq(Record)
    /\ since \in [Proc -> Nat]
    /\ rotations \in Nat /\ opens \in Nat

Init ==
    /\ files = <<>> /\ inodes = 0
    /\ handle = [p \in Proc |-> NoFile]
    /\ hup = {}
    /\ record = <<>> /\ since = [p \in Proc |-> 0] /\ rotations = 0 /\ opens = 0

Empty(ino) == [ino |-> ino, recs |-> {}]

-----------------------------------------------------------------------------
(* The dispatcher *)

\* AlertDispatcher.__init__: the log in /var/log when that directory can be
\* written (FileHandler appends, and creates the file), else the fallback; a
\* file that cannot be opened leaves the logger without a handler.
OpenLog(p) ==
    /\ handle[p] = NoFile /\ opens < MaxOpens
    /\ \/ IF files = <<>>
          THEN /\ files' = <<Empty(inodes + 1)>> /\ inodes' = inodes + 1
               /\ handle' = [handle EXCEPT ![p] = inodes + 1]
          ELSE /\ handle' = [handle EXCEPT ![p] = files[1].ino]
               /\ UNCHANGED <<files, inodes>>
       \/ /\ \E h \in {Fallback, NoFile} : handle' = [handle EXCEPT ![p] = h]
          /\ UNCHANGED <<files, inodes>>
    /\ since' = [since EXCEPT ![p] = 0]
    /\ opens' = opens + 1
    /\ UNCHANGED <<hup, record, rotations>>

\* dispatch: one line to the open inode, under whatever name it has now, or none.
Dispatch(p) ==
    /\ handle[p] # NoFile /\ Len(record) < MaxRecords
    /\ files' = [i \in DOMAIN files |->
                   IF files[i].ino = handle[p]
                   THEN [files[i] EXCEPT !.recs = @ \union {Len(record) + 1}] ELSE files[i]]
    /\ record' = Append(record, [to    |-> IF handle[p] = Fallback THEN "fallback" ELSE "log",
                                 since |-> since[p], at |-> rotations])
    /\ UNCHANGED <<handle, hup, inodes, since, rotations, opens>>

\* The reload that SIGHUP asked for: configuration and thresholds, no handler.
Reload(p) ==
    /\ p \in hup
    /\ hup' = hup \ {p}
    /\ UNCHANGED <<files, handle, inodes, record, since, rotations, opens>>

\* The end of a process, by a signal or a crash: every line is flushed by then.
Exit(p) ==
    /\ handle[p] # NoFile
    /\ handle' = [handle EXCEPT ![p] = NoFile]
    /\ hup' = hup \ {p}
    /\ UNCHANGED <<files, inodes, record, since, rotations, opens>>

-----------------------------------------------------------------------------
(* logrotate *)

\* Mutant: nocompress.
GzipInPlace(f) == f

\* gzip writes a new inode and unlinks the one it has read.
Gzip(f) == [f EXCEPT !.ino = inodes + 2]

\* Mutant: without delaycompress.
RotatedAtOnce ==
    [i \in 1..(IF Len(files) > Keep THEN Keep + 1 ELSE Len(files) + 1) |->
        CASE i = 1 -> Empty(inodes + 1)
          [] i = 2 -> Gzip(files[1])
          [] OTHER -> files[i - 1]]

\* rotate, create, compress and delaycompress: everything moves by one name, the
\* file that was .1 compressed, and what would be one too many is removed.
Rotated ==
    [i \in 1..(IF Len(files) > Keep THEN Keep + 1 ELSE Len(files) + 1) |->
        CASE i = 1 -> Empty(inodes + 1)
          [] i = 3 -> Gzip(files[2])
          [] OTHER -> files[i - 1]]

\* Mutant: ifempty.
DueIfEmpty == files # <<>>

\* missingok, notifempty.
Due == files # <<>> /\ files[1].recs # {}

\* Once a day; postrotate signals the process of the PID file, if there is one.
Rotate ==
    /\ Due
    /\ files' = Rotated
    /\ inodes' = inodes + 2
    /\ \E signalled \in SUBSET {p \in Proc : handle[p] # NoFile} :
         Cardinality(signalled) <= 1 /\ hup' = hup \union signalled
    /\ since' = [p \in Proc |-> since[p] + 1]
    /\ rotations' = rotations + 1
    /\ UNCHANGED <<handle, record, opens>>

Next ==
    \/ \E p \in Proc : OpenLog(p) \/ Dispatch(p) \/ Reload(p) \/ Exit(p)
    \/ Rotate

Spec == Init /\ [][Next]_vars

-----------------------------------------------------------------------------
(* What becomes of a record *)

\* alerts.py:41: a handler that has seen no rotation writes to syshealthd.log,
\* one that has seen one writes to .1, and an older one to a file without a name,
\* whatever reloads there have been.
HandlePlace ==
    \A p \in Proc : handle[p] \in Nat =>
        \A i \in DOMAIN files : files[i].ino = handle[p] <=> i = since[p] + 1 /\ i <= 2

\* "rotate 14" and "daily": a record is found in the log exactly as long as it is
\* not more than Keep rotations old, its writer's handler counted with its own
\* age, and never when that handler was two rotations old or more.
RetentionExact ==
    \A r \in DOMAIN record :
        (\E i \in DOMAIN files : r \in files[i].recs) <=>
            /\ record[r].to = "log" /\ record[r].since <= 1
            /\ (rotations - record[r].at) + record[r].since <= Keep

\* notifempty: the log is rotated at most once for each start of a process. A
\* daemon that is not restarted goes on filling the file that was renamed.
RotationNeedsStart == rotations <= opens

\* The log meets its contract: archives do not change, and go in their order.
Contract == INSTANCE LogContract
                WITH kept <- [i \in DOMAIN files |-> files[i].recs], written <- Len(record)
MeetsLogContract == Contract!LogSpec

=============================================================================
