---------------------------- MODULE BackupManager ----------------------------
(***************************************************************************)
(* reliability/backup_manager.sh: invocations of backup, verify and prune  *)
(* on one backup directory. cron starts them, administrators start them by *)
(* hand, nothing keeps two of them apart, and each may be killed between   *)
(* any two of its commands. A stamp is the second at which a backup was    *)
(* started; it names its archive and the archive's signature.              *)
(***************************************************************************)
EXTENDS Naturals, FiniteSets

CONSTANTS
    Run,          \* invocations of the script, each of one command
    MaxTime,      \* bound on the clock
    Day,          \* ticks of the clock in a day
    Retention,    \* RETENTION_DAYS
    SameSecond,   \* whether two backups may start within one second
    Missing,      \* a file that does not exist
    Empty         \* a signature file with nothing in it

ASSUME BackupAssumption ==
    /\ MaxTime \in Nat \ {0} /\ Day \in Nat \ {0}
    /\ Retention \in Nat /\ SameSecond \in BOOLEAN

VARIABLES
    now,          \* the clock
    run,          \* where each invocation is, and its locals
    archive,      \* sysbackup_<stamp>.tar.gz, Missing when there is none
    sig,          \* sysbackup_<stamp>.tar.gz.sha256, likewise
    \* History, read by properties only:
    committed,    \* what a backup left under its stamp when it announced success
    quiet,        \* verifications that no other invocation has overlapped so far
    missed        \* expired archives that the find of an invocation did not list

hist == <<committed, quiet, missed>>
vars == <<now, run, archive, sig, hist>>

Time == 1..MaxTime

\* The bytes of an archive: what tar put there, and the run that put it last.
\* "dir" is the backup directory itself, "part" an unfinished archive, "mixed"
\* one that two writers have spoiled.
Whole   == {"targets", "dir"}
Content == [what : Whole \union {"part", "mixed"}, by : Run]
\* writers: the runs whose tar has this file open; shared: more than one had.
File    == [content : Content, mtime : Time, writers : SUBSET Run, shared : BOOLEAN]

ASSUME NoFileAssumption ==
    Missing \notin File \union Content \union {Empty} /\ Empty \notin Content

PC == {"idle", "tar", "tarring", "tar2", "tarring2", "integrity", "rmBad", "sign", "signing",
       "check", "commit", "prune", "rmArchive", "rmSig", "verify", "ok", "failed", "dead"}
Command == {"none", "backup", "verify", "prune"}
Local == [pc : PC, cmd : Command, stamp : Time \union {0}, todo : SUBSET Time,
          bad : SUBSET Time, at : Time \union {0}]

TypeOK ==
    /\ now \in Time
    /\ run \in [Run -> Local]
    /\ archive \in [Time -> File \union {Missing}]
    /\ sig \in [Time -> Content \union {Missing, Empty}]
    /\ committed \in [Time -> Content \union {Missing, Empty}]
    /\ quiet \subseteq Run
    /\ missed \in [Run -> SUBSET Time]

Init ==
    /\ now = 1
    /\ run = [r \in Run |-> [pc |-> "idle", cmd |-> "none", stamp |-> 0, todo |-> {}, bad |-> {},
                        at |-> 0]]
    /\ archive = [s \in Time |-> Missing]
    /\ sig = [s \in Time |-> Missing]
    /\ committed = [s \in Time |-> Missing]
    /\ quiet = {}
    /\ missed = [r \in Run |-> {}]

Over      == {"ok", "failed", "dead"}
Active    == {r \in Run : run[r].pc \notin Over \union {"idle"}}
At(r, l)  == run[r].pc = l
Goto(r, l) == run' = [run EXCEPT ![r].pc = l]
Mine(r)   == run[r].stamp

Exists(s) == archive[s] # Missing
IsWhole(s) == Exists(s) /\ archive[s].content.what \in Whole
\* sha256sum -c and tar -tzf both pass.
Sound(s)  == IsWhole(s) /\ sig[s] = archive[s].content
\* Mutant: the age is compared in seconds (-mmin) and not in days.
OldInTicks(mtime, at) == at - mtime > Retention * Day

\* Mutant: one day is added that find -mtime +N already adds.
OldLate(mtime, at) == (at - mtime) \div Day > Retention + 1

\* find -mtime +N drops the fraction of a day before it compares.
Old(mtime, at) == (at - mtime) \div Day > Retention

\* What comes of it: a file goes once it is a day older than the retention.
Lifetime == (Retention + 1) * Day

\* A file that is being written is never old.
Expired == {s \in Time : /\ Exists(s)
                         /\ archive[s].writers = {}
                         /\ Old(archive[s].mtime, now)}

-----------------------------------------------------------------------------
(* main *)

\* Mutant: date +%Y%m%d, without the time of day.
DayOnly == 1

\* date +%Y%m%d_%H%M%S, which is read once, when the script starts.
Timestamp == now

\* verify_all lists the signatures when it starts.
Start(r, cmd) ==
    /\ At(r, "idle")
    /\ cmd = "backup" /\ ~SameSecond =>
           \A q \in Run : run[q].cmd = "backup" => Mine(q) # now
    /\ run' = [run EXCEPT ![r] =
         [pc    |-> CASE cmd = "backup" -> "tar" [] OTHER -> cmd,
          cmd   |-> cmd,
          stamp |-> Timestamp,
          todo  |-> IF cmd = "verify" THEN {s \in Time : sig[s] # Missing} ELSE {},
          bad   |-> {},
          at    |-> 0]]
    /\ quiet' = IF cmd = "verify" /\ Active = {} THEN quiet \union {r} ELSE quiet \ Active
    /\ UNCHANGED <<now, archive, sig, committed, missed>>

-----------------------------------------------------------------------------
(* run_backup *)

\* tar opens the archive for writing: a new file, or the one at that name
\* truncated under whoever else is writing it.
Truncated(r) ==
    LET s == Mine(r)
        others == IF Exists(s) THEN archive[s].writers \ {r} ELSE {}
    IN  [archive EXCEPT ![s] = [content |-> [what |-> "part", by |-> r], mtime |-> now,
                                writers |-> others \union {r}, shared |-> others # {}]]

TarOpen(r) ==
    /\ \/ At(r, "tar")  /\ Goto(r, "tarring")
       \/ At(r, "tar2") /\ Goto(r, "tarring2")
    /\ archive' = Truncated(r)
    /\ UNCHANGED <<now, sig, hist>>

\* tar closes the archive, having written it all. Nothing happens to the file
\* under the name when another run has removed the one that r was writing; a
\* file with other writers is finished by the last of them.
Closed(r, what) ==
    LET s == Mine(r)
        f == archive[s]
    IN  IF ~Exists(s) \/ r \notin f.writers THEN {archive}
        ELSE LET left == f.writers \ {r}
                 outcome == IF left # {} THEN {"part"}
                            ELSE IF f.shared THEN {what, "mixed"} ELSE {what}
             IN  {[archive EXCEPT ![s] = [f EXCEPT !.content = [what |-> w, by |-> r],
                                                   !.mtime = now, !.writers = left]] :
                  w \in outcome}

\* The first tar succeeds, or fails (a target that changes while it is read, a
\* full disk), and the second one, of the backup directory, replaces it. When
\* that fails too, set -e ends the script and leaves what there is.
TarClose(r) ==
    /\ \/ /\ At(r, "tarring")
          /\ \/ Goto(r, "integrity") /\ archive' \in Closed(r, "targets")
             \/ Goto(r, "tar2") /\ archive' \in Closed(r, "part")
       \/ /\ At(r, "tarring2")
          /\ \/ Goto(r, "integrity") /\ archive' \in Closed(r, "dir")
             \/ Goto(r, "failed") /\ archive' \in Closed(r, "part")
    /\ UNCHANGED <<now, sig, hist>>

\* tar -tzf, which passes for an archive in one piece, and may fail for any.
Integrity(r) ==
    /\ At(r, "integrity")
    /\ \/ IsWhole(Mine(r)) /\ Goto(r, "sign")
       \/ Goto(r, "rmBad")
    /\ UNCHANGED <<now, archive, sig, hist>>

\* rm -f of what is under the name by now, and the script ends.
RemoveBad(r) ==
    /\ At(r, "rmBad")
    /\ Goto(r, "failed")
    /\ archive' = [archive EXCEPT ![Mine(r)] = Missing]
    /\ UNCHANGED <<now, sig, hist>>

\* The redirection creates an empty signature before sha256sum has read a byte.
SignOpen(r) ==
    /\ At(r, "sign")
    /\ \/ Goto(r, "signing") /\ sig' = [sig EXCEPT ![Mine(r)] = Empty]
       \/ Goto(r, "failed") /\ UNCHANGED sig
    /\ UNCHANGED <<now, archive, hist>>

\* The archive is gone, no utility computes a SHA-256, or the signature cannot be
\* written: set -e ends the script.
SignWrite(r) ==
    /\ At(r, "signing")
    /\ \/ /\ Exists(Mine(r))
          /\ Goto(r, "check")
          /\ sig' = [sig EXCEPT ![Mine(r)] = archive[Mine(r)].content]
       \/ Goto(r, "failed") /\ UNCHANGED sig
    /\ UNCHANGED <<now, archive, hist>>

\* sha256sum -c, which reads both files again.
Check(r) ==
    /\ At(r, "check")
    /\ Goto(r, IF Exists(Mine(r)) /\ sig[Mine(r)] = archive[Mine(r)].content
               THEN "commit" ELSE "failed")
    /\ UNCHANGED <<now, archive, sig, hist>>

\* du fails when the archive is gone; then "Backup successfully committed!".
Commit(r) ==
    /\ At(r, "commit")
    /\ \/ ~Exists(Mine(r)) /\ Goto(r, "failed") /\ UNCHANGED committed
       \/ /\ Exists(Mine(r))
          /\ Goto(r, "prune")
          /\ committed' = [committed EXCEPT ![Mine(r)] = sig[Mine(r)]]
    /\ UNCHANGED <<now, archive, sig, quiet, missed>>

-----------------------------------------------------------------------------
(* prune_backups *)

\* Mutant: find without -mtime.
PruneFindAll(r) ==
    /\ At(r, "prune")
    /\ run' = [run EXCEPT ![r].todo = {s \in Time : Exists(s)}, ![r].pc = "rmArchive"]
    /\ UNCHANGED <<now, archive, sig, hist>>

\* The archives that find lists, which is some of the expired ones: it runs in a
\* process substitution and behind || true, so that nobody learns that it has failed.
PruneFind(r) ==
    /\ At(r, "prune")
    /\ \E found \in SUBSET Expired :
         /\ run' = [run EXCEPT ![r].todo = found, ![r].pc = "rmArchive"]
         /\ missed' = [missed EXCEPT ![r] = Expired \ found]
    /\ UNCHANGED <<now, archive, sig, committed, quiet>>

\* Mutant: rm -f of the archive alone.
RemoveArchiveAlone(r) ==
    /\ At(r, "rmArchive")
    /\ \/ run[r].todo = {} /\ Goto(r, "ok") /\ UNCHANGED archive
       \/ \E s \in run[r].todo :
            /\ run' = [run EXCEPT ![r].todo = @ \ {s}]
            /\ archive' = [archive EXCEPT ![s] = Missing]
    /\ UNCHANGED <<now, sig, hist>>

\* rm -f archive signature: two unlinks; the loop ends with the listing.
RemoveArchive(r) ==
    /\ At(r, "rmArchive")
    /\ \/ run[r].todo = {} /\ Goto(r, "ok") /\ UNCHANGED archive
       \/ \E s \in run[r].todo :
            /\ run' = [run EXCEPT ![r].at = s, ![r].pc = "rmSig"]
            /\ archive' = [archive EXCEPT ![s] = Missing]
    /\ UNCHANGED <<now, sig, hist>>

\* Mutant: the loop comes back to the file it has just removed.
RemoveSignatureAgain(r) ==
    /\ At(r, "rmSig")
    /\ sig' = [sig EXCEPT ![run[r].at] = Missing]
    /\ Goto(r, "rmArchive")
    /\ UNCHANGED <<now, archive, hist>>

\* The second unlink of rm -f.
RemoveSignature(r) ==
    /\ At(r, "rmSig")
    /\ sig' = [sig EXCEPT ![run[r].at] = Missing]
    /\ run' = [run EXCEPT ![r].todo = @ \ {run[r].at}, ![r].pc = "rmArchive"]
    /\ UNCHANGED <<now, archive, hist>>

-----------------------------------------------------------------------------
(* verify_all *)

\* Mutant: a signature without an archive is passed over.
VerifyOneIfThere(r) ==
    /\ At(r, "verify")
    /\ \E s \in run[r].todo :
         run' = [run EXCEPT ![r].todo = @ \ {s},
                            ![r].bad = IF Sound(s) \/ ~Exists(s) THEN @ ELSE @ \union {s}]
    /\ UNCHANGED <<now, archive, sig, hist>>

\* One signature, in the order of their names: its archive is missing, or does not
\* match or is not a tar archive, and counts as failed.
VerifyOne(r) ==
    /\ At(r, "verify")
    /\ \E s \in run[r].todo :
         /\ \A t \in run[r].todo : s <= t
         /\ run' = [run EXCEPT ![r].todo = @ \ {s},
                               ![r].bad = IF Sound(s) THEN @ ELSE @ \union {s}]
    /\ UNCHANGED <<now, archive, sig, hist>>

\* return "$failed".
VerifyEnd(r) ==
    /\ At(r, "verify")
    /\ run[r].todo = {}
    /\ run' = [run EXCEPT ![r].pc = IF run[r].bad = {} THEN "ok" ELSE "failed", ![r].bad = {}]
    /\ UNCHANGED <<now, archive, sig, hist>>

-----------------------------------------------------------------------------
Step(r) ==
    \/ TarOpen(r) \/ TarClose(r) \/ Integrity(r) \/ RemoveBad(r) \/ SignOpen(r) \/ SignWrite(r)
    \/ Check(r) \/ Commit(r) \/ PruneFind(r) \/ RemoveArchive(r) \/ RemoveSignature(r)
    \/ VerifyOne(r) \/ VerifyEnd(r)

\* A kill or a reboot: the files stay as they are, a writer's file unfinished.
Crash(r) ==
    /\ r \in Active
    /\ Goto(r, "dead")
    /\ archive' = [s \in Time |->
         IF Exists(s) /\ r \in archive[s].writers
         THEN [archive[s] EXCEPT !.writers = @ \ {r}, !.shared = TRUE, !.mtime = now]
         ELSE archive[s]]
    /\ UNCHANGED <<now, sig, hist>>

\* No invocation is still running when what it wrote first could have expired:
\* a bound on how long tar and find take, which the script does not enforce.
Tick ==
    /\ now < MaxTime
    /\ \A r \in Active : now + 1 - Mine(r) < Lifetime
    /\ now' = now + 1
    /\ UNCHANGED <<run, archive, sig, hist>>

Next ==
    \/ \E r \in Run : Step(r) \/ Crash(r)
    \/ \E r \in Run, cmd \in Command \ {"none"} : Start(r, cmd)
    \/ Tick

\* A script that has started goes on unless it is killed.
Fairness == \A r \in Run : WF_vars(Step(r))

Spec == Init /\ [][Next]_vars /\ Fairness

-----------------------------------------------------------------------------
(* What the backups are for *)

Kept(s) == Sound(s) /\ archive[s].content = committed[s]

\* A backup announced as committed stays in the store, whole and matching its
\* signature, for one day more than the retention, whatever crashes, prunes and other
\* backups come after it: this needs a second that no other backup started in.
BackupOf(r, s) == Mine(r) = s /\ run[r].cmd = "backup"
Alone(s) == \A q \in Run : BackupOf(q, s) => \A r \in Run \ {q} : ~BackupOf(r, s)
CommittedKept ==
    \A s \in Time : committed[s] # Missing /\ Alone(s) => Kept(s) \/ now - s >= Lifetime

\* Seen as a store of dated backups the directory keeps its contract: a backup is
\* there from the announcement on, in one piece, and until it has expired.
Contract == INSTANCE BackupContract WITH
    Content <- [what : Whole, by : Run],
    clock   <- now,
    store   <- [s \in Time |-> IF Kept(s) /\ Alone(s) THEN committed[s] ELSE Missing],
    shared  <- [s \in Time |-> ~Alone(s)]
MeetsBackupContract == Contract!Spec

\* A signature without its archive is the trace of a prune killed between its
\* two unlinks, or of one that is about to make the second.
OrphanOnlyFromPrune ==
    \A s \in Time : sig[s] # Missing /\ ~Exists(s) /\ Alone(s) =>
        \E r \in Run : /\ run[r].pc \in {"rmSig", "dead"}
                       /\ run[r].at = s
                       /\ s \in run[r].todo

\* A verify that nothing overlaps counts as failed exactly the signatures whose
\* archive is missing, unreadable or different.
VerifyExact ==
    \A r \in quiet : At(r, "verify") /\ run[r].todo = {} =>
        run[r].bad = {s \in Time : sig[s] # Missing /\ ~Sound(s)}

\* An archive only disappears because it is too old, or because a backup of its
\* second could not read it: one that has announced nothing, unless it shares its
\* second with another, whose announced archive it may then remove.
RemovedForCause ==
    [][\A s \in Time : Exists(s) /\ archive'[s] = Missing =>
           \/ now - archive[s].mtime >= Lifetime
           \/ /\ \E r \in Run : At(r, "rmBad") /\ Mine(r) = s
              /\ Alone(s) => committed[s] = Missing]_vars

\* A backup that ends with success leaves no archive that had already expired
\* when it started, whoever wrote it, except those that its find did not list.
ExpiredGone(r) ==
    \A s \in Time \ missed[r] : Exists(s) /\ archive[s].writers = {} =>
        Mine(r) - archive[s].mtime < Lifetime
SuccessPrunes == \A r \in Run : run[r].cmd = "backup" /\ At(r, "ok") => ExpiredGone(r)

\* The steps that an invocation has left at most.
Remaining(r) ==
    LET rank == [tar |-> 10, tarring |-> 9, tar2 |-> 8, tarring2 |-> 7, integrity |-> 6,
                 sign |-> 5, signing |-> 4, check |-> 3, commit |-> 2, prune |-> 1, rmBad |-> 0]
        n    == Cardinality(run[r].todo)
    IN  CASE run[r].pc = "rmArchive" -> 2 * n + 1
          [] run[r].pc = "rmSig"     -> 2 * n
          [] run[r].pc = "verify"    -> n + 1
          [] run[r].pc \in Over      -> 0
          [] OTHER                   -> 2 * MaxTime + 1 + rank[run[r].pc]

Nearer(r) == run'[r] # run[r] => Remaining(r)' < Remaining(r)

\* Every invocation ends after as many steps, whatever the others do to the files
\* it works on: no step puts off the end, also when two share an archive or prune
\* the same files.
EndsInSteps == [][\A r \in Active : Nearer(r)]_vars

-----------------------------------------------------------------------------
(* What is said of the backups and does not hold *)

\* backup_manager.sh:127, "Backup successfully committed!": the archive that was
\* announced holds the targets and not something else.
CommittedHoldsTargets ==
    \A s \in Time : committed[s] # Missing => committed[s].what = "targets"

=============================================================================
