------------------------- MODULE BackupManagerProofs -------------------------
(***************************************************************************)
(* The safety properties of BackupManager for any number of invocations,   *)
(* any clock and any retention. What a property says of a stamp follows    *)
(* from where the one backup of that stamp is: as long as the stamp is not *)
(* past its lifetime, no other invocation touches its files.               *)
(***************************************************************************)
EXTENDS BackupManager, FiniteSetTheorems, TLAPS

Writing  == {"tarring", "tarring2"}
InBackup == {"tar", "tarring", "tar2", "tarring2", "integrity", "rmBad", "sign", "signing", "check",
             "commit"}
InPrune  == {"prune", "rmArchive", "rmSig"}

\* Which command an invocation is at, and since when.
PlaceInv(r) ==
    /\ run[r].pc = "idle" <=> run[r].cmd = "none"
    /\ run[r].pc # "idle" => Mine(r) \in Time /\ Mine(r) <= now
    /\ run[r].pc \in InBackup => run[r].cmd = "backup"
    /\ run[r].pc \in InPrune => run[r].cmd \in {"backup", "prune"}
    /\ run[r].pc = "verify" => run[r].cmd = "verify"
    /\ r \in Active => now - Mine(r) < Lifetime

\* Every file of a stamp is due to a backup of that stamp, and a writer is one
\* that is at its tar.
FileInv(s) ==
    /\ Exists(s) \/ sig[s] # Missing \/ committed[s] # Missing =>
         \E r \in Run : run[r].cmd = "backup" /\ Mine(r) = s
    /\ Exists(s) =>
         /\ s <= archive[s].mtime /\ archive[s].mtime <= now
         /\ \A r \in archive[s].writers : run[r].pc \in Writing /\ Mine(r) = s

\* What a prune has listed is too old, also when its archive has gone since.
ListInv(r) ==
    /\ run[r].pc \in {"rmArchive", "rmSig"} =>
         \A s \in run[r].todo :
            /\ now - s >= Lifetime
            /\ Exists(s) => now - archive[s].mtime >= Lifetime
    /\ run[r].pc = "rmSig" => run[r].at \in run[r].todo

\* The files of a stamp as the one backup of that stamp has left them.
Life(r, s) ==
    /\ run[r].pc = "tar" => ~Exists(s)
    /\ run[r].pc \in Writing => Exists(s) /\ r \in archive[s].writers /\ ~archive[s].shared
    /\ run[r].pc \in {"tar", "tar2", "integrity", "rmBad", "sign"} \union Writing => sig[s] = Missing
    /\ run[r].pc \in InBackup => committed[s] = Missing
    /\ run[r].pc \in {"integrity", "sign", "signing"} => IsWhole(s)
    /\ run[r].pc \in {"check", "commit"} => Sound(s)
    /\ run[r].pc \in InPrune \union {"ok"} => Kept(s)
    /\ run[r].pc \in {"failed", "dead"} =>
         /\ committed[s] # Missing => Kept(s)
         /\ sig[s] # Missing => Exists(s)

LifeInv(s) ==
    Alone(s) /\ now - s < Lifetime =>
        \A r \in Run : run[r].cmd = "backup" /\ Mine(r) = s => Life(r, s)

\* A verify that nothing has overlapped sees the files of its start.
Signed == {s \in Time : sig[s] # Missing}
QuietInv(r) ==
    /\ run[r].pc # "idle"
    /\ r \in Active => Active = {r}
    /\ run[r].pc = "verify" =>
         /\ run[r].todo \subseteq Signed
         /\ run[r].bad = {s \in Signed \ run[r].todo : ~Sound(s)}

\* The archives that had expired when the run started, without those that its find did
\* not list.
Stale(r) == {s \in Time \ missed[r] : /\ Exists(s)
                                     /\ archive[s].writers = {}
                                     /\ Mine(r) - archive[s].mtime >= Lifetime}
PruneInv(r) ==
    /\ run[r].pc = "rmArchive" => Stale(r) \subseteq run[r].todo
    /\ run[r].pc = "rmSig" => Stale(r) \subseteq run[r].todo \ {run[r].at}
    /\ run[r].pc = "ok" /\ run[r].cmd # "verify" => Stale(r) = {}

Inv ==
    /\ TypeOK
    /\ \A r \in Run : PlaceInv(r) /\ ListInv(r) /\ PruneInv(r)
    /\ \A s \in Time : FileInv(s) /\ LifeInv(s)
    /\ \A r \in quiet : QuietInv(r)
    /\ OrphanOnlyFromPrune

-----------------------------------------------------------------------------
(* The age of a file *)

LEMMA LifetimeType == Lifetime \in Nat \ {0}
<1>1. Retention \in Nat /\ Day \in Nat \ {0}
  BY BackupAssumption
<1>2. (Retention + 1) * Day \in Nat /\ (Retention + 1) * Day >= Day
  BY <1>1
<1> QED BY <1>1, <1>2 DEF Lifetime

\* find counts the whole days: a file is too old when one more than the retention has
\* passed.
LEMMA OldIs ==
    ASSUME NEW m \in Nat, NEW t \in Nat
    PROVE  Old(m, t) <=> t - m >= Lifetime
<1> DEFINE q == (t - m) \div Day
<1>1. Retention \in Nat /\ Day \in Nat \ {0} /\ t - m \in Int
  BY BackupAssumption
<1>2. q \in Int /\ Day * q <= t - m /\ t - m < Day * (q + 1)
  BY <1>1
<1>3. ASSUME q > Retention PROVE t - m >= Lifetime
  <2>1. Day * (Retention + 1) <= Day * q
    BY <1>1, <1>2, <1>3
  <2> QED BY <1>1, <1>2, <2>1 DEF Lifetime
<1>4. ASSUME ~(q > Retention) PROVE ~(t - m >= Lifetime)
  <2>1. Day * (q + 1) <= Day * (Retention + 1)
    BY <1>1, <1>2, <1>4
  <2> QED BY <1>1, <1>2, <2>1 DEF Lifetime
<1> QED BY <1>3, <1>4 DEF Old

-----------------------------------------------------------------------------
(* What each step does, in terms of the fields it sets *)

Files == [Time -> File \union {Missing}]
Sigs  == [Time -> Content \union {Missing, Empty}]

\* r goes on to l; its other fields and the other invocations stay.
Moved(r, l) ==
    /\ run' \in [Run -> Local]
    /\ run'[r].pc = l
    /\ run'[r].cmd = run[r].cmd /\ run'[r].stamp = run[r].stamp
    /\ run'[r].todo = run[r].todo /\ run'[r].bad = run[r].bad /\ run'[r].at = run[r].at
    /\ \A q \in Run \ {r} : run'[q] = run[q]

\* The same of a step that also changes its lists.
Listed(r, l, todo, bad, at) ==
    /\ run' \in [Run -> Local]
    /\ run'[r].pc = l
    /\ run'[r].cmd = run[r].cmd /\ run'[r].stamp = run[r].stamp
    /\ run'[r].todo = todo /\ run'[r].bad = bad /\ run'[r].at = at
    /\ \A q \in Run \ {r} : run'[q] = run[q]

LEMMA LocalType ==
    ASSUME TypeOK, NEW r \in Run
    PROVE  /\ run[r] \in Local /\ run[r].pc \in PC /\ run[r].cmd \in Command
           /\ run[r].stamp \in Time \union {0} /\ run[r].at \in Time \union {0}
           /\ run[r].todo \subseteq Time /\ run[r].bad \subseteq Time
BY DEF TypeOK, Local

LEMMA GotoMoves ==
    ASSUME TypeOK, NEW r \in Run, NEW l \in PC, Goto(r, l)
    PROVE  Moved(r, l)
<1>1. run \in [Run -> Local] /\ run[r] \in Local
  BY DEF TypeOK
<1>2. run' = [run EXCEPT ![r] = [run[r] EXCEPT !.pc = l]]
  BY DEF Goto
<1>3. [run[r] EXCEPT !.pc = l] \in Local
  BY <1>1 DEF Local
<1>4. run'[r] = [run[r] EXCEPT !.pc = l]
  BY <1>1, <1>2
<1> QED BY <1>1, <1>2, <1>3, <1>4 DEF Moved, Local

LEMMA MovedIsListed ==
    ASSUME NEW r, NEW l, Moved(r, l)
    PROVE  Listed(r, l, run[r].todo, run[r].bad, run[r].at)
BY DEF Moved, Listed

LEMMA TarOpenEffect ==
    ASSUME TypeOK, NEW r \in Run, TarOpen(r), Mine(r) \in Time
    PROVE  /\ \/ run[r].pc = "tar" /\ Moved(r, "tarring")
              \/ run[r].pc = "tar2" /\ Moved(r, "tarring2")
           /\ archive' \in Files
           /\ \A x \in Time \ {Mine(r)} : archive'[x] = archive[x]
           /\ archive'[Mine(r)] # Missing
           /\ archive'[Mine(r)].mtime = now
           /\ r \in archive'[Mine(r)].writers
           /\ ~Exists(Mine(r)) => archive'[Mine(r)].writers = {r} /\ ~archive'[Mine(r)].shared
           /\ Exists(Mine(r)) =>
                /\ archive'[Mine(r)].writers = archive[Mine(r)].writers \union {r}
                /\ archive'[Mine(r)].shared <=> archive[Mine(r)].writers \ {r} # {}
           /\ now' = now /\ sig' = sig /\ committed' = committed /\ quiet' = quiet
<1> DEFINE s == Mine(r)
           others == IF Exists(s) THEN archive[s].writers \ {r} ELSE {}
           f == [content |-> [what |-> "part", by |-> r], mtime |-> now,
                 writers |-> others \union {r}, shared |-> others # {}]
<1>1. archive \in Files /\ now \in Time
  BY DEF TypeOK, Files
<1>2. others \subseteq Run
  BY <1>1 DEF Files, File, Exists
<1>3. f \in File
  BY <1>1, <1>2 DEF File, Content
<1>4. archive' = [archive EXCEPT ![s] = f]
  BY DEF TarOpen, Truncated
<1>5. archive' \in Files /\ archive'[s] = f /\ \A x \in Time \ {s} : archive'[x] = archive[x]
  BY <1>1, <1>3, <1>4 DEF Files
<1>6. f # Missing
  BY <1>3, NoFileAssumption
<1>7. \/ run[r].pc = "tar" /\ Moved(r, "tarring")
      \/ run[r].pc = "tar2" /\ Moved(r, "tarring2")
  BY GotoMoves DEF TarOpen, At, PC
<1>8. others = {} => f.writers = {r} /\ ~f.shared
  OBVIOUS
<1>9. Exists(s) => f.writers = archive[s].writers \union {r} /\ (f.shared <=> archive[s].writers \ {r} # {})
  OBVIOUS
<1> QED BY <1>5, <1>6, <1>7, <1>8, <1>9 DEF TarOpen, hist

\* A writer that the file still has leaves it.
LEMMA TarCloseEffect ==
    ASSUME TypeOK, NEW r \in Run, TarClose(r), Mine(r) \in Time
    PROVE  /\ run[r].pc \in Writing
           /\ \/ Moved(r, "integrity") \/ (Moved(r, "tar2") /\ run[r].pc = "tarring")
              \/ Moved(r, "failed")
           /\ archive' \in Files
           /\ \A x \in Time \ {Mine(r)} : archive'[x] = archive[x]
           /\ (~Exists(Mine(r)) \/ r \notin archive[Mine(r)].writers) =>
                archive'[Mine(r)] = archive[Mine(r)]
           /\ Exists(Mine(r)) /\ r \in archive[Mine(r)].writers =>
                /\ archive'[Mine(r)] # Missing
                /\ archive'[Mine(r)].mtime = now
                /\ archive'[Mine(r)].writers = archive[Mine(r)].writers \ {r}
                /\ archive'[Mine(r)].shared = archive[Mine(r)].shared
                /\ (/\ run'[r].pc = "integrity" /\ archive[Mine(r)].writers = {r}
                    /\ ~archive[Mine(r)].shared) => archive'[Mine(r)].content.what \in Whole
           /\ now' = now /\ sig' = sig /\ committed' = committed /\ quiet' = quiet
<1> DEFINE s == Mine(r)
           f == archive[s]
<1>1. archive \in Files /\ now \in Time
  BY DEF TypeOK, Files
<1>2. PICK what \in Whole \union {"part"} :
        /\ archive' \in Closed(r, what)
        /\ run[r].pc \in Writing
        /\ \/ Moved(r, "integrity") /\ what \in Whole
           \/ Moved(r, "tar2") /\ run[r].pc = "tarring"
           \/ Moved(r, "failed")
  BY GotoMoves DEF TarClose, At, PC, Whole, Writing
<1>3. now' = now /\ sig' = sig /\ committed' = committed /\ quiet' = quiet
  BY DEF TarClose, hist
<1>6. /\ run[r].pc \in Writing
      /\ \/ Moved(r, "integrity") \/ (Moved(r, "tar2") /\ run[r].pc = "tarring")
         \/ Moved(r, "failed")
  BY <1>2, Zenon
<1>4. CASE ~Exists(s) \/ r \notin f.writers
  <2>1. archive' = archive
    BY <1>2, <1>4 DEF Closed
  <2>2. ~(Exists(s) /\ r \in f.writers)
    BY <1>4
  <2>3. archive' \in Files /\ \A x \in Time : archive'[x] = archive[x]
    BY <1>1, <2>1
  <2>4. Mine(r) \in Time
    OBVIOUS
  <2> QED BY <1>3, <1>6, <2>2, <2>3, <2>4, Zenon
<1>5. CASE Exists(s) /\ r \in f.writers
  <2> DEFINE left == f.writers \ {r}
             outcome == IF left # {} THEN {"part"}
                        ELSE IF f.shared THEN {what, "mixed"} ELSE {what}
             g(w) == [f EXCEPT !.content = [what |-> w, by |-> r], !.mtime = now, !.writers = left]
  <2>1. PICK w \in outcome : archive' = [archive EXCEPT ![s] = g(w)]
    BY <1>2, <1>5, Zenon DEF Closed
  <2>2. w \in Whole \union {"part", "mixed"}
    BY DEF Whole
  <2>3. f \in File
    BY <1>1, <1>5 DEF Files, Exists
  <2>4. /\ g(w) \in File /\ g(w).mtime = now /\ g(w).writers = left /\ g(w).shared = f.shared
        /\ g(w).content.what = w
    BY <1>1, <2>2, <2>3 DEF File, Content
  <2>5. archive' \in Files /\ archive'[s] = g(w) /\ \A x \in Time \ {s} : archive'[x] = archive[x]
    BY <1>1, <2>1, <2>4 DEF Files
  <2>6. left = {} /\ ~f.shared => w = what
    OBVIOUS
  <2>7. run'[r].pc = "integrity" => what \in Whole
    BY <1>2 DEF Moved
  <2>8. g(w) # Missing
    BY <2>4, NoFileAssumption
  <2> HIDE DEF g
  <2>9. archive'[s] # Missing /\ archive'[s].mtime = now /\ archive'[s].shared = f.shared
    BY <2>4, <2>5, <2>8
  <2>10. archive'[s].writers = f.writers \ {r}
    BY <2>4, <2>5
  <2>11. run'[r].pc = "integrity" /\ f.writers = {r} /\ ~f.shared => archive'[s].content.what \in Whole
    BY <2>4, <2>5, <2>6, <2>7
  <2>12. ~(~Exists(s) \/ r \notin f.writers)
    BY <1>5
  <2> QED BY <1>3, <1>6, <2>5, <2>9, <2>10, <2>11, <2>12, Zenon
<1> QED BY <1>4, <1>5

LEMMA IntegrityEffect ==
    ASSUME TypeOK, NEW r \in Run, Integrity(r)
    PROVE  /\ run[r].pc = "integrity"
           /\ (IsWhole(Mine(r)) /\ Moved(r, "sign")) \/ Moved(r, "rmBad")
           /\ now' = now /\ archive' = archive /\ sig' = sig /\ committed' = committed
           /\ quiet' = quiet
BY GotoMoves DEF Integrity, At, PC, hist

LEMMA RemoveBadEffect ==
    ASSUME TypeOK, NEW r \in Run, RemoveBad(r), Mine(r) \in Time
    PROVE  /\ run[r].pc = "rmBad" /\ Moved(r, "failed")
           /\ archive' \in Files /\ archive'[Mine(r)] = Missing
           /\ \A x \in Time \ {Mine(r)} : archive'[x] = archive[x]
           /\ now' = now /\ sig' = sig /\ committed' = committed /\ quiet' = quiet
<1>1. archive \in Files
  BY DEF TypeOK, Files
<1>2. /\ archive' \in Files /\ archive'[Mine(r)] = Missing
      /\ \A x \in Time \ {Mine(r)} : archive'[x] = archive[x]
  BY <1>1 DEF RemoveBad, Files
<1> QED BY <1>2, GotoMoves DEF RemoveBad, At, PC, hist

LEMMA SignOpenEffect ==
    ASSUME TypeOK, NEW r \in Run, SignOpen(r), Mine(r) \in Time
    PROVE  /\ run[r].pc = "sign"
           /\ \/ Moved(r, "signing") /\ sig'[Mine(r)] = Empty
              \/ Moved(r, "failed") /\ sig' = sig
           /\ sig' \in Sigs
           /\ \A x \in Time \ {Mine(r)} : sig'[x] = sig[x]
           /\ now' = now /\ archive' = archive /\ committed' = committed /\ quiet' = quiet
<1>1. sig \in Sigs
  BY DEF TypeOK, Sigs
<1>2. now' = now /\ archive' = archive /\ committed' = committed /\ quiet' = quiet
      /\ run[r].pc = "sign"
  BY DEF SignOpen, At, hist
<1>3. CASE Goto(r, "signing") /\ sig' = [sig EXCEPT ![Mine(r)] = Empty]
  <2>1. sig' \in Sigs /\ sig'[Mine(r)] = Empty /\ \A x \in Time \ {Mine(r)} : sig'[x] = sig[x]
    BY <1>1, <1>3 DEF Sigs
  <2> QED BY <1>2, <1>3, <2>1, GotoMoves DEF PC
<1>4. CASE Goto(r, "failed") /\ UNCHANGED sig
  BY <1>1, <1>2, <1>4, GotoMoves DEF PC
<1> QED BY <1>3, <1>4 DEF SignOpen

LEMMA SignWriteEffect ==
    ASSUME TypeOK, NEW r \in Run, SignWrite(r), Mine(r) \in Time
    PROVE  /\ run[r].pc = "signing"
           /\ \/ /\ Exists(Mine(r)) /\ Moved(r, "check")
                 /\ sig'[Mine(r)] = archive[Mine(r)].content
              \/ Moved(r, "failed") /\ sig' = sig
           /\ sig' \in Sigs
           /\ \A x \in Time \ {Mine(r)} : sig'[x] = sig[x]
           /\ now' = now /\ archive' = archive /\ committed' = committed /\ quiet' = quiet
<1>1. sig \in Sigs /\ archive \in Files
  BY DEF TypeOK, Sigs, Files
<1>2. now' = now /\ archive' = archive /\ committed' = committed /\ quiet' = quiet
      /\ run[r].pc = "signing"
  BY DEF SignWrite, At, hist
<1>3. CASE /\ Exists(Mine(r)) /\ Goto(r, "check")
           /\ sig' = [sig EXCEPT ![Mine(r)] = archive[Mine(r)].content]
  <2>1. archive[Mine(r)].content \in Content
    BY <1>1, <1>3 DEF Files, File, Exists
  <2>2. /\ sig' \in Sigs /\ sig'[Mine(r)] = archive[Mine(r)].content
        /\ \A x \in Time \ {Mine(r)} : sig'[x] = sig[x]
    BY <1>1, <1>3, <2>1 DEF Sigs
  <2> QED BY <1>2, <1>3, <2>2, GotoMoves DEF PC
<1>4. CASE Goto(r, "failed") /\ UNCHANGED sig
  BY <1>1, <1>2, <1>4, GotoMoves DEF PC
<1> QED BY <1>3, <1>4 DEF SignWrite

LEMMA CheckEffect ==
    ASSUME TypeOK, NEW r \in Run, Check(r), Mine(r) \in Time
    PROVE  /\ run[r].pc = "check"
           /\ \/ Moved(r, "commit")
              \/ /\ Moved(r, "failed")
                 /\ ~(Exists(Mine(r)) /\ sig[Mine(r)] = archive[Mine(r)].content)
           /\ now' = now /\ archive' = archive /\ sig' = sig /\ committed' = committed
           /\ quiet' = quiet
<1>1. CASE Exists(Mine(r)) /\ sig[Mine(r)] = archive[Mine(r)].content
  BY <1>1, GotoMoves DEF Check, At, PC, hist
<1>2. CASE ~(Exists(Mine(r)) /\ sig[Mine(r)] = archive[Mine(r)].content)
  BY <1>2, GotoMoves DEF Check, At, PC, hist
<1> QED BY <1>1, <1>2

LEMMA CommitEffect ==
    ASSUME TypeOK, NEW r \in Run, Commit(r), Mine(r) \in Time
    PROVE  /\ run[r].pc = "commit"
           /\ \/ ~Exists(Mine(r)) /\ Moved(r, "failed") /\ committed' = committed
              \/ Moved(r, "prune") /\ committed'[Mine(r)] = sig[Mine(r)]
           /\ committed' \in Sigs
           /\ \A x \in Time \ {Mine(r)} : committed'[x] = committed[x]
           /\ now' = now /\ archive' = archive /\ sig' = sig /\ quiet' = quiet
<1>1. sig \in Sigs /\ committed \in Sigs
  BY DEF TypeOK, Sigs
<1>2. now' = now /\ archive' = archive /\ sig' = sig /\ quiet' = quiet /\ run[r].pc = "commit"
  BY DEF Commit, At
<1>3. CASE Goto(r, "prune") /\ committed' = [committed EXCEPT ![Mine(r)] = sig[Mine(r)]]
  <2>1. /\ committed' \in Sigs /\ committed'[Mine(r)] = sig[Mine(r)]
        /\ \A x \in Time \ {Mine(r)} : committed'[x] = committed[x]
    BY <1>1, <1>3 DEF Sigs
  <2> QED BY <1>2, <1>3, <2>1, GotoMoves DEF PC
<1>4. CASE ~Exists(Mine(r)) /\ Goto(r, "failed") /\ UNCHANGED committed
  BY <1>1, <1>2, <1>4, GotoMoves DEF PC
<1> QED BY <1>3, <1>4 DEF Commit

LEMMA PruneFindEffect ==
    ASSUME TypeOK, NEW r \in Run, PruneFind(r)
    PROVE  /\ run[r].pc = "prune"
           /\ \E found \in SUBSET Expired :
                /\ Listed(r, "rmArchive", found, run[r].bad, run[r].at)
                /\ missed' \in [Run -> SUBSET Time] /\ missed'[r] = Expired \ found
           /\ \A q \in Run \ {r} : missed'[q] = missed[q]
           /\ now' = now /\ archive' = archive /\ sig' = sig /\ committed' = committed
           /\ quiet' = quiet
<1>1. /\ run \in [Run -> Local] /\ run[r] \in Local /\ Expired \subseteq Time
      /\ missed \in [Run -> SUBSET Time]
  BY DEF TypeOK, Expired
<1> HIDE DEF Expired
<1>2. PICK found \in SUBSET Expired :
        /\ run' = [run EXCEPT ![r].todo = found, ![r].pc = "rmArchive"]
        /\ missed' = [missed EXCEPT ![r] = Expired \ found]
  BY DEF PruneFind
<1> DEFINE local == [run[r] EXCEPT !.todo = found, !.pc = "rmArchive"]
<1>3. local \in Local
  BY <1>1 DEF Local, PC
<1>4. run' = [run EXCEPT ![r] = local]
  BY <1>2
<1>5. Listed(r, "rmArchive", found, run[r].bad, run[r].at)
  BY <1>1, <1>3, <1>4 DEF Listed, Local
<1>6. /\ missed' \in [Run -> SUBSET Time] /\ missed'[r] = Expired \ found
      /\ \A q \in Run \ {r} : missed'[q] = missed[q]
  BY <1>1, <1>2
<1> QED BY <1>5, <1>6 DEF PruneFind, At

LEMMA RemoveArchiveEffect ==
    ASSUME TypeOK, NEW r \in Run, RemoveArchive(r)
    PROVE  /\ run[r].pc = "rmArchive"
           /\ \/ run[r].todo = {} /\ Moved(r, "ok") /\ archive' = archive
              \/ \E s \in run[r].todo :
                   /\ Listed(r, "rmSig", run[r].todo, run[r].bad, s)
                   /\ archive'[s] = Missing
                   /\ \A x \in Time \ {s} : archive'[x] = archive[x]
           /\ archive' \in Files
           /\ now' = now /\ sig' = sig /\ committed' = committed /\ quiet' = quiet
<1>1. run \in [Run -> Local] /\ run[r] \in Local /\ archive \in Files /\ run[r].todo \subseteq Time
  BY LocalType DEF TypeOK, Files
<1>2. now' = now /\ sig' = sig /\ committed' = committed /\ quiet' = quiet /\ run[r].pc = "rmArchive"
  BY DEF RemoveArchive, At, hist
<1>3. CASE run[r].todo = {} /\ Goto(r, "ok") /\ UNCHANGED archive
  BY <1>1, <1>2, <1>3, GotoMoves DEF PC
<1>4. ASSUME NEW s \in run[r].todo,
             run' = [run EXCEPT ![r].at = s, ![r].pc = "rmSig"],
             archive' = [archive EXCEPT ![s] = Missing]
      PROVE  /\ Listed(r, "rmSig", run[r].todo, run[r].bad, s)
             /\ archive'[s] = Missing /\ \A x \in Time \ {s} : archive'[x] = archive[x]
             /\ archive' \in Files
  <2> DEFINE local == [run[r] EXCEPT !.at = s, !.pc = "rmSig"]
  <2>1. local \in Local
    BY <1>1 DEF Local, PC
  <2>2. run' = [run EXCEPT ![r] = local]
    BY <1>4
  <2>3. Listed(r, "rmSig", run[r].todo, run[r].bad, s)
    BY <1>1, <2>1, <2>2 DEF Listed, Local
  <2> QED BY <1>1, <1>4, <2>3 DEF Files
<1> QED BY <1>2, <1>3, <1>4 DEF RemoveArchive

LEMMA RemoveSignatureEffect ==
    ASSUME TypeOK, NEW r \in Run, RemoveSignature(r), run[r].at \in Time
    PROVE  /\ run[r].pc = "rmSig"
           /\ Listed(r, "rmArchive", run[r].todo \ {run[r].at}, run[r].bad, run[r].at)
           /\ sig' \in Sigs /\ sig'[run[r].at] = Missing
           /\ \A x \in Time \ {run[r].at} : sig'[x] = sig[x]
           /\ now' = now /\ archive' = archive /\ committed' = committed /\ quiet' = quiet
<1> DEFINE local == [run[r] EXCEPT !.todo = @ \ {run[r].at}, !.pc = "rmArchive"]
<1>1. run \in [Run -> Local] /\ run[r] \in Local /\ run[r].todo \subseteq Time /\ sig \in Sigs
  BY LocalType DEF TypeOK, Sigs
<1>2. local \in Local
  BY <1>1 DEF Local, PC
<1>3. run' = [run EXCEPT ![r] = local]
  BY DEF RemoveSignature
<1>4. Listed(r, "rmArchive", run[r].todo \ {run[r].at}, run[r].bad, run[r].at)
  BY <1>1, <1>2, <1>3 DEF Listed, Local
<1>5. /\ sig' \in Sigs /\ sig'[run[r].at] = Missing
      /\ \A x \in Time \ {run[r].at} : sig'[x] = sig[x]
  BY <1>1 DEF RemoveSignature, Sigs
<1> QED BY <1>4, <1>5 DEF RemoveSignature, At, hist

LEMMA VerifyOneEffect ==
    ASSUME TypeOK, NEW r \in Run, VerifyOne(r)
    PROVE  /\ run[r].pc = "verify"
           /\ \E s \in run[r].todo :
                Listed(r, "verify", run[r].todo \ {s},
                       IF Sound(s) THEN run[r].bad ELSE run[r].bad \union {s}, run[r].at)
           /\ now' = now /\ archive' = archive /\ sig' = sig /\ committed' = committed
           /\ quiet' = quiet
<1>1. /\ run \in [Run -> Local] /\ run[r] \in Local
      /\ run[r].todo \subseteq Time /\ run[r].bad \subseteq Time
  BY LocalType DEF TypeOK
<1>2. PICK s \in run[r].todo :
        run' = [run EXCEPT ![r].todo = @ \ {s},
                           ![r].bad = IF Sound(s) THEN @ ELSE @ \union {s}]
  BY DEF VerifyOne
<1> DEFINE bad == IF Sound(s) THEN run[r].bad ELSE run[r].bad \union {s}
           local == [run[r] EXCEPT !.todo = run[r].todo \ {s}, !.bad = bad]
<1>3. bad \subseteq Time /\ s \in Time
  BY <1>1
<1>4. run' = [run EXCEPT ![r] = local]
  BY <1>2
<1> HIDE DEF bad
<1>5. local \in Local
  BY <1>1, <1>3 DEF Local
<1>6. run[r].pc = "verify"
  BY DEF VerifyOne, At
<1>7. Listed(r, "verify", run[r].todo \ {s}, bad, run[r].at)
  BY <1>1, <1>4, <1>5, <1>6 DEF Listed, Local
<1> QED BY <1>6, <1>7 DEF VerifyOne, hist, bad

LEMMA VerifyEndEffect ==
    ASSUME TypeOK, NEW r \in Run, VerifyEnd(r)
    PROVE  /\ run[r].pc = "verify" /\ run[r].todo = {}
           /\ \E l \in {"ok", "failed"} : Listed(r, l, run[r].todo, {}, run[r].at)
           /\ now' = now /\ archive' = archive /\ sig' = sig /\ committed' = committed
           /\ quiet' = quiet
<1> DEFINE l == IF run[r].bad = {} THEN "ok" ELSE "failed"
           local == [run[r] EXCEPT !.pc = l, !.bad = {}]
<1>1. run \in [Run -> Local] /\ run[r] \in Local
  BY DEF TypeOK
<1>2. local \in Local
  BY <1>1 DEF Local, PC
<1>3. run' = [run EXCEPT ![r] = local]
  BY DEF VerifyEnd
<1>4. Listed(r, l, run[r].todo, {}, run[r].at)
  BY <1>1, <1>2, <1>3 DEF Listed, Local
<1> QED BY <1>4 DEF VerifyEnd, At, hist

LEMMA CrashEffect ==
    ASSUME TypeOK, NEW r \in Run, Crash(r)
    PROVE  /\ r \in Active /\ Moved(r, "dead")
           /\ archive' \in Files
           /\ \A x \in Time : \/ archive'[x] = archive[x] /\ ~(Exists(x) /\ r \in archive[x].writers)
                              \/ /\ Exists(x) /\ archive'[x] # Missing
                                 /\ r \in archive[x].writers
                                 /\ archive'[x].writers = archive[x].writers \ {r}
                                 /\ archive'[x].mtime = now
                                 /\ archive'[x].content = archive[x].content
           /\ now' = now /\ sig' = sig /\ committed' = committed /\ quiet' = quiet
<1> DEFINE Hit(x) == Exists(x) /\ r \in archive[x].writers
           left(x) == [archive[x] EXCEPT !.writers = @ \ {r}, !.shared = TRUE, !.mtime = now]
<1>1. archive \in Files /\ now \in Time
  BY DEF TypeOK, Files
<1>2. archive' = [x \in Time |-> IF Hit(x) THEN left(x) ELSE archive[x]]
  BY DEF Crash
<1>3. ASSUME NEW x \in Time, Hit(x)
      PROVE  /\ left(x) \in File /\ left(x) # Missing
             /\ left(x).writers = archive[x].writers \ {r} /\ left(x).mtime = now
             /\ left(x).content = archive[x].content
  <2>1. archive[x] \in File
    BY <1>1, <1>3 DEF Files, Exists
  <2>2. left(x) \in File
    BY <1>1, <2>1 DEF File
  <2>3. left(x) # Missing
    BY <2>2, NoFileAssumption
  <2> QED BY <2>1, <2>2, <2>3 DEF File
<1> HIDE DEF left
<1>4. archive' \in Files
  BY <1>1, <1>2, <1>3 DEF Files
<1>5. \A x \in Time : archive'[x] = IF Hit(x) THEN left(x) ELSE archive[x]
  BY <1>2
<1>6. Moved(r, "dead")
  BY GotoMoves DEF Crash, PC
<1> QED BY <1>3, <1>4, <1>5, <1>6 DEF Crash, hist

LEMMA StartEffect ==
    ASSUME TypeOK, NEW r \in Run, NEW cmd \in Command \ {"none"}, Start(r, cmd)
    PROVE  /\ run[r].pc = "idle"
           /\ run' \in [Run -> Local] /\ \A q \in Run \ {r} : run'[q] = run[q]
           /\ run'[r].cmd = cmd /\ run'[r].stamp = now
           /\ run'[r].pc = (IF cmd = "backup" THEN "tar" ELSE cmd)
           /\ run'[r].todo = (IF cmd = "verify" THEN Signed ELSE {})
           /\ run'[r].bad = {}
           /\ quiet' = (IF cmd = "verify" /\ Active = {} THEN quiet \union {r} ELSE quiet \ Active)
           /\ now' = now /\ archive' = archive /\ sig' = sig /\ committed' = committed
           /\ missed' = missed
<1> DEFINE local == [pc |-> CASE cmd = "backup" -> "tar" [] OTHER -> cmd, cmd |-> cmd, stamp |-> now,
                     todo |-> IF cmd = "verify" THEN {s \in Time : sig[s] # Missing} ELSE {},
                     bad |-> {}, at |-> 0]
<1>1. run \in [Run -> Local] /\ now \in Time
  BY DEF TypeOK
<1>2. local \in Local
  BY <1>1 DEF Local, PC, Command
<1>3. run' = [run EXCEPT ![r] = local]
  BY DEF Start, Timestamp
<1>4. run' \in [Run -> Local] /\ run'[r] = local /\ \A q \in Run \ {r} : run'[q] = run[q]
  BY <1>1, <1>2, <1>3
<1>5. /\ local.cmd = cmd /\ local.stamp = now /\ local.bad = {}
      /\ local.pc = (IF cmd = "backup" THEN "tar" ELSE cmd)
      /\ local.todo = (IF cmd = "verify" THEN Signed ELSE {})
  BY DEF Signed
<1> HIDE DEF local
<1> QED BY <1>4, <1>5 DEF Start, At

-----------------------------------------------------------------------------
(* A step or the crash of one invocation *)

Acts(r) == Step(r) \/ Crash(r)

Places == \A r \in Run : PlaceInv(r) /\ ListInv(r)

\* What all steps have in common: where r goes, and that everything else stays.
Common(r) ==
    /\ run' \in [Run -> Local] /\ archive' \in Files /\ sig' \in Sigs /\ committed' \in Sigs
    /\ now' = now /\ quiet' = quiet
    /\ \A q \in Run \ {r} : run'[q] = run[q]
    /\ run'[r].cmd = run[r].cmd /\ run'[r].stamp = run[r].stamp
    /\ run[r].pc \notin Over \union {"idle"} /\ run'[r].pc # "idle"
    /\ run'[r].pc \in InBackup => run[r].pc \in InBackup
    /\ run'[r].pc \in InPrune => run[r].pc \in InPrune \union {"commit"}
    /\ run'[r].pc = "verify" => run[r].pc = "verify"

LEMMA ActiveStamp ==
    ASSUME TypeOK, NEW r \in Run, PlaceInv(r), run[r].pc \notin Over \union {"idle"}
    PROVE  Mine(r) \in Time /\ Mine(r) <= now /\ now - Mine(r) < Lifetime
BY DEF PlaceInv, Active

LEMMA StepBegins ==
    ASSUME NEW r \in Run, Acts(r)
    PROVE  run[r].pc \notin Over \union {"idle"}
BY DEF Acts, Step, TarOpen, TarClose, Integrity, RemoveBad, SignOpen, SignWrite, Check, Commit, PruneFind,
       RemoveArchive, RemoveSignature, VerifyOne, VerifyEnd, Crash, At, Over, Active

LEMMA ActsCommon ==
    ASSUME TypeOK, NEW r \in Run, PlaceInv(r), ListInv(r), Acts(r)
    PROVE  Common(r)
<1>1. run[r].pc \notin Over \union {"idle"} /\ Mine(r) \in Time
  BY StepBegins, ActiveStamp
<1>2. archive \in Files /\ sig \in Sigs /\ committed \in Sigs
  BY DEF TypeOK, Files, Sigs
<1> USE <1>1, <1>2 DEF Common, InBackup, InPrune
<1>3. CASE TarOpen(r)
  BY <1>3, TarOpenEffect DEF Moved
<1>4. CASE TarClose(r)
  BY <1>4, TarCloseEffect DEF Moved, Writing
<1>5. CASE Integrity(r) \/ RemoveBad(r)
  BY <1>5, IntegrityEffect, RemoveBadEffect DEF Moved
<1>6. CASE SignOpen(r)
  BY <1>6, SignOpenEffect DEF Moved
<1>7. CASE SignWrite(r)
  BY <1>7, SignWriteEffect DEF Moved
<1>8. CASE Check(r)
  BY <1>8, CheckEffect DEF Moved
<1>9. CASE Commit(r)
  BY <1>9, CommitEffect DEF Moved
<1>10. CASE PruneFind(r)
  BY <1>10, PruneFindEffect DEF Listed
<1>11. CASE RemoveArchive(r)
  BY <1>11, RemoveArchiveEffect DEF Moved, Listed
<1>12. CASE RemoveSignature(r)
  <2>1. run[r].at \in Time
    BY <1>12, LocalType DEF RemoveSignature, At, ListInv
  <2> QED BY <1>12, <2>1, RemoveSignatureEffect DEF Listed
<1>13. CASE VerifyOne(r)
  BY <1>13, VerifyOneEffect DEF Listed
<1>14. CASE VerifyEnd(r)
  BY <1>14, VerifyEndEffect DEF Listed
<1>15. CASE Crash(r)
  BY <1>15, CrashEffect DEF Moved
<1> QED BY <1>3, <1>4, <1>5, <1>6, <1>7, <1>8, <1>9, <1>10, <1>11, <1>12, <1>13, <1>14, <1>15
        DEF Acts, Step

\* Only a find misses archives.
LEMMA MissedActs ==
    ASSUME NEW r \in Run, Acts(r)
    PROVE  PruneFind(r) \/ missed' = missed
BY DEF Acts, Step, TarOpen, TarClose, Integrity, RemoveBad, SignOpen, SignWrite, Check, Commit,
       RemoveArchive, RemoveSignature, VerifyOne, VerifyEnd, Crash, hist

LEMMA TypeNext ==
    ASSUME TypeOK, Places, [Next]_vars
    PROVE  TypeOK'
<1>1. ASSUME NEW r \in Run, Acts(r) PROVE TypeOK'
  <2>1. missed' \in [Run -> SUBSET Time]
    BY <1>1, MissedActs, PruneFindEffect DEF TypeOK
  <2> QED BY <1>1, <2>1, ActsCommon DEF Places, Common, TypeOK, Files, Sigs
<1>2. ASSUME NEW r \in Run, NEW cmd \in Command \ {"none"}, Start(r, cmd) PROVE TypeOK'
  <2>1. quiet' \subseteq Run
    BY <1>2, StartEffect DEF TypeOK
  <2> QED BY <1>2, <2>1, StartEffect DEF TypeOK
<1>3. CASE Tick
  BY <1>3, BackupAssumption DEF Tick, TypeOK, Time, hist
<1>4. CASE UNCHANGED vars
  BY <1>4 DEF vars, hist, TypeOK
<1> QED BY <1>1, <1>2, <1>3, <1>4 DEF Next, Acts

LEMMA PlaceNext ==
    ASSUME TypeOK, Places, [Next]_vars, NEW q \in Run
    PROVE  PlaceInv(q)'
<1>1. PlaceInv(q) /\ q \in Run
  BY DEF Places
<1>2. ASSUME NEW r \in Run, Acts(r) PROVE PlaceInv(q)'
  <2>1. Common(r)
    BY <1>2, ActsCommon DEF Places
  <2>2. CASE q # r
    BY <1>1, <2>1, <2>2 DEF Common, PlaceInv, Active, Mine
  <2>3. CASE q = r
    BY <1>1, <2>1, <2>3 DEF Common, PlaceInv, Active, Mine, InBackup, InPrune
  <2> QED BY <2>2, <2>3
<1>3. ASSUME NEW r \in Run, NEW cmd \in Command \ {"none"}, Start(r, cmd) PROVE PlaceInv(q)'
  <2>1. CASE q # r
    BY <1>1, <1>3, <2>1, StartEffect DEF PlaceInv, Active, Mine
  <2>2. CASE q = r
    <3>1. now \in Nat /\ now - now < Lifetime
      BY BackupAssumption, LifetimeType DEF TypeOK, Time
    <3> QED BY <1>1, <1>3, <2>2, <3>1, StartEffect DEF PlaceInv, Active, Mine, InBackup, InPrune, Command, TypeOK
  <2> QED BY <2>1, <2>2
<1>4. CASE Tick
  <2>1. \A s \in Time : s <= now => s <= now + 1
    BY DEF TypeOK, Time
  <2>2. /\ run' = run /\ now' = now + 1
        /\ run[q].pc \notin Over \union {"idle"} => now + 1 - run[q].stamp < Lifetime
    BY <1>1, <1>4 DEF Tick, Active, Mine
  <2>3. run[q].pc # "idle" => run[q].stamp \in Time /\ run[q].stamp <= now
    BY <1>1 DEF PlaceInv, Mine
  <2>4. run'[q].pc # "idle" => run'[q].stamp \in Time /\ run'[q].stamp <= now'
    BY <2>1, <2>2, <2>3
  <2>5. q \in Active' => now' - run'[q].stamp < Lifetime
    <3>1. q \in Active' <=> run[q].pc \notin Over \union {"idle"}
      BY <2>2 DEF Active
    <3>2. now' - run'[q].stamp = now + 1 - run[q].stamp
      <4>1. run' = run /\ now' = now + 1
        BY <1>4 DEF Tick
      <4>2. run'[q].stamp = run[q].stamp
        BY <4>1
      <4>3. now \in Int /\ run[q].stamp \in Int
        <5>1. now \in Int /\ run[q] \in Local
          BY DEF TypeOK, Time
        <5> QED BY <5>1, LocalType DEF Time
      <4> QED BY <4>1, <4>2, <4>3
    <3> QED BY <2>2, <3>1, <3>2
  <2> QED BY <1>1, <2>2, <2>4, <2>5 DEF PlaceInv, Mine
<1>5. CASE UNCHANGED vars
  BY <1>1, <1>5 DEF vars, PlaceInv, Active, Mine
<1> QED BY <1>2, <1>3, <1>4, <1>5 DEF Next, Acts

-----------------------------------------------------------------------------
(* Which files a step touches *)

FilesKnown == \A s \in Time : FileInv(s)

LEMMA ArchiveActs ==
    ASSUME NEW r \in Run, Acts(r)
    PROVE  \/ TarOpen(r) \/ TarClose(r) \/ RemoveBad(r) \/ RemoveArchive(r) \/ Crash(r)
           \/ archive' = archive /\ run[r].pc \notin Writing
BY DEF Acts, Step, Integrity, SignOpen, SignWrite, Check, Commit, PruneFind, RemoveSignature, VerifyOne,
       VerifyEnd, At, Writing

LEMMA SigActs ==
    ASSUME NEW r \in Run, Acts(r)
    PROVE  SignOpen(r) \/ SignWrite(r) \/ RemoveSignature(r) \/ sig' = sig
BY DEF Acts, Step, TarOpen, TarClose, Integrity, RemoveBad, Check, Commit, PruneFind, RemoveArchive,
       VerifyOne, VerifyEnd, Crash

LEMMA CommitActs ==
    ASSUME NEW r \in Run, Acts(r)
    PROVE  Commit(r) \/ committed' = committed
BY DEF Acts, Step, TarOpen, TarClose, Integrity, RemoveBad, SignOpen, SignWrite, Check, PruneFind,
       RemoveArchive, RemoveSignature, VerifyOne, VerifyEnd, Crash, hist

\* An archive is written by the backups of its stamp, and removed by them or
\* from a list.
LEMMA ArchiveTouched ==
    ASSUME TypeOK, Places, FilesKnown, NEW r \in Run, Acts(r), NEW x \in Time
    PROVE  \/ archive'[x] = archive[x]
           \/ /\ run[r].cmd = "backup" /\ Mine(r) = x
              /\ archive'[x] # Missing /\ archive'[x].mtime = now
           \/ /\ run[r].cmd = "backup" /\ Mine(r) = x
              /\ archive'[x] = Missing /\ run[r].pc = "rmBad"
           \/ /\ run[r].pc = "rmArchive" /\ x \in run[r].todo
              /\ archive'[x] = Missing
<1>1. Mine(r) \in Time /\ PlaceInv(r)
  BY StepBegins, ActiveStamp DEF Places
<1>2. CASE TarOpen(r)
  BY <1>1, <1>2, TarOpenEffect DEF PlaceInv, InBackup
<1>3. CASE TarClose(r)
  BY <1>1, <1>3, TarCloseEffect DEF PlaceInv, InBackup, Writing
<1>4. CASE RemoveBad(r)
  BY <1>1, <1>4, RemoveBadEffect DEF PlaceInv, InBackup
<1>5. CASE RemoveArchive(r)
  BY <1>5, RemoveArchiveEffect
<1>6. CASE Crash(r)
  <2>1. CASE archive'[x] = archive[x]
    BY <2>1
  <2>2. CASE archive'[x] # archive[x]
    <3>1. /\ Exists(x) /\ archive'[x] # Missing
          /\ r \in archive[x].writers /\ archive'[x].mtime = now
      BY <1>6, <2>2, CrashEffect
    <3>2. run[r].pc \in Writing /\ Mine(r) = x
      BY <3>1 DEF FilesKnown, FileInv
    <3> QED BY <1>1, <3>1, <3>2 DEF PlaceInv, InBackup, Writing
  <2> QED BY <2>1, <2>2
<1> QED BY <1>2, <1>3, <1>4, <1>5, <1>6, ArchiveActs

LEMMA SigTouched ==
    ASSUME TypeOK, Places, NEW r \in Run, Acts(r), NEW x \in Time
    PROVE  \/ sig'[x] = sig[x]
           \/ run[r].cmd = "backup" /\ Mine(r) = x
           \/ /\ run[r].pc = "rmSig" /\ run[r].at = x /\ x \in run[r].todo
              /\ sig'[x] = Missing
<1>1. Mine(r) \in Time /\ PlaceInv(r) /\ ListInv(r)
  BY StepBegins, ActiveStamp DEF Places
<1>2. CASE SignOpen(r)
  BY <1>1, <1>2, SignOpenEffect DEF PlaceInv, InBackup
<1>3. CASE SignWrite(r)
  BY <1>1, <1>3, SignWriteEffect DEF PlaceInv, InBackup
<1>4. CASE RemoveSignature(r)
  <2>1. run[r].pc = "rmSig" /\ run[r].at \in run[r].todo
    BY <1>1, <1>4 DEF RemoveSignature, At, ListInv
  <2>2. run[r].at \in Time
    BY <2>1, LocalType
  <2> QED BY <1>4, <2>1, <2>2, RemoveSignatureEffect
<1> QED BY <1>2, <1>3, <1>4, SigActs

LEMMA CommitTouched ==
    ASSUME TypeOK, Places, NEW r \in Run, Acts(r), NEW x \in Time
    PROVE  \/ committed'[x] = committed[x]
           \/ run[r].cmd = "backup" /\ Mine(r) = x
<1>1. Mine(r) \in Time /\ PlaceInv(r)
  BY StepBegins, ActiveStamp DEF Places
<1>2. CASE Commit(r)
  BY <1>1, <1>2, CommitEffect DEF PlaceInv, InBackup
<1> QED BY <1>2, CommitActs

\* A stamp that is not too old is left alone by every invocation but its backups.
LEMMA Untouched ==
    ASSUME TypeOK, Places, FilesKnown, NEW r \in Run, Acts(r),
           NEW x \in Time, now - x < Lifetime, ~(run[r].cmd = "backup" /\ Mine(r) = x)
    PROVE  archive'[x] = archive[x] /\ sig'[x] = sig[x] /\ committed'[x] = committed[x]
<1>1. run[r].pc \in {"rmArchive", "rmSig"} => x \notin run[r].todo
  <2>1. now \in Nat /\ x \in Nat /\ Lifetime \in Nat
    BY BackupAssumption, LifetimeType DEF TypeOK, Time
  <2> QED BY <2>1 DEF Places, ListInv
<1> QED BY <1>1, ArchiveTouched, SigTouched, CommitTouched

\* A file that has a writer keeps its writers at their tars.
LEMMA WritersNext ==
    ASSUME TypeOK, Places, FilesKnown, NEW r \in Run, Acts(r), NEW x \in Time,
           archive'[x] # Missing, NEW q \in archive'[x].writers
    PROVE  run'[q].pc \in Writing /\ run'[q].stamp = x
<1>1. Mine(r) \in Time /\ Common(r)
  BY StepBegins, ActiveStamp, ActsCommon DEF Places
<1>2. \A p \in Run : Exists(x) /\ p \in archive[x].writers => run[p].pc \in Writing /\ run[p].stamp = x
  BY DEF FilesKnown, FileInv, Mine
<1>3. q \in Run
  BY <1>1 DEF Common, Files, File
<1>4. CASE q # r
  <2>1. Exists(x) /\ q \in archive[x].writers
    <3>1. CASE TarOpen(r)
      BY <1>1, <1>4, <3>1, TarOpenEffect DEF Exists
    <3>2. CASE TarClose(r)
      BY <1>1, <1>4, <3>2, TarCloseEffect DEF Exists
    <3>3. CASE RemoveBad(r)
      BY <1>1, <1>4, <3>3, RemoveBadEffect DEF Exists
    <3>4. CASE RemoveArchive(r)
      BY <1>4, <3>4, RemoveArchiveEffect DEF Exists
    <3>5. CASE Crash(r)
      BY <1>4, <3>5, CrashEffect DEF Exists
    <3> QED BY <3>1, <3>2, <3>3, <3>4, <3>5, ArchiveActs DEF Exists
  <2> QED BY <1>1, <1>2, <1>3, <1>4, <2>1 DEF Common
<1>5. CASE q = r
  <2>1. CASE TarOpen(r)
    <3>1. x = Mine(r)
      BY <1>1, <1>2, <1>5, <2>1, TarOpenEffect DEF Exists, Writing, Mine
    <3> QED BY <1>1, <1>5, <2>1, <3>1, TarOpenEffect DEF Moved, Writing, Mine
  <2>2. CASE TarClose(r)
    BY <1>1, <1>2, <1>5, <2>2, TarCloseEffect DEF Exists, Mine
  <2>3. CASE RemoveBad(r)
    BY <1>1, <1>2, <1>5, <2>3, RemoveBadEffect DEF Exists, Writing
  <2>4. CASE RemoveArchive(r)
    BY <1>2, <1>5, <2>4, RemoveArchiveEffect DEF Exists, Writing
  <2>5. CASE Crash(r)
    BY <1>2, <1>5, <2>5, CrashEffect DEF Exists
  <2>6. CASE archive' = archive /\ run[r].pc \notin Writing
    BY <1>2, <1>3, <1>5, <2>6 DEF Exists
  <2> QED BY <2>1, <2>2, <2>3, <2>4, <2>5, <2>6, ArchiveActs
<1> QED BY <1>4, <1>5

-----------------------------------------------------------------------------
(* Files and lists *)

\* A started backup stays one.
LEMMA BackupStays ==
    ASSUME TypeOK, Places, [Next]_vars, NEW q \in Run, run[q].pc # "idle"
    PROVE  run'[q].cmd = run[q].cmd /\ run'[q].stamp = run[q].stamp /\ run'[q].pc # "idle"
<1>1. ASSUME NEW r \in Run, Acts(r)
      PROVE  run'[q].cmd = run[q].cmd /\ run'[q].stamp = run[q].stamp /\ run'[q].pc # "idle"
  BY <1>1, ActsCommon DEF Places, Common
<1>2. ASSUME NEW r \in Run, NEW cmd \in Command \ {"none"}, Start(r, cmd)
      PROVE  run'[q] = run[q]
  BY <1>2, StartEffect
<1>3. CASE Tick
  BY <1>3 DEF Tick
<1>4. CASE UNCHANGED vars
  BY <1>4 DEF vars
<1> QED BY <1>1, <1>2, <1>3, <1>4 DEF Next, Acts

LEMMA ClockNext ==
    ASSUME TypeOK, Places, [Next]_vars
    PROVE  now' \in Nat /\ now \in Nat /\ now <= now'
<1>1. now \in Nat
  BY DEF TypeOK, Time
<1>2. ASSUME NEW r \in Run, Acts(r) PROVE now' = now
  BY <1>2, ActsCommon DEF Places, Common
<1> QED BY <1>1, <1>2 DEF Next, Acts, Start, Tick, vars

LEMMA FileNext ==
    ASSUME TypeOK, Places, FilesKnown, [Next]_vars, NEW s \in Time
    PROVE  FileInv(s)'
<1>1. FileInv(s) /\ now \in Nat /\ now' \in Nat /\ now <= now' /\ s \in Nat
  BY ClockNext DEF FilesKnown, Time
<1>2. ASSUME NEW r \in Run, run[r].cmd = "backup", Mine(r) = s
      PROVE  \E q \in Run : run'[q].cmd = "backup" /\ run'[q].stamp = s
  <2>1. run[r].pc # "idle"
    BY <1>2 DEF Places, PlaceInv
  <2> QED BY <1>2, <2>1, BackupStays DEF Mine
<1>3. ASSUME NEW r \in Run, Acts(r) PROVE FileInv(s)'
  <2>1. archive'[s] # Missing \/ sig'[s] # Missing \/ committed'[s] # Missing =>
          \E q \in Run : run[q].cmd = "backup" /\ Mine(q) = s
    BY <1>1, <1>3, ArchiveTouched, SigTouched, CommitTouched DEF FileInv, Exists
  <2>2. archive'[s] # Missing => s <= archive'[s].mtime /\ archive'[s].mtime <= now
    <3>1. CASE archive'[s] = archive[s]
      BY <1>1, <3>1 DEF FileInv, Exists
    <3>2. CASE run[r].cmd = "backup" /\ Mine(r) = s /\ archive'[s].mtime = now
      BY <1>1, <1>3, <3>2, StepBegins, ActiveStamp DEF Places
    <3> QED BY <1>3, <3>1, <3>2, ArchiveTouched
  <2>3. archive'[s] # Missing => \A q \in archive'[s].writers : run'[q].pc \in Writing /\ run'[q].stamp = s
    BY <1>3, WritersNext
  <2>4. now' = now
    BY <1>3, ActsCommon DEF Places, Common
  <2> QED BY <1>2, <2>1, <2>2, <2>3, <2>4 DEF FileInv, Exists, Mine
<1>4. ASSUME NEW r \in Run, NEW cmd \in Command \ {"none"}, Start(r, cmd) PROVE FileInv(s)'
  <2>1. archive' = archive /\ sig' = sig /\ committed' = committed /\ now' = now
    BY <1>4 DEF Start
  <2>2. Exists(s) => archive[s].writers \subseteq Run
    BY DEF TypeOK, Exists, File
  <2>3. \A q \in Run : run[q].pc \in Writing => run'[q] = run[q]
    BY <1>4, StartEffect DEF Writing
  <2> QED BY <1>1, <1>2, <2>1, <2>2, <2>3 DEF FileInv, Exists, Mine
<1>5. CASE Tick \/ UNCHANGED vars
  <2>1. archive' = archive /\ sig' = sig /\ committed' = committed /\ run' = run
    BY <1>5 DEF Tick, vars, hist
  <2>2. Exists(s) => archive[s].mtime \in Nat
    BY DEF TypeOK, Exists, File, Time
  <2> QED BY <1>1, <2>1, <2>2 DEF FileInv, Exists, Mine
<1> QED BY <1>3, <1>4, <1>5 DEF Next, Acts

\* What has been listed, or could be, is not written any more.
LEMMA OldUntouched ==
    ASSUME TypeOK, Places, FilesKnown, NEW r \in Run, Acts(r), NEW x \in Time, now - x >= Lifetime
    PROVE  archive'[x] = archive[x] \/ archive'[x] = Missing
<1>1. now \in Nat /\ x \in Nat /\ Lifetime \in Nat
  BY BackupAssumption, LifetimeType DEF TypeOK, Time
<1>2. Mine(r) # x
  BY <1>1, StepBegins, ActiveStamp DEF Places
<1> QED BY <1>2, ArchiveTouched

LEMMA ListNext ==
    ASSUME TypeOK, Places, FilesKnown, [Next]_vars, NEW q \in Run
    PROVE  ListInv(q)'
<1> DEFINE Spent(t, a, x) == t - x >= Lifetime /\ (a[x] # Missing => t - a[x].mtime >= Lifetime)
<1>1. /\ run[q].pc \in {"rmArchive", "rmSig"} =>
           run[q].todo \subseteq Time /\ \A x \in run[q].todo : Spent(now, archive, x)
      /\ run[q].pc = "rmSig" => run[q].at \in run[q].todo
  BY LocalType DEF Places, ListInv, Exists
<1>2. SUFFICES /\ run'[q].pc \in {"rmArchive", "rmSig"} =>
                    \A x \in run'[q].todo : Spent(now', archive', x)
               /\ run'[q].pc = "rmSig" => run'[q].at \in run'[q].todo
  BY DEF ListInv, Exists
<1>3. ASSUME NEW x \in Time, Spent(now, archive, x)
      PROVE  Spent(now', archive', x)
  <2>1. /\ now \in Nat /\ now' \in Nat /\ now <= now' /\ x \in Nat /\ Lifetime \in Nat
        /\ archive[x] # Missing => archive[x].mtime \in Nat
    BY ClockNext, BackupAssumption, LifetimeType DEF TypeOK, Time, File
  <2>2. archive'[x] = archive[x] \/ archive'[x] = Missing
    <3>1. ASSUME NEW r \in Run, Acts(r) PROVE archive'[x] = archive[x] \/ archive'[x] = Missing
      BY <1>3, <3>1, OldUntouched
    <3> QED BY <3>1 DEF Next, Acts, Start, Tick, vars
  <2>3. now' - x >= Lifetime
    BY <1>3, <2>1
  <2>4. archive'[x] # Missing => now' - archive'[x].mtime >= Lifetime
    BY <1>3, <2>1, <2>2
  <2> QED BY <2>3, <2>4
<1>4. ASSUME NEW x \in Expired PROVE x \in Time /\ Spent(now, archive, x)
  <2>1. x \in Time /\ Exists(x) /\ now - archive[x].mtime >= Lifetime
    BY <1>4, OldIs DEF Expired, TypeOK, Time, Exists, File
  <2>2. x <= archive[x].mtime
    BY <2>1 DEF FilesKnown, FileInv
  <2>3. now \in Nat /\ x \in Nat /\ archive[x].mtime \in Nat /\ Lifetime \in Nat
    BY <2>1, BackupAssumption, LifetimeType DEF TypeOK, Time, Exists, File
  <2>4. now - x >= Lifetime
    BY <2>1, <2>2, <2>3
  <2> QED BY <2>1, <2>4
<1> HIDE DEF Spent
<1>5. CASE run'[q] = run[q]
  BY <1>1, <1>3, <1>5
<1>6. ASSUME NEW r \in Run, Acts(r), q = r, run'[q].pc \in {"rmArchive", "rmSig"}
      PROVE  /\ \A x \in run'[q].todo : Spent(now', archive', x)
             /\ run'[q].pc = "rmSig" => run'[q].at \in run'[q].todo
  <2>1. PruneFind(r) \/ RemoveArchive(r) \/ RemoveSignature(r)
    <3>1. run[r].pc \in InPrune \union {"commit"}
      BY <1>6, ActsCommon DEF Places, Common, InPrune
    <3>2. ~Commit(r)
      <4>1. Commit(r) => run'[r].pc \in {"failed", "prune"}
        BY GotoMoves DEF Commit, PC, Moved
      <4> QED BY <1>6, <4>1
    <3>3. ~Crash(r)
      BY <1>6, CrashEffect DEF Moved
    <3> QED BY <1>6, <3>1, <3>2, <3>3 DEF Acts, Step, TarOpen, TarClose, Integrity, RemoveBad, SignOpen, SignWrite,
              Check, VerifyOne, VerifyEnd, At, InPrune
  <2>2. CASE PruneFind(r)
    BY <1>3, <1>4, <1>6, <2>2, PruneFindEffect DEF Listed
  <2>3. CASE RemoveArchive(r)
    <3>1. PICK s \in run[r].todo : Listed(r, "rmSig", run[r].todo, run[r].bad, s)
      BY <1>6, <2>3, RemoveArchiveEffect DEF Moved
    <3>2. \A x \in run[r].todo : x \in Time /\ Spent(now, archive, x)
      BY <1>1, <1>6, <2>3, RemoveArchiveEffect
    <3> QED BY <1>3, <1>6, <3>1, <3>2 DEF Listed
  <2>4. CASE RemoveSignature(r)
    <3>1. run[r].pc = "rmSig"
      BY <2>4 DEF RemoveSignature, At
    <3>2. run[r].at \in Time /\ \A x \in run[r].todo : x \in Time /\ Spent(now, archive, x)
      BY <1>1, <1>6, <3>1
    <3> QED BY <1>3, <1>6, <2>4, <3>2, RemoveSignatureEffect DEF Listed
  <2> QED BY <2>1, <2>2, <2>3, <2>4
<1>7. ASSUME NEW r \in Run, Acts(r), q # r PROVE run'[q] = run[q]
  BY <1>7, ActsCommon DEF Places, Common
<1>8. ASSUME NEW r \in Run, NEW cmd \in Command \ {"none"}, Start(r, cmd), run'[q] # run[q]
      PROVE  run'[q].pc \notin {"rmArchive", "rmSig"}
  BY <1>8, StartEffect DEF Command
<1>9. CASE Tick \/ UNCHANGED vars
  BY <1>5, <1>9 DEF Tick, vars
<1> QED BY <1>5, <1>6, <1>7, <1>8, <1>9 DEF Next, Acts

-----------------------------------------------------------------------------
(* What a prune leaves *)

LEMMA StaleShrinks ==
    ASSUME TypeOK, Places, FilesKnown, NEW r \in Run, Acts(r), NEW q \in Run, run[q].pc # "idle",
           missed'[q] = missed[q]
    PROVE  Stale(q)' \subseteq {x \in Stale(q) : archive'[x] = archive[x]}
<1>0. SUFFICES ASSUME NEW x \in Time, x \notin missed[q], archive'[x] # Missing,
                      archive'[x].writers = {}, run'[q].stamp - archive'[x].mtime >= Lifetime
               PROVE  x \in Stale(q) /\ archive'[x] = archive[x]
  BY DEF Stale, Exists, Mine
<1>1. run'[q].stamp = Mine(q)
  BY ActsCommon DEF Places, Common, Mine
<1>2. Mine(q) \in Nat /\ Mine(q) <= now /\ now \in Nat /\ Lifetime \in Nat
  BY BackupAssumption, LifetimeType DEF Places, PlaceInv, TypeOK, Time
<1>3. archive'[x].mtime # now
  BY <1>0, <1>1, <1>2, LifetimeType
<1>4. archive'[x] = archive[x]
  BY <1>0, <1>3, ArchiveTouched
<1> QED BY <1>0, <1>1, <1>4 DEF Stale, Exists

LEMMA PruneNext ==
    ASSUME TypeOK, Places, FilesKnown, NEW q \in Run, PruneInv(q), [Next]_vars
    PROVE  PruneInv(q)'
<1>1. PlaceInv(q)
  BY DEF Places
<1>2. CASE UNCHANGED <<run, archive, missed>>
  BY <1>2 DEF PruneInv, Stale, Exists, Mine
<1>3. ASSUME NEW r \in Run, NEW cmd \in Command \ {"none"}, Start(r, cmd) PROVE PruneInv(q)'
  <2>1. run'[q] = run[q] \/ run'[q].pc \in {"tar", "verify", "prune"}
    BY <1>3, StartEffect DEF Command
  <2>2. archive' = archive /\ missed' = missed
    BY <1>3 DEF Start
  <2> QED BY <2>1, <2>2 DEF PruneInv, Stale, Exists, Mine
<1>4. ASSUME NEW r \in Run, Acts(r), q # r PROVE PruneInv(q)'
  <2>1. run'[q] = run[q]
    BY <1>4, ActsCommon DEF Places, Common
  <2>2. missed'[q] = missed[q]
    BY <1>4, MissedActs, PruneFindEffect
  <2>3. run[q].pc # "idle" => Stale(q)' \subseteq Stale(q)
    BY <1>4, <2>2, StaleShrinks
  <2> QED BY <2>1, <2>3 DEF PruneInv
<1>5. ASSUME NEW r \in Run, Acts(r), q = r PROVE PruneInv(q)'
  <2>1. ~PruneFind(r) => Stale(q)' \subseteq {x \in Stale(q) : archive'[x] = archive[x]}
    BY <1>5, StepBegins, MissedActs, StaleShrinks
  <2>2. Common(r) /\ (~PruneFind(r) => Stale(q)' \subseteq Stale(q))
    BY <1>5, <2>1, ActsCommon DEF Places
  <2>3. CASE PruneFind(r)
    <3>1. PICK found \in SUBSET Expired :
            /\ Listed(r, "rmArchive", found, run[r].bad, run[r].at)
            /\ missed'[r] = Expired \ found
      BY <2>3, PruneFindEffect
    <3>2. Stale(q)' \subseteq found
      <4> SUFFICES ASSUME NEW x \in Time \ missed'[q], archive'[x] # Missing,
                          archive'[x].writers = {}, run'[q].stamp - archive'[x].mtime >= Lifetime
                   PROVE  x \in found
        BY DEF Stale, Exists, Mine
      <4>1. archive' = archive /\ run'[q].stamp = Mine(q)
        BY <1>5, <2>2, <2>3, PruneFindEffect DEF Common, Mine
      <4>2. Mine(q) \in Nat /\ Mine(q) <= now /\ now \in Nat /\ Lifetime \in Nat
        BY <1>1, <1>5, StepBegins, BackupAssumption, LifetimeType DEF PlaceInv, TypeOK, Time
      <4>3. archive[x].mtime \in Nat
        BY <4>1 DEF TypeOK, Exists, File, Time
      <4>4. now - archive[x].mtime >= Lifetime
        BY <4>1, <4>2, <4>3
      <4>5. x \in Expired
        BY <4>1, <4>2, <4>3, <4>4, OldIs DEF Expired, Exists
      <4> QED BY <1>5, <3>1, <4>5
    <3> QED BY <1>5, <3>1, <3>2 DEF PruneInv, Listed
  <2>7. RemoveArchive(r) \/ RemoveSignature(r) => ~PruneFind(r)
    BY DEF RemoveArchive, RemoveSignature, PruneFind, At
  <2>4. CASE RemoveArchive(r)
    <3>1. Stale(q) \subseteq run[q].todo /\ \A x \in Stale(q) : archive[x] # Missing
      BY <1>5, <2>4, RemoveArchiveEffect DEF PruneInv, Stale, Exists
    <3>2. CASE run[r].todo = {} /\ Moved(r, "ok")
      BY <1>5, <2>2, <2>4, <2>7, <3>1, <3>2 DEF PruneInv, Moved
    <3>3. CASE \E s \in run[r].todo : Listed(r, "rmSig", run[r].todo, run[r].bad, s) /\ archive'[s] = Missing
      BY <1>5, <2>1, <2>4, <2>7, <3>1, <3>3 DEF PruneInv, Listed
    <3> QED BY <2>4, <3>2, <3>3, RemoveArchiveEffect
  <2>5. CASE RemoveSignature(r)
    <3>1. run[r].at \in Time /\ run[r].pc = "rmSig"
      BY <2>5, LocalType DEF RemoveSignature, At, Places, ListInv
    <3> QED BY <1>5, <2>2, <2>5, <2>7, <3>1, RemoveSignatureEffect DEF PruneInv, Listed
  <2>6. CASE ~(PruneFind(r) \/ RemoveArchive(r) \/ RemoveSignature(r))
    <3>1. run[r].pc = "verify" => run[r].cmd = "verify"
      BY <1>1, <1>5 DEF PlaceInv
    <3>2. run'[r].pc \notin {"rmArchive", "rmSig"} /\ (run'[r].pc = "ok" => run'[r].cmd = "verify")
      <4> USE GotoMoves DEF Moved, PC
      <4>1. CASE TarOpen(r) \/ TarClose(r)
        BY <4>1 DEF TarOpen, TarClose
      <4>2. CASE Integrity(r) \/ RemoveBad(r) \/ SignOpen(r) \/ SignWrite(r)
        BY <4>2 DEF Integrity, RemoveBad, SignOpen, SignWrite
      <4>3. CASE Check(r)
        BY <4>3 DEF Check
      <4>4. CASE Commit(r) \/ Crash(r)
        BY <4>4 DEF Commit, Crash
      <4>5. CASE VerifyOne(r)
        BY <4>5, VerifyOneEffect DEF Listed
      <4>6. CASE VerifyEnd(r)
        BY <2>2, <3>1, <4>6, VerifyEndEffect DEF Common, Listed
      <4> QED BY <1>5, <2>6, <4>1, <4>2, <4>3, <4>4, <4>5, <4>6 DEF Acts, Step
    <3> QED BY <1>5, <3>2 DEF PruneInv
  <2> QED BY <2>3, <2>4, <2>5, <2>6
<1> QED BY <1>2, <1>3, <1>4, <1>5 DEF Next, Acts, Tick, vars, hist

-----------------------------------------------------------------------------
(* The life of a backup's files *)

Lives == \A s \in Time : LifeInv(s)

\* A step of the one backup of a stamp that is not too old.
LEMMA LifeStep ==
    ASSUME TypeOK, Places, FilesKnown, NEW r \in Run, Acts(r), run[r].cmd = "backup",
           Alone(Mine(r)), Life(r, Mine(r))
    PROVE  Life(r, Mine(r))'
<1> DEFINE s == Mine(r)
<1>1. s \in Time /\ run'[r].stamp = s /\ run'[r].cmd = "backup" /\ Common(r)
  BY StepBegins, ActiveStamp, ActsCommon DEF Places, Common, Mine
<1>2. \A q \in Run : Exists(s) /\ q \in archive[s].writers => run[q].pc \in Writing /\ Mine(q) = s
  BY <1>1 DEF FilesKnown, FileInv
<1>3. Exists(s) => archive[s].writers \subseteq {r}
  <2>1. \A q \in Run : run[q].pc \in Writing => run[q].cmd = "backup"
    BY DEF Places, PlaceInv, Writing, InBackup
  <2>2. Exists(s) => archive[s].writers \subseteq Run
    BY <1>1 DEF TypeOK, Exists, File
  <2> QED BY <1>2, <2>1, <2>2 DEF Alone, BackupOf
<1>4. SUFFICES ASSUME NEW t, t = s, t \in Time, Mine(r) = t, run'[r].stamp = t PROVE Life(r, t)'
  BY <1>1 DEF Mine, Life
<1> USE <1>4 DEF Life, InBackup, InPrune, Writing
<1>5. CASE TarOpen(r)
  <2>1. run[r].pc = "tar" => ~Exists(t) /\ sig[t] = Missing /\ committed[t] = Missing
    OBVIOUS
  <2>2. run[r].pc = "tar2" => sig[t] = Missing /\ committed[t] = Missing
    OBVIOUS
  <2>3. ~archive'[t].shared /\ archive'[t] # Missing /\ r \in archive'[t].writers
    BY <1>3, <1>5, TarOpenEffect
  <2>4. run'[r].pc \in Writing /\ sig'[t] = Missing /\ committed'[t] = Missing
    BY <1>5, <2>1, <2>2, TarOpenEffect DEF Moved
  <2> QED BY <2>3, <2>4 DEF Exists
<1>6. CASE TarClose(r)
  <2>1. run[r].pc \in Writing /\ Exists(t) /\ r \in archive[t].writers /\ ~archive[t].shared
        /\ sig[t] = Missing /\ committed[t] = Missing
    BY <1>6, TarCloseEffect
  <2>2. archive[t].writers = {r}
    BY <1>3, <2>1
  <2>3. archive'[t] # Missing /\ sig'[t] = Missing /\ committed'[t] = Missing
    BY <1>6, <2>1, TarCloseEffect
  <2>4. run'[r].pc \in {"integrity", "tar2", "failed"}
    BY <1>6, TarCloseEffect DEF Moved
  <2>5. run'[r].pc = "integrity" => archive'[t].content.what \in Whole
    BY <1>6, <2>1, <2>2, TarCloseEffect
  <2> QED BY <2>3, <2>4, <2>5 DEF Exists, IsWhole
<1>7. CASE Integrity(r) \/ RemoveBad(r)
  <2>1. sig'[t] = Missing /\ committed'[t] = Missing
    BY <1>7, IntegrityEffect, RemoveBadEffect
  <2>2. \/ run'[r].pc = "sign" /\ archive' = archive /\ IsWhole(t)
        \/ run'[r].pc \in {"rmBad", "failed"}
    BY <1>7, IntegrityEffect, RemoveBadEffect DEF Moved
  <2> QED BY <2>1, <2>2 DEF IsWhole, Exists
<1>8. CASE SignOpen(r)
  <2>1. IsWhole(t) /\ sig[t] = Missing /\ committed[t] = Missing
    BY <1>8, SignOpenEffect
  <2>2. /\ archive' = archive /\ committed' = committed
        /\ run'[r].pc = "signing" \/ (run'[r].pc = "failed" /\ sig' = sig)
    BY <1>8, SignOpenEffect DEF Moved
  <2> QED BY <2>1, <2>2 DEF IsWhole, Exists
<1>9. CASE SignWrite(r)
  <2>1. IsWhole(t) /\ committed[t] = Missing
    BY <1>9, SignWriteEffect
  <2>2. /\ archive' = archive /\ committed' = committed
        /\ \/ run'[r].pc = "check" /\ sig'[t] = archive[t].content
           \/ run'[r].pc = "failed"
    BY <1>9, SignWriteEffect DEF Moved
  <2> QED BY <2>1, <2>2 DEF Sound, IsWhole, Exists
<1>10. CASE Check(r)
  <2>1. Sound(t) /\ committed[t] = Missing
    BY <1>10, CheckEffect
  <2>2. Moved(r, "commit") /\ archive' = archive /\ committed' = committed /\ sig' = sig
    BY <1>10, <2>1, CheckEffect DEF Sound, IsWhole
  <2> QED BY <2>1, <2>2 DEF Moved, Sound, IsWhole, Exists
<1>11. CASE Commit(r)
  <2>1. Sound(t)
    BY <1>11, CommitEffect
  <2>2. Moved(r, "prune") /\ archive' = archive /\ sig' = sig /\ committed'[t] = sig[t]
    BY <1>11, <2>1, CommitEffect DEF Sound, IsWhole
  <2> QED BY <2>1, <2>2 DEF Moved, Kept, Sound, IsWhole, Exists
<1>12. CASE run[r].pc \in InPrune /\ ~Crash(r)
  <2>1. Kept(t)
    BY <1>12
  <2>2. run'[r].pc \in InPrune \union {"ok"}
    <3>1. PruneFind(r) \/ RemoveArchive(r) \/ RemoveSignature(r)
      BY <1>12 DEF Acts, Step, TarOpen, TarClose, Integrity, RemoveBad, SignOpen, SignWrite, Check, Commit,
                   VerifyOne, VerifyEnd, At
    <3>2. RemoveSignature(r) => run[r].at \in Time
      BY LocalType DEF RemoveSignature, At, Places, ListInv
    <3> QED BY <3>1, <3>2, PruneFindEffect, RemoveArchiveEffect, RemoveSignatureEffect DEF Moved, Listed
  <2>3. archive'[t] = archive[t] /\ sig'[t] = sig[t] /\ committed'[t] = committed[t]
    <3>1. now - t < Lifetime
      BY StepBegins, ActiveStamp DEF Places
    <3>2. run[r].pc \in {"rmArchive", "rmSig"} => t \notin run[r].todo
      <4>1. now \in Nat /\ t \in Nat /\ Lifetime \in Nat
        BY BackupAssumption, LifetimeType DEF TypeOK, Time
      <4> QED BY <3>1, <4>1 DEF Places, ListInv
    <3>3. PruneFind(r) \/ RemoveArchive(r) \/ RemoveSignature(r)
      BY <1>12 DEF Acts, Step, TarOpen, TarClose, Integrity, RemoveBad, SignOpen, SignWrite, Check, Commit,
                   VerifyOne, VerifyEnd, At
    <3>4. RemoveSignature(r) => run[r].at \in Time /\ run[r].at \in run[r].todo
      BY LocalType DEF RemoveSignature, At, Places, ListInv
    <3> QED BY <3>2, <3>3, <3>4, PruneFindEffect, RemoveArchiveEffect, RemoveSignatureEffect
  <2> QED BY <2>1, <2>2, <2>3 DEF Kept, Sound, IsWhole, Exists
<1>13. CASE Crash(r)
  <2>1. run'[r].pc = "dead" /\ sig' = sig /\ committed' = committed /\ r \in Active
    BY <1>13, CrashEffect DEF Moved
  <2>2. archive'[t] # archive[t] => run[r].pc \in Writing /\ archive'[t] # Missing
    BY <1>2, <1>13, CrashEffect
  <2>3. committed[t] # Missing => run[r].pc \in InPrune
    <3>1. run[r].pc \in InBackup \union InPrune
      BY <2>1 DEF Places, PlaceInv, Active, Over, PC, TypeOK, Local
    <3> QED BY <3>1
  <2>4. run[r].pc \in InPrune => Kept(t) /\ archive'[t] = archive[t]
    BY <2>2
  <2>5. sig[t] # Missing => archive'[t] # Missing
    <3>1. run[r].pc \in InBackup \union InPrune
      BY <2>1 DEF Places, PlaceInv, Active, Over, PC, TypeOK, Local
    <3>2. sig[t] # Missing => Exists(t)
      BY <3>1 DEF Kept, Sound, IsWhole
    <3> QED BY <2>2, <3>2 DEF Exists
  <2> QED BY <2>1, <2>3, <2>4, <2>5 DEF Kept, Sound, IsWhole, Exists
<1>14. run[r].pc # "verify"
  BY DEF Places, PlaceInv
<1> QED BY <1>5, <1>6, <1>7, <1>8, <1>9, <1>10, <1>11, <1>12, <1>13, <1>14
        DEF Acts, Step, PruneFind, RemoveArchive, RemoveSignature, VerifyOne, VerifyEnd, At

\* No other backup of the stamp has been started since.
LEMMA AloneBefore ==
    ASSUME TypeOK, Places, [Next]_vars, NEW s \in Time, Alone(s)'
    PROVE  Alone(s)
<1> SUFFICES ASSUME NEW p \in Run, NEW q \in Run, p # q,
                    \A x \in {p, q} : run[x].cmd = "backup" /\ Mine(x) = s
             PROVE  FALSE
  BY DEF Alone, BackupOf
<1>1. \A x \in {p, q} : run'[x].cmd = "backup" /\ run'[x].stamp = s
  BY BackupStays DEF Places, PlaceInv, Mine
<1> QED BY <1>1 DEF Alone, BackupOf, Mine

LEMMA LifeNext ==
    ASSUME TypeOK, Places, FilesKnown, Lives, [Next]_vars, NEW s \in Time
    PROVE  LifeInv(s)'
<1> SUFFICES ASSUME Alone(s)', now' - s < Lifetime,
                    NEW q \in Run, run'[q].cmd = "backup", run'[q].stamp = s
             PROVE  Life(q, s)'
  BY DEF LifeInv, Mine
<1>1. Alone(s)
  BY AloneBefore
<1>2. now - s < Lifetime
  BY ClockNext, BackupAssumption, LifetimeType DEF Time
<1>3. run[q].cmd = "backup" /\ Mine(q) = s => Life(q, s)
  BY <1>1, <1>2 DEF Lives, LifeInv
<1>4. CASE run' = run /\ archive' = archive /\ sig' = sig /\ committed' = committed
  BY <1>3, <1>4 DEF Life, Kept, Sound, IsWhole, Exists, Mine
<1>5. ASSUME NEW r \in Run, Acts(r) PROVE Life(q, s)'
  <2>1. run[q].cmd = "backup" /\ Mine(q) = s
    BY <1>5, ActsCommon DEF Places, Common, Mine
  <2>2. CASE r = q
    <3>1. Life(r, Mine(r))'
      BY <1>1, <1>3, <1>5, <2>1, <2>2, LifeStep
    <3> QED BY <2>2, <3>1 DEF Life, Kept, Sound, IsWhole, Exists, Mine
  <2>3. CASE r # q
    <3>1. ~(run[r].cmd = "backup" /\ Mine(r) = s)
      BY <1>1, <2>1, <2>3 DEF Alone, BackupOf
    <3>2. archive'[s] = archive[s] /\ sig'[s] = sig[s] /\ committed'[s] = committed[s]
      BY <1>2, <1>5, <3>1, Untouched
    <3>3. run'[q] = run[q]
      BY <1>5, <2>3, ActsCommon DEF Places, Common
    <3> QED BY <1>3, <2>1, <3>2, <3>3 DEF Life, Kept, Sound, IsWhole, Exists
  <2> QED BY <2>2, <2>3
<1>6. ASSUME NEW r \in Run, NEW cmd \in Command \ {"none"}, Start(r, cmd) PROVE Life(q, s)'
  <2>1. archive' = archive /\ sig' = sig /\ committed' = committed
    BY <1>6 DEF Start
  <2>2. CASE r # q
    <3>1. run'[q] = run[q]
      BY <1>6, <2>2, StartEffect
    <3> QED BY <1>3, <2>1, <3>1 DEF Life, Kept, Sound, IsWhole, Exists, Mine
  <2>3. CASE r = q
    <3>1. run[q].pc = "idle" /\ run'[q].pc = "tar"
      BY <1>6, <2>3, StartEffect
    <3>2. ASSUME NEW p \in Run, run[p].cmd = "backup", Mine(p) = s PROVE FALSE
      <4>1. run[p].pc # "idle" /\ p # q
        BY <3>1, <3>2 DEF Places, PlaceInv
      <4>2. run'[p].cmd = "backup" /\ run'[p].stamp = s
        BY <3>2, <4>1, BackupStays DEF Mine
      <4> QED BY <4>1, <4>2 DEF Alone, BackupOf, Mine
    <3>3. ~Exists(s) /\ sig[s] = Missing /\ committed[s] = Missing
      BY <3>2 DEF FilesKnown, FileInv
    <3> QED BY <2>1, <3>1, <3>3 DEF Life, Exists, Writing, InBackup, InPrune
  <2> QED BY <2>2, <2>3
<1> QED BY <1>4, <1>5, <1>6 DEF Next, Acts, Tick, vars, hist

-----------------------------------------------------------------------------
(* Orphans and verifications *)

LEMMA OrphanNext ==
    ASSUME TypeOK, Places, FilesKnown, Lives, OrphanOnlyFromPrune, [Next]_vars
    PROVE  OrphanOnlyFromPrune'
<1> SUFFICES ASSUME NEW s \in Time, sig'[s] # Missing, archive'[s] = Missing, Alone(s)'
             PROVE  \E r \in Run : /\ run'[r].pc \in {"rmSig", "dead"}
                                   /\ run'[r].at = s /\ s \in run'[r].todo
  BY DEF OrphanOnlyFromPrune, Exists
<1>1. Alone(s)
  BY AloneBefore
<1>2. sig[s] # Missing /\ ~Exists(s) => \E r \in Run : /\ run[r].pc \in {"rmSig", "dead"}
                                                        /\ run[r].at = s /\ s \in run[r].todo
  BY <1>1 DEF OrphanOnlyFromPrune
<1>3. CASE run' = run /\ archive' = archive /\ sig' = sig
  BY <1>2, <1>3 DEF Exists
<1>4. ASSUME NEW r \in Run, NEW cmd \in Command \ {"none"}, Start(r, cmd)
      PROVE  \E q \in Run : /\ run'[q].pc \in {"rmSig", "dead"}
                            /\ run'[q].at = s /\ s \in run'[q].todo
  <2>1. archive' = archive /\ sig' = sig
    BY <1>4 DEF Start
  <2>2. PICK q \in Run : run[q].pc \in {"rmSig", "dead"} /\ run[q].at = s /\ s \in run[q].todo
    BY <1>2, <2>1 DEF Exists
  <2>3. run'[q] = run[q]
    BY <1>4, <2>2, StartEffect
  <2> QED BY <2>2, <2>3
<1>5. ASSUME NEW r \in Run, Acts(r)
      PROVE  \E q \in Run : /\ run'[q].pc \in {"rmSig", "dead"}
                            /\ run'[q].at = s /\ s \in run'[q].todo
  <2>1. Common(r)
    BY <1>5, ActsCommon DEF Places
  <2>2. CASE sig[s] # Missing /\ ~Exists(s)
    <3>1. PICK q \in Run : run[q].pc \in {"rmSig", "dead"} /\ run[q].at = s /\ s \in run[q].todo
      BY <1>2, <2>2
    <3>2. CASE q # r
      BY <2>1, <3>1, <3>2 DEF Common
    <3>3. CASE q = r
      <4>1. run[r].pc = "rmSig"
        BY <2>1, <3>1, <3>3 DEF Common, Over
      <4>2. CASE RemoveSignature(r)
        BY <3>1, <3>3, <4>2, RemoveSignatureEffect
      <4>3. CASE Crash(r)
        BY <3>1, <3>3, <4>3, CrashEffect DEF Moved
      <4> QED BY <1>5, <4>1, <4>2, <4>3 DEF Acts, Step, TarOpen, TarClose, Integrity, RemoveBad, SignOpen,
                SignWrite, Check, Commit, PruneFind, RemoveArchive, VerifyOne, VerifyEnd, At
    <3> QED BY <3>2, <3>3
  <2>3. CASE Exists(s) /\ run[r].pc = "rmArchive"
    <3>2. RemoveArchive(r)
      BY <1>5, <2>3, ArchiveActs, CrashEffect DEF TarOpen, TarClose, RemoveBad, At, Exists
    <3>3. PICK x \in run[r].todo : /\ Listed(r, "rmSig", run[r].todo, run[r].bad, x)
                                   /\ \A y \in Time \ {x} : archive'[y] = archive[y]
      BY <2>3, <3>2, RemoveArchiveEffect DEF Exists
    <3>4. x = s
      BY <2>3, <3>3 DEF Exists
    <3> QED BY <3>3, <3>4 DEF Listed
  <2>4. CASE ~(sig[s] # Missing /\ ~Exists(s)) /\ ~(Exists(s) /\ run[r].pc = "rmArchive")
    <3>1. run[r].cmd = "backup" /\ Mine(r) = s
      <4>1. CASE Exists(s)
        BY <1>5, <2>4, <4>1, ArchiveTouched DEF Exists
      <4>2. CASE sig[s] = Missing
        BY <1>5, <4>2, SigTouched
      <4> QED BY <2>4, <4>1, <4>2
    <3>2. now - s < Lifetime
      BY <1>5, <3>1, StepBegins, ActiveStamp DEF Places
    <3>3. Life(r, s) /\ Alone(Mine(r))
      BY <1>1, <3>1, <3>2 DEF Lives, LifeInv
    <3>4. Life(r, Mine(r))'
      BY <1>5, <3>1, <3>3, LifeStep
    <3>5. Life(r, s)'
      BY <2>1, <3>1, <3>4 DEF Common, Mine, Life, Kept, Sound, IsWhole, Exists
    <3>6. run'[r].pc \in {"failed", "dead", "ok"} \union InBackup \union InPrune
      <4>1. run'[r].pc \in PC /\ run'[r].pc \notin {"idle", "verify"}
        BY <2>1, <3>1 DEF Common, Local, Places, PlaceInv
      <4> QED BY <4>1 DEF PC, InBackup, InPrune
    <3> QED BY <3>5, <3>6 DEF Life, Kept, Sound, IsWhole, Exists, InBackup, InPrune, Writing
  <2> QED BY <2>2, <2>3, <2>4
<1> QED BY <1>3, <1>4, <1>5 DEF Next, Acts, Tick, vars

LEMMA QuietNext ==
    ASSUME TypeOK, Places, FilesKnown, \A r \in quiet : QuietInv(r), [Next]_vars, NEW q \in quiet'
    PROVE  QuietInv(q)'
<1>1. q \in Run
  BY TypeNext DEF TypeOK
<1>2. CASE run' = run /\ archive' = archive /\ sig' = sig /\ quiet' = quiet
  BY <1>2 DEF QuietInv, Active, Signed, Sound, IsWhole, Exists
<1>3. ASSUME NEW r \in Run, NEW cmd \in Command \ {"none"}, Start(r, cmd) PROVE QuietInv(q)'
  <2>1. archive' = archive /\ sig' = sig
    BY <1>3 DEF Start
  <2>2. CASE Active = {}
    <3>1. Active' \subseteq {r} /\ run'[r].pc # "idle"
      BY <1>3, <2>2, StartEffect DEF Active, Command
    <3>2. CASE q = r
      <4>1. run'[r].pc = "verify" => run'[r].todo = Signed /\ run'[r].bad = {}
        BY <1>3, StartEffect
      <4> QED BY <2>1, <3>1, <3>2, <4>1 DEF QuietInv, Signed
    <3>3. CASE q # r
      <4>1. q \in quiet /\ run'[q] = run[q] /\ q \notin Active /\ q \notin Active'
        BY <1>1, <1>3, <2>2, <3>1, <3>3, StartEffect
      <4>2. run[q].pc # "verify"
        BY <1>1, <4>1 DEF Active, Over
      <4> QED BY <4>1, <4>2 DEF QuietInv
    <3> QED BY <3>2, <3>3
  <2>3. CASE Active # {}
    <3>1. q \in quiet /\ q \notin Active
      BY <1>3, <2>3, StartEffect
    <3>2. run[r].pc = "idle" /\ run[q].pc # "idle"
      BY <1>3, <3>1, StartEffect DEF QuietInv
    <3>3. run'[q] = run[q] /\ run[q].pc \in Over
      BY <1>1, <1>3, <3>1, <3>2, StartEffect DEF Active
    <3> QED BY <3>2, <3>3 DEF QuietInv, Active, Over
  <2> QED BY <2>2, <2>3
<1>4. ASSUME NEW r \in Run, Acts(r) PROVE QuietInv(q)'
  <2>1. Common(r) /\ q \in quiet /\ r \in Active
    BY <1>4, ActsCommon DEF Places, Common, Active
  <2>2. QuietInv(q)
    BY <2>1
  <2>3. Active' \subseteq Active /\ run'[q].pc # "idle"
    <3>1. \A p \in Run : run'[p] = run[p] \/ (p = r /\ r \in Active)
      BY <2>1 DEF Common
    <3>2. Active' \subseteq Active
      BY <3>1 DEF Active
    <3>3. run'[q].pc # "idle"
      BY <1>1, <2>1, <2>2, <3>1 DEF Common, QuietInv
    <3> QED BY <3>2, <3>3
  <2>4. CASE q # r
    <3>1. q \notin Active /\ run'[q] = run[q]
      BY <1>1, <2>1, <2>2, <2>4 DEF QuietInv, Common
    <3>2. run[q].pc # "verify" /\ q \notin Active'
      BY <1>1, <2>3, <3>1 DEF Active, Over
    <3> QED BY <2>3, <3>1, <3>2 DEF QuietInv
  <2>5. CASE q = r
    <3>1. Active = {q}
      BY <2>1, <2>2, <2>5 DEF QuietInv
    <3>2. q \in Active' => Active' = {q}
      BY <2>3, <3>1
    <3>3. CASE run'[q].pc # "verify"
      BY <2>3, <3>2, <3>3 DEF QuietInv
    <3>4. CASE run'[q].pc = "verify"
      <4>1. run[q].pc = "verify"
        BY <2>1, <2>5, <3>4 DEF Common
      <4>2. VerifyOne(r)
        <5>1. ~VerifyEnd(r) /\ ~Crash(r)
          BY <2>5, <3>4, VerifyEndEffect, CrashEffect DEF Moved, Listed
        <5> QED BY <1>4, <2>5, <4>1, <5>1 DEF Acts, Step, TarOpen, TarClose, Integrity, RemoveBad, SignOpen, SignWrite,
                  Check, Commit, PruneFind, RemoveArchive, RemoveSignature, At
      <4>3. PICK s \in run[r].todo :
              /\ run'[r].todo = run[r].todo \ {s}
              /\ run'[r].bad = (IF Sound(s) THEN run[r].bad ELSE run[r].bad \union {s})
              /\ archive' = archive /\ sig' = sig
        BY <4>2, VerifyOneEffect DEF Listed
      <4>4. run[r].todo \subseteq Signed /\ run[r].bad = {x \in Signed \ run[r].todo : ~Sound(x)}
        BY <2>2, <2>5, <4>1 DEF QuietInv
      <4>5. /\ run'[r].todo \subseteq Signed
            /\ run'[r].bad = {x \in Signed \ run'[r].todo : ~Sound(x)}
        BY <4>3, <4>4
      <4>6. Signed' = Signed /\ \A x \in Time : Sound(x)' <=> Sound(x)
        BY <4>3 DEF Signed, Sound, IsWhole, Exists
      <4>7. {x \in Signed \ run'[r].todo : ~Sound(x)} = {x \in Signed' \ run'[r].todo : ~Sound(x)'}
        BY <4>6 DEF Signed
      <4> QED BY <2>3, <2>5, <3>2, <4>5, <4>6, <4>7 DEF QuietInv
    <3> QED BY <3>3, <3>4
  <2> QED BY <2>4, <2>5
<1> QED BY <1>2, <1>3, <1>4 DEF Next, Acts, Tick, vars, hist

-----------------------------------------------------------------------------
(* The theorems *)

LEMMA InvInit == Init => Inv
<1> SUFFICES ASSUME Init PROVE Inv
  OBVIOUS
<1>1. \A r \in Run : run[r].pc = "idle" /\ run[r].cmd = "none" /\ run[r].stamp = 0
  BY DEF Init
<1>2. \A s \in Time : archive[s] = Missing /\ sig[s] = Missing /\ committed[s] = Missing
  BY DEF Init
<1>3. 1 \in Time
  BY BackupAssumption DEF Time
<1>4. TypeOK
  BY <1>3 DEF Init, TypeOK, Local, PC, Command
<1>5. \A r \in Run : PlaceInv(r) /\ ListInv(r) /\ PruneInv(r)
  BY <1>1 DEF PlaceInv, ListInv, PruneInv, Active, InBackup, InPrune
<1>6. \A s \in Time : FileInv(s) /\ LifeInv(s)
  BY <1>1, <1>2 DEF FileInv, LifeInv, Exists
<1>7. OrphanOnlyFromPrune /\ quiet = {}
  BY <1>2 DEF OrphanOnlyFromPrune, Init
<1> QED BY <1>4, <1>5, <1>6, <1>7 DEF Inv

LEMMA InvParts == Inv <=> /\ TypeOK /\ Places /\ FilesKnown /\ Lives /\ OrphanOnlyFromPrune
                          /\ \A r \in Run : PruneInv(r)
                          /\ \A r \in quiet : QuietInv(r)
BY DEF Inv, Places, FilesKnown, Lives

LEMMA InvNext == ASSUME Inv, [Next]_vars PROVE Inv'
<1>1. /\ TypeOK /\ Places /\ FilesKnown /\ Lives /\ OrphanOnlyFromPrune
      /\ \A r \in Run : PruneInv(r)
      /\ \A r \in quiet : QuietInv(r)
  BY InvParts
<1>2. TypeOK'
  BY <1>1, TypeNext
<1>3. \A r \in Run : PlaceInv(r)' /\ ListInv(r)' /\ PruneInv(r)'
  BY <1>1, PlaceNext, ListNext, PruneNext
<1>4. \A s \in Time : FileInv(s)' /\ LifeInv(s)'
  BY <1>1, FileNext, LifeNext
<1>5. \A r \in quiet' : QuietInv(r)'
  BY <1>1, QuietNext
<1>6. OrphanOnlyFromPrune'
  BY <1>1, OrphanNext
<1> QED BY <1>2, <1>3, <1>4, <1>5, <1>6 DEF Inv

LEMMA InvHolds == Spec => []Inv
BY InvInit, InvNext, PTL DEF Spec

\* Type correctness of every invocation and of the store.
THEOREM TypeOKHolds == Spec => []TypeOK
<1>1. Inv => TypeOK
  BY DEF Inv
<1> QED BY <1>1, InvHolds, PTL

\* What a backup announced is in the store, whole and signed, until its stamp is a
\* day older than the retention, for any number of invocations and kills.
THEOREM CommittedStays == Spec => []CommittedKept
<1>1. Inv => CommittedKept
  <2> SUFFICES ASSUME Inv, NEW s \in Time, committed[s] # Missing, Alone(s), ~(now - s >= Lifetime)
               PROVE  Kept(s)
    BY DEF CommittedKept
  <2>1. now - s < Lifetime
    BY BackupAssumption, LifetimeType DEF Inv, TypeOK, Time
  <2>2. PICK r \in Run : run[r].cmd = "backup" /\ Mine(r) = s
    BY DEF Inv, FileInv
  <2>3. Life(r, s)
    BY <2>1, <2>2 DEF Inv, LifeInv
  <2>4. run[r].pc \in {"ok", "failed", "dead"} \union InBackup \union InPrune
    <3>1. run[r].pc \in PC /\ run[r].pc \notin {"idle", "verify"}
      BY <2>2, LocalType DEF Inv, PlaceInv
    <3> QED BY <3>1 DEF PC, InBackup, InPrune
  <2> QED BY <2>3, <2>4 DEF Life, InBackup, InPrune
<1> QED BY <1>1, InvHolds, PTL

\* A signature has lost its archive to a prune that is between its two unlinks,
\* or was killed there.
THEOREM OrphansFromPrunes == Spec => []OrphanOnlyFromPrune
<1>1. Inv => OrphanOnlyFromPrune
  BY DEF Inv
<1> QED BY <1>1, InvHolds, PTL

\* What a verify counts that nothing overlaps is exactly what is wrong.
THEOREM VerifyIsExact == Spec => []VerifyExact
<1>1. Inv => VerifyExact
  <2> SUFFICES ASSUME Inv, NEW r \in quiet, run[r].pc = "verify", run[r].todo = {}
               PROVE  run[r].bad = {s \in Time : sig[s] # Missing /\ ~Sound(s)}
    BY DEF VerifyExact, At
  <2>1. QuietInv(r)
    BY DEF Inv
  <2> QED BY <2>1 DEF QuietInv, Signed
<1> QED BY <1>1, InvHolds, PTL

\* A backup that succeeds has removed what had expired when it was started and its
\* find has listed, whatever was started and killed meanwhile: only what a failing
\* find leaves out stays.
THEOREM SuccessHasPruned == Spec => []SuccessPrunes
<1>1. Inv => SuccessPrunes
  <2> SUFFICES ASSUME Inv, NEW r \in Run, run[r].cmd = "backup", run[r].pc = "ok",
                      NEW s \in Time \ missed[r], Exists(s), archive[s].writers = {}
               PROVE  Mine(r) - archive[s].mtime < Lifetime
    BY DEF SuccessPrunes, ExpiredGone, At
  <2>1. Stale(r) = {}
    BY DEF Inv, PruneInv
  <2>2. ~(Mine(r) - archive[s].mtime >= Lifetime)
    BY <2>1 DEF Stale
  <2>3. Mine(r) \in Nat /\ archive[s].mtime \in Nat /\ Lifetime \in Nat
    BY BackupAssumption, LifetimeType DEF Inv, PlaceInv, TypeOK, Time, Exists, File
  <2> QED BY <2>2, <2>3
<1> QED BY <1>1, InvHolds, PTL

\* No archive goes before its time, unless a backup of its second could not read it;
\* one that no other shares its second with has announced nothing then.
THEOREM RemovalsHaveCauses == Spec => RemovedForCause
<1> DEFINE Unread(s) == /\ \E r \in Run : At(r, "rmBad") /\ Mine(r) = s
                        /\ Alone(s) => committed[s] = Missing
           Cause(s)  == now - archive[s].mtime >= Lifetime \/ Unread(s)
<1>1. ASSUME Inv, [Next]_vars, NEW s \in Time, Exists(s), archive'[s] = Missing
      PROVE  Cause(s)
  <2>1. TypeOK /\ Places /\ FilesKnown /\ Lives
    BY <1>1, InvParts
  <2>2. ASSUME NEW r \in Run, Acts(r)
        PROVE  Cause(s)
    <3>1. CASE run[r].cmd = "backup" /\ Mine(r) = s /\ run[r].pc = "rmBad"
      <4>1. now - s < Lifetime
        BY <2>1, <2>2, <3>1, StepBegins, ActiveStamp DEF Places
      <4>2. Alone(s) => Life(r, s)
        BY <2>1, <3>1, <4>1 DEF Lives, LifeInv
      <4>3. Alone(s) => committed[s] = Missing
        BY <3>1, <4>2 DEF Life, InBackup
      <4> QED BY <3>1, <4>3 DEF At
    <3>2. CASE run[r].pc = "rmArchive" /\ s \in run[r].todo
      BY <1>1, <2>1, <3>2 DEF Places, ListInv
    <3> HIDE DEF Cause
    <3> QED BY <1>1, <2>1, <2>2, <3>1, <3>2, ArchiveTouched DEF Exists
  <2>3. archive' = archive \/ \E r \in Run : Acts(r)
    BY <1>1 DEF Next, Acts, Start, Tick, vars
  <2> HIDE DEF Cause
  <2> QED BY <1>1, <2>2, <2>3 DEF Exists
<1>2. Inv /\ [Next]_vars =>
        [\A s \in Time : Exists(s) /\ archive'[s] = Missing =>
           \/ now - archive[s].mtime >= Lifetime
           \/ /\ \E r \in Run : At(r, "rmBad") /\ Mine(r) = s
              /\ Alone(s) => committed[s] = Missing]_vars
  BY <1>1
<1> QED BY <1>2, InvHolds, PTL DEF Spec, RemovedForCause

-----------------------------------------------------------------------------
(* The end of an invocation *)

\* Remaining, of a place.
Left(l) ==
    LET rank == [tar |-> 10, tarring |-> 9, tar2 |-> 8, tarring2 |-> 7, integrity |-> 6,
                 sign |-> 5, signing |-> 4, check |-> 3, commit |-> 2, prune |-> 1, rmBad |-> 0]
        n    == Cardinality(l.todo)
    IN  CASE l.pc = "rmArchive" -> 2 * n + 1
          [] l.pc = "rmSig"     -> 2 * n
          [] l.pc = "verify"    -> n + 1
          [] l.pc \in Over      -> 0
          [] OTHER              -> 2 * MaxTime + 1 + rank[l.pc]

LEMMA Counted ==
    ASSUME NEW A \in SUBSET Time
    PROVE  /\ IsFiniteSet(A) /\ Cardinality(A) \in 0..MaxTime
           /\ A = {} => Cardinality(A) = 0
           /\ \A s \in A : Cardinality(A \ {s}) = Cardinality(A) - 1
<1>1. IsFiniteSet(Time) /\ Cardinality(Time) = MaxTime
  BY FS_Interval, BackupAssumption DEF Time
<1>2. IsFiniteSet(A) /\ Cardinality(A) <= MaxTime /\ Cardinality(A) \in Nat
  BY <1>1, FS_Subset, FS_CardinalityType
<1> QED BY <1>2, FS_EmptySet, FS_RemoveElement, BackupAssumption

LEMMA LeftIs ==
    ASSUME NEW l \in Local
    PROVE  /\ l.pc = "rmArchive" => Left(l) = 2 * Cardinality(l.todo) + 1
           /\ l.pc = "rmSig" => Left(l) = 2 * Cardinality(l.todo)
           /\ l.pc = "verify" => Left(l) = Cardinality(l.todo) + 1
           /\ l.pc \in Over => Left(l) = 0
           /\ l.pc = "tar" => Left(l) = 2 * MaxTime + 11
           /\ l.pc = "tarring" => Left(l) = 2 * MaxTime + 10
           /\ l.pc = "tar2" => Left(l) = 2 * MaxTime + 9
           /\ l.pc = "tarring2" => Left(l) = 2 * MaxTime + 8
           /\ l.pc = "integrity" => Left(l) = 2 * MaxTime + 7
           /\ l.pc = "sign" => Left(l) = 2 * MaxTime + 6
           /\ l.pc = "signing" => Left(l) = 2 * MaxTime + 5
           /\ l.pc = "check" => Left(l) = 2 * MaxTime + 4
           /\ l.pc = "commit" => Left(l) = 2 * MaxTime + 3
           /\ l.pc = "prune" => Left(l) = 2 * MaxTime + 2
           /\ l.pc = "rmBad" => Left(l) = 2 * MaxTime + 1
<1>1. 2 * MaxTime \in Nat
  BY BackupAssumption
<1>2. CASE l.pc \in {"rmArchive", "rmSig", "verify"} \union Over
  BY <1>2 DEF Left, Over
<1>3. CASE l.pc \notin {"rmArchive", "rmSig", "verify"} \union Over
  BY <1>1, <1>3 DEF Left
<1> QED BY <1>2, <1>3

LEMMA ActsLess ==
    ASSUME TypeOK, Places, NEW r \in Run, Acts(r)
    PROVE  Left(run'[r]) < Left(run[r])
<1> DEFINE n == Cardinality(run[r].todo)
           m == Cardinality(run'[r].todo)
<1>1. /\ run[r] \in Local /\ run'[r] \in Local /\ MaxTime \in Nat
      /\ run[r].todo \in SUBSET Time /\ run'[r].todo \in SUBSET Time
      /\ run[r].pc \notin Over \union {"idle"} /\ Mine(r) \in Time
  BY LocalType, ActsCommon, StepBegins, ActiveStamp, BackupAssumption DEF Places, Common, Local
<1>2. n \in 0..MaxTime /\ m \in 0..MaxTime
  BY <1>1, Counted
<1>3. Left(run[r]) \in Nat
  <2>1. run[r].pc \in PC
    BY LocalType
  <2> QED BY <1>1, <1>2, <2>1, LeftIs DEF PC, Over
<1>4. CASE run[r].pc \in InBackup /\ run'[r].pc \notin Over
  <2>1. CASE TarOpen(r)
    BY <1>1, <2>1, TarOpenEffect, LeftIs DEF Moved
  <2>2. CASE TarClose(r)
    BY <1>1, <1>4, <2>2, TarCloseEffect, LeftIs DEF Moved, Over, Writing
  <2>3. CASE Integrity(r)
    BY <1>1, <1>4, <2>3, IntegrityEffect, LeftIs DEF Moved, Over
  <2>4. CASE SignOpen(r)
    BY <1>1, <1>4, <2>4, SignOpenEffect, LeftIs DEF Moved, Over
  <2>5. CASE SignWrite(r)
    BY <1>1, <1>4, <2>5, SignWriteEffect, LeftIs DEF Moved, Over
  <2>6. CASE Check(r)
    BY <1>1, <1>4, <2>6, CheckEffect, LeftIs DEF Moved, Over
  <2>7. CASE Commit(r)
    BY <1>1, <1>4, <2>7, CommitEffect, LeftIs DEF Moved, Over
  <2>8. ~Crash(r)
    BY <1>4, CrashEffect DEF Moved, Over
  <2>9. ~RemoveBad(r)
    BY <1>1, <1>4, RemoveBadEffect DEF Moved, Over
  <2> QED BY <1>4, <2>1, <2>2, <2>3, <2>4, <2>5, <2>6, <2>7, <2>8, <2>9
          DEF Acts, Step, PruneFind, RemoveArchive, RemoveSignature, VerifyOne, VerifyEnd, At, InBackup
<1>5. CASE PruneFind(r)
  BY <1>1, <1>2, <1>5, PruneFindEffect, LeftIs DEF Listed
<1>6. CASE RemoveArchive(r) /\ run'[r].pc \notin Over
  BY <1>1, <1>2, <1>6, RemoveArchiveEffect, LeftIs DEF Moved, Listed, Over
<1>7. CASE RemoveSignature(r)
  <2>1. run[r].at \in run[r].todo /\ run[r].pc = "rmSig" /\ run[r].at \in Time
    BY <1>1, <1>7 DEF RemoveSignature, At, Places, ListInv
  <2>2. run'[r].pc = "rmArchive" /\ run'[r].todo = run[r].todo \ {run[r].at}
    BY <1>7, <2>1, RemoveSignatureEffect DEF Listed
  <2>3. m = n - 1
    BY <1>1, <2>1, <2>2, Counted
  <2>4. Left(run[r]) = 2 * n /\ Left(run'[r]) = 2 * m + 1
    BY <1>1, <2>1, <2>2, LeftIs
  <2> HIDE DEF n, m
  <2> QED BY <1>2, <2>3, <2>4
<1>8. CASE VerifyOne(r)
  <2>1. PICK s \in run[r].todo : run'[r].pc = "verify" /\ run'[r].todo = run[r].todo \ {s}
    BY <1>8, VerifyOneEffect DEF Listed
  <2>2. m = n - 1
    BY <1>1, <2>1, Counted
  <2>3. Left(run[r]) = n + 1 /\ Left(run'[r]) = m + 1
    BY <1>1, <1>8, <2>1, VerifyOneEffect, LeftIs
  <2> HIDE DEF n, m
  <2> QED BY <1>2, <2>2, <2>3
<1>9. CASE run'[r].pc \in Over
  <2>1. Left(run'[r]) = 0
    BY <1>1, <1>9, LeftIs
  <2>2. run[r].pc = "rmSig" => n # 0
    <3>1. run[r].pc = "rmSig" => run[r].todo # {}
      BY DEF Places, ListInv
    <3>2. n = 0 => run[r].todo = {}
      BY <1>1, Counted, FS_EmptySet
    <3> QED BY <3>1, <3>2
  <2>3. Left(run[r]) > 0
    <3>1. run[r].pc \in PC
      BY LocalType
    <3> QED BY <1>1, <1>2, <2>2, <3>1, LeftIs DEF PC, Over
  <2> QED BY <1>3, <2>1, <2>3
<1>10. run[r].pc \in InBackup \/ PruneFind(r) \/ RemoveArchive(r) \/ RemoveSignature(r)
       \/ VerifyOne(r) \/ run'[r].pc \in Over
  BY VerifyEndEffect, CrashEffect DEF Moved, Listed, Over, Acts, Step, TarOpen, TarClose, Integrity, RemoveBad, SignOpen,
     SignWrite, Check, Commit, At, InBackup
<1> QED BY <1>4, <1>5, <1>6, <1>7, <1>8, <1>9, <1>10

\* Each step of an invocation, also its being killed, brings it nearer to its end.
THEOREM StepsRunOut == Spec => EndsInSteps
<1>1. ASSUME Inv, [Next]_vars, NEW q \in Active, run'[q] # run[q]
      PROVE  Remaining(q)' < Remaining(q)
  <2>1. TypeOK /\ Places /\ q \in Run
    BY <1>1, InvParts DEF Active
  <2>2. Remaining(q)' = Left(run'[q]) /\ Remaining(q) = Left(run[q])
    BY DEF Remaining, Left
  <2>3. ASSUME NEW r \in Run, Acts(r) PROVE q = r
    BY <1>1, <2>1, <2>3, ActsCommon DEF Places, Common
  <2>4. ASSUME NEW r \in Run, NEW cmd \in Command \ {"none"}, Start(r, cmd) PROVE FALSE
    BY <1>1, <2>1, <2>4, StartEffect DEF Active
  <2>5. Acts(q)
    BY <1>1, <2>1, <2>3, <2>4 DEF Next, Acts, Tick, vars
  <2> QED BY <2>1, <2>2, <2>5, ActsLess
<1>2. Inv /\ [Next]_vars => [\A r \in Active : Nearer(r)]_vars
  BY <1>1 DEF Nearer
<1> QED BY <1>2, InvHolds, PTL DEF Spec, EndsInSteps

-----------------------------------------------------------------------------
(* The contract *)

\* What the contract has for a stamp.
Stored(s) == IF Kept(s) /\ Alone(s) THEN committed[s] ELSE Missing
WholeBackup == [what : Whole, by : Run]

LEMMA KeptIsWhole ==
    ASSUME TypeOK, NEW s \in Time, Kept(s)
    PROVE  committed[s] \in WholeBackup /\ committed[s] # Missing
<1>1. archive[s] \in File /\ archive[s].content.what \in Whole
  BY DEF TypeOK, Kept, Sound, IsWhole, Exists
<1>2. archive[s].content \in Content
  BY <1>1 DEF File
<1>3. archive[s].content \in WholeBackup
  BY <1>1, <1>2 DEF Content, WholeBackup
<1> QED BY <1>2, <1>3, NoFileAssumption DEF Kept

LEMMA AloneIs ==
    ASSUME NEW s, \A q \in Run : BackupOf(q, s)' <=> BackupOf(q, s)
    PROVE  Alone(s)' <=> Alone(s)
BY DEF Alone

\* A step that does not touch the clock changes the store by one announcement, one
\* release, one collision, or not at all.
LEMMA StoreStep ==
    ASSUME now' = now, NEW s \in Time, s \in Int, now \in Int, Lifetime \in Int,
           \A x \in Time \ {s} : Stored(x)' = Stored(x) /\ (Alone(x)' <=> Alone(x)),
           \/ Stored(s)' = Stored(s) /\ (Alone(s)' <=> Alone(s))
           \/ /\ Stored(s) = Missing /\ Stored(s)' \in WholeBackup
              /\ Alone(s) /\ Alone(s)' /\ s <= now /\ now - s < Lifetime
           \/ /\ Stored(s) # Missing /\ Stored(s)' = Missing
              /\ now - s >= Lifetime /\ (Alone(s)' <=> Alone(s))
           \/ s = now /\ Alone(s) /\ ~Alone(s)' /\ Stored(s)' = Missing
    PROVE  [Contract!Next]_(Contract!vars)
<1> DEFINE store == [x \in Time |-> IF Kept(x) /\ Alone(x) THEN committed[x] ELSE Missing]
           shared == [x \in Time |-> ~Alone(x)]
<1>1. /\ store[s] = Stored(s) /\ store'[s] = Stored(s)' /\ shared[s] = ~Alone(s)
      /\ \A x \in Time \ {s} : store'[x] = store[x]
  BY DEF Stored
<1>2. /\ store = [x \in Time |-> store[x]]
      /\ store' = [x \in Time |-> store'[x]]
  OBVIOUS
<1>3. (Alone(s)' <=> Alone(s)) => shared' = shared
  OBVIOUS
<1>4. ~Alone(s)' => shared' = [shared EXCEPT ![s] = TRUE]
  OBVIOUS
<1>5. store' = [store EXCEPT ![s] = store'[s]] /\ (store'[s] = store[s] => store' = store)
  <2> HIDE DEF store
  <2> QED BY <1>1, <1>2
<1>6. CASE Stored(s)' = Stored(s) /\ (Alone(s)' <=> Alone(s))
  <2>1. store' = store /\ shared' = shared
    BY <1>1, <1>3, <1>5, <1>6
  <2> QED BY <2>1 DEF Contract!vars
<1>7. CASE /\ Stored(s) = Missing /\ Stored(s)' \in WholeBackup
           /\ Alone(s) /\ Alone(s)' /\ s <= now /\ now - s < Lifetime
  <2>1. /\ store[s] = Missing /\ store'[s] \in [what : Whole, by : Run]
        /\ store' = [store EXCEPT ![s] = store'[s]]
    BY <1>1, <1>5, <1>7 DEF WholeBackup
  <2>2. ~shared[s] /\ shared' = shared
    BY <1>3, <1>7
  <2>3. s <= now /\ ~(now - s >= Lifetime)
    BY <1>7
  <2>4. Contract!Announce(s)
    BY <2>1, <2>2, <2>3 DEF Contract!Announce, Contract!Only, Contract!Expired
  <2> QED BY <2>4 DEF Contract!Next
<1>8. CASE /\ Stored(s) # Missing /\ Stored(s)' = Missing
           /\ now - s >= Lifetime /\ (Alone(s)' <=> Alone(s))
  <2>1. /\ store[s] # Missing /\ store'[s] = Missing
        /\ store' = [store EXCEPT ![s] = store'[s]] /\ shared' = shared
        /\ now - s >= Lifetime
    BY <1>1, <1>3, <1>5, <1>8
  <2>2. Contract!Release(s)
    BY <2>1 DEF Contract!Release, Contract!Only, Contract!Expired
  <2> QED BY <2>2 DEF Contract!Next
<1>9. CASE s = now /\ Alone(s) /\ ~Alone(s)' /\ Stored(s)' = Missing
  <2>1. /\ ~shared[s] /\ shared' = [shared EXCEPT ![s] = TRUE] /\ store'[s] = Missing
        /\ store' = [store EXCEPT ![s] = store'[s]]
    BY <1>1, <1>4, <1>5, <1>9
  <2>2. Contract!Share(s)
    BY <1>9, <2>1 DEF Contract!Share, Contract!Only
  <2> QED BY <2>2 DEF Contract!Next
<1> QED BY <1>6, <1>7, <1>8, <1>9

\* What the store has under x is not touched.
Same(x) == (Kept(x)' <=> Kept(x)) /\ committed'[x] = committed[x]

LEMMA SameFiles ==
    ASSUME NEW x, archive'[x] = archive[x], sig'[x] = sig[x], committed'[x] = committed[x]
    PROVE  Same(x)
BY DEF Same, Kept, Sound, IsWhole, Exists

\* A backup touches its own stamp until it has committed; a prune touches one that
\* is too old.
LEMMA OneTouched ==
    ASSUME TypeOK, Places, FilesKnown, NEW r \in Run, Acts(r)
    PROVE  \/ \A x \in Time : Same(x)
           \/ run[r].pc \in InBackup /\ \A x \in Time \ {Mine(r)} : Same(x)
           \/ \E y \in Time : /\ now - y >= Lifetime
                              /\ Kept(y)' => Kept(y)
                              /\ committed'[y] = committed[y]
                              /\ \A x \in Time \ {y} : Same(x)
<1>1. Mine(r) \in Time /\ PlaceInv(r) /\ ListInv(r)
  BY StepBegins, ActiveStamp DEF Places
<1>2. CASE \/ TarOpen(r) \/ TarClose(r) \/ Integrity(r) \/ RemoveBad(r)
           \/ SignOpen(r) \/ SignWrite(r) \/ Commit(r)
  <2>1. run[r].pc \in InBackup
    BY <1>2 DEF TarOpen, TarClose, Integrity, RemoveBad, SignOpen, SignWrite, Commit, At, InBackup
  <2>2. ASSUME NEW x \in Time \ {Mine(r)}
        PROVE  archive'[x] = archive[x] /\ sig'[x] = sig[x] /\ committed'[x] = committed[x]
    BY <1>1, <1>2, TarOpenEffect, TarCloseEffect, IntegrityEffect, RemoveBadEffect,
       SignOpenEffect, SignWriteEffect, CommitEffect
  <2> QED BY <2>1, <2>2, SameFiles
<1>3. CASE Check(r) \/ PruneFind(r) \/ VerifyOne(r) \/ VerifyEnd(r)
  <2>1. archive' = archive /\ sig' = sig /\ committed' = committed
    BY <1>3 DEF Check, PruneFind, VerifyOne, VerifyEnd, hist
  <2> QED BY <2>1, SameFiles
<1>4. CASE RemoveArchive(r)
  <2>1. sig' = sig /\ committed' = committed
    BY <1>4, RemoveArchiveEffect
  <2>2. CASE archive' = archive
    BY <2>1, <2>2, SameFiles
  <2>3. ASSUME NEW y \in run[r].todo, archive'[y] = Missing,
               \A x \in Time \ {y} : archive'[x] = archive[x]
        PROVE  /\ y \in Time /\ now - y >= Lifetime /\ ~Kept(y)' /\ committed'[y] = committed[y]
               /\ \A x \in Time \ {y} : Same(x)
    <3>1. run[r].pc = "rmArchive" /\ y \in Time
      BY <1>4, LocalType, RemoveArchiveEffect
    <3>2. now - y >= Lifetime
      BY <1>1, <3>1 DEF ListInv
    <3>3. ~Kept(y)'
      BY <2>3 DEF Kept, Sound, IsWhole, Exists
    <3> QED BY <2>1, <2>3, <3>1, <3>2, <3>3, SameFiles
  <2> QED BY <1>4, <2>2, <2>3, RemoveArchiveEffect
<1>5. CASE RemoveSignature(r)
  <2>1. ASSUME NEW y, y = run[r].at
        PROVE  /\ y \in Time /\ now - y >= Lifetime /\ ~Kept(y)' /\ committed'[y] = committed[y]
               /\ \A x \in Time \ {y} : Same(x)
    <3>1. run[r].pc = "rmSig" /\ y \in run[r].todo /\ y \in Time /\ now - y >= Lifetime
      BY <1>1, <1>5, <2>1, LocalType DEF RemoveSignature, At, ListInv
    <3>2. /\ archive' = archive /\ committed' = committed /\ sig'[y] = Missing
          /\ \A x \in Time \ {y} : sig'[x] = sig[x]
      BY <1>5, <2>1, <3>1, RemoveSignatureEffect
    <3>3. ~Kept(y)'
      <4>1. archive[y] \in File => archive[y].content # Missing
        BY NoFileAssumption DEF File
      <4>2. archive[y] \in File \/ archive[y] = Missing
        BY <3>1 DEF TypeOK
      <4> QED BY <3>2, <4>1, <4>2 DEF Kept, Sound, IsWhole, Exists
    <3> QED BY <3>1, <3>2, <3>3, SameFiles
  <2> QED BY <2>1
<1>6. CASE Crash(r)
  <2>1. ASSUME NEW x \in Time PROVE Same(x)
    <3>1. sig' = sig /\ committed' = committed
      BY <1>6, CrashEffect
    <3>2. \/ archive'[x] = archive[x]
          \/ /\ archive[x] # Missing /\ archive'[x] # Missing
             /\ archive'[x].content = archive[x].content
      BY <1>6, CrashEffect DEF Exists
    <3> QED BY <3>1, <3>2 DEF Same, Kept, Sound, IsWhole, Exists
  <2> QED BY <2>1
<1> QED BY <1>2, <1>3, <1>4, <1>5, <1>6 DEF Acts, Step

LEMMA ActsMeetContract ==
    ASSUME Inv, NEW r \in Run, Acts(r)
    PROVE  [Contract!Next]_(Contract!vars)
<1>1. TypeOK /\ Places /\ FilesKnown /\ Lives
  BY InvParts
<1>2. now' = now /\ Time \subseteq Int /\ now \in Int /\ Lifetime \in Int
  BY <1>1, ActsCommon, BackupAssumption, LifetimeType DEF Places, Common, TypeOK, Time
<1>3. \A x \in Time : Alone(x)' <=> Alone(x)
  <2>1. \A q \in Run : run'[q].cmd = run[q].cmd /\ run'[q].stamp = run[q].stamp
    BY <1>1, ActsCommon DEF Places, Common
  <2> QED BY <2>1, AloneIs DEF BackupOf, Mine
<1>4. ASSUME NEW x \in Time, Same(x) PROVE Stored(x)' = Stored(x)
  BY <1>3, <1>4 DEF Stored, Same
<1>5. CASE \A x \in Time : Same(x)
  <2>1. \A x \in Time : Stored(x)' = Stored(x)
    BY <1>4, <1>5
  <2>2. Mine(r) \in Time
    BY <1>1, StepBegins, ActiveStamp DEF Places
  <2> QED BY <1>2, <1>3, <2>1, <2>2, StoreStep
<1>6. CASE run[r].pc \in InBackup /\ \A x \in Time \ {Mine(r)} : Same(x)
  <2> SUFFICES ASSUME NEW s, s = Mine(r) PROVE [Contract!Next]_(Contract!vars)
    OBVIOUS
  <2>1. s \in Time /\ s <= now /\ now - s < Lifetime /\ run[r].cmd = "backup"
    BY <1>1, <1>6, StepBegins, ActiveStamp DEF Places, PlaceInv
  <2>2. \A x \in Time \ {s} : Stored(x)' = Stored(x)
    BY <1>4, <1>6
  <2>3. CASE ~Alone(s)
    <3>1. Stored(s)' = Stored(s)
      BY <1>3, <2>1, <2>3 DEF Stored
    <3> QED BY <1>2, <1>3, <2>1, <2>2, <3>1, StoreStep
  <2>4. CASE Alone(s)
    <3>1. Life(r, s)
      BY <1>1, <2>1, <2>4 DEF Lives, LifeInv
    <3>2. committed[s] = Missing
      BY <1>6, <3>1 DEF Life
    <3>3. Stored(s) = Missing
      BY <3>2 DEF Stored
    <3>4. Stored(s)' = Missing \/ Stored(s)' \in WholeBackup
      <4>1. TypeOK'
        BY <1>1, TypeNext DEF Next, Acts
      <4>2. Kept(s)' => committed'[s] \in WholeBackup
        <5>1. ASSUME TypeOK', Kept(s)' PROVE committed'[s] \in WholeBackup
          <6>1. archive'[s] \in File /\ archive'[s].content.what \in Whole
                /\ committed'[s] = archive'[s].content
            BY <2>1, <5>1 DEF TypeOK, Kept, Sound, IsWhole, Exists
          <6> QED BY <6>1 DEF File, Content, WholeBackup
        <5> QED BY <4>1, <5>1
      <4> QED BY <4>2 DEF Stored
    <3>5. Alone(s)'
      BY <1>3, <2>1, <2>4
    <3> QED BY <1>2, <1>3, <2>1, <2>2, <2>4, <3>3, <3>4, <3>5, StoreStep
  <2> QED BY <2>3, <2>4
<1>7. ASSUME NEW y \in Time, now - y >= Lifetime, Kept(y)' => Kept(y),
             committed'[y] = committed[y], \A x \in Time \ {y} : Same(x)
      PROVE  [Contract!Next]_(Contract!vars)
  <2>1. \A x \in Time \ {y} : Stored(x)' = Stored(x)
    BY <1>4, <1>7
  <2>2. Stored(y)' = Stored(y) \/ (Stored(y) # Missing /\ Stored(y)' = Missing)
    <3>1. Stored(y)' = Stored(y) \/ Stored(y)' = Missing
      BY <1>3, <1>7 DEF Stored
    <3> QED BY <3>1
  <2> QED BY <1>2, <1>3, <1>7, <2>1, <2>2, StoreStep
<1> QED BY <1>1, <1>5, <1>6, <1>7, OneTouched

LEMMA StartMeetsContract ==
    ASSUME Inv, NEW r \in Run, NEW cmd \in Command \ {"none"}, Start(r, cmd)
    PROVE  [Contract!Next]_(Contract!vars)
<1>1. TypeOK /\ Places /\ [Next]_vars
  BY InvParts DEF Next
<1>2. now' = now /\ archive' = archive /\ sig' = sig /\ committed' = committed
  BY DEF Start
<1>3. Time \subseteq Int /\ now \in Int /\ now \in Time /\ Lifetime \in Int
  BY <1>1, BackupAssumption, LifetimeType DEF TypeOK, Time
<1>4. \A x \in Time : Kept(x)' <=> Kept(x)
  BY <1>2, SameFiles DEF Same
<1>5. ASSUME NEW x \in Time, x # now PROVE Alone(x)' <=> Alone(x)
  <2>1. run[r].cmd = "none" /\ run'[r].stamp # x /\ \A q \in Run \ {r} : run'[q] = run[q]
    BY <1>1, <1>5, StartEffect DEF Places, PlaceInv
  <2>2. \A q \in Run : BackupOf(q, x)' <=> BackupOf(q, x)
    BY <2>1 DEF BackupOf, Mine
  <2> QED BY <2>2, AloneIs
<1>6. Alone(now)' => Alone(now)
  BY <1>1, <1>2, <1>3, AloneBefore
<1>7. \A x \in Time \ {now} : Stored(x)' = Stored(x)
  BY <1>2, <1>4, <1>5 DEF Stored
<1>8. CASE Alone(now)' <=> Alone(now)
  <2>1. Stored(now)' = Stored(now)
    BY <1>2, <1>3, <1>4, <1>8 DEF Stored
  <2> QED BY <1>2, <1>3, <1>5, <1>7, <1>8, <2>1, StoreStep
<1>9. CASE Alone(now) /\ ~Alone(now)'
  <2>1. Stored(now)' = Missing
    BY <1>9 DEF Stored
  <2> QED BY <1>2, <1>3, <1>5, <1>7, <1>9, <2>1, StoreStep
<1> QED BY <1>6, <1>8, <1>9

\* The directory implements the contract of the store: for any number of invocations
\* that overlap and are killed, a backup appears there whole, at one instant and
\* unexpired, is not altered, goes only when it has expired and does not come back.
THEOREM StoreMeetsContract == Spec => MeetsBackupContract
<1>1. Init => Contract!Init
  <2> SUFFICES ASSUME Init PROVE Contract!Init
    OBVIOUS
  <2>1. \A s \in Time : ~Kept(s)
    BY DEF Init, Kept, Sound, IsWhole, Exists
  <2>2. \A s \in Time : Alone(s)
    BY DEF Init, Alone, BackupOf
  <2> QED BY <2>1, <2>2 DEF Init, Contract!Init
<1>2. Inv /\ [Next]_vars => [Contract!Next]_(Contract!vars)
  <2> SUFFICES ASSUME Inv, [Next]_vars PROVE [Contract!Next]_(Contract!vars)
    OBVIOUS
  <2>1. ASSUME NEW r \in Run, Step(r) \/ Crash(r) PROVE [Contract!Next]_(Contract!vars)
    BY <2>1, ActsMeetContract DEF Acts
  <2>2. ASSUME NEW r \in Run, NEW cmd \in Command \ {"none"}, Start(r, cmd)
        PROVE  [Contract!Next]_(Contract!vars)
    BY <2>2, StartMeetsContract
  <2>3. CASE Tick \/ UNCHANGED vars
    <3>1. run' = run /\ archive' = archive /\ sig' = sig /\ committed' = committed
      BY <2>3 DEF Tick, vars, hist
    <3>2. now' = now + 1 \/ now' = now
      BY <2>3 DEF Tick, vars
    <3>3. \A x \in Time : (Kept(x)' <=> Kept(x)) /\ (Alone(x)' <=> Alone(x))
      BY <3>1 DEF Kept, Sound, IsWhole, Exists, Alone, BackupOf, Mine
    <3> QED BY <3>1, <3>2, <3>3 DEF Contract!Next, Contract!Advance, Contract!vars
  <2> QED BY <2>1, <2>2, <2>3 DEF Next
<1> QED BY <1>1, <1>2, InvHolds, PTL DEF Spec, MeetsBackupContract, Contract!Spec

\* A second about which nothing is promised any more.
Spent(s) == now - s >= Lifetime \/ ~Alone(s)

ComesOnce(s) ==
    /\ Stored(s) # Missing => Stored(s)' = Stored(s) \/ (Stored(s)' = Missing /\ Spent(s)')
    /\ Spent(s) => Spent(s)' /\ (Stored(s) = Missing => Stored(s)' = Missing)

\* What a step of the contract is to the backup of one second.
LEMMA ContractComesOnce ==
    ASSUME TypeOK, NEW s \in Time, [Contract!Next]_(Contract!vars)
    PROVE  ComesOnce(s)
<1> DEFINE store  == [x \in Time |-> IF Kept(x) /\ Alone(x) THEN committed[x] ELSE Missing]
           shared == [x \in Time |-> ~Alone(x)]
<1>n. s \in Int /\ now \in Int /\ Lifetime \in Int /\ now + 1 \in Int
  BY BackupAssumption, LifetimeType DEF TypeOK, Time
<1>1. /\ store[s] = Stored(s) /\ store'[s] = Stored(s)'
      /\ shared[s] = ~Alone(s) /\ shared'[s] = ~Alone(s)'
  BY DEF Stored
<1>2. /\ store = [x \in Time |-> store[x]]
      /\ shared = [x \in Time |-> shared[x]]
  OBVIOUS
<1>3. CASE UNCHANGED Contract!vars
  <2>1. now' = now /\ store' = store /\ shared' = shared
    BY <1>3 DEF Contract!vars
  <2> HIDE DEF store, shared
  <2> QED BY <1>1, <2>1 DEF ComesOnce, Spent
<1>4. CASE Contract!Advance
  <2>1. now' = now + 1 /\ store' = store /\ shared' = shared
    BY <1>4 DEF Contract!Advance
  <2> HIDE DEF store, shared
  <2> QED BY <1>1, <1>n, <2>1 DEF ComesOnce, Spent
<1>5. ASSUME NEW x \in Time, Contract!Announce(x) PROVE ComesOnce(s)
  <2>1. /\ store[x] = Missing /\ store' = [store EXCEPT ![x] = store'[x]]
        /\ ~shared[x] /\ shared' = shared /\ now' = now /\ ~(now - x >= Lifetime)
    BY <1>5 DEF Contract!Announce, Contract!Only, Contract!Expired
  <2> HIDE DEF store, shared
  <2> QED BY <1>1, <1>2, <2>1 DEF ComesOnce, Spent
<1>6. ASSUME NEW x \in Time, Contract!Release(x) PROVE ComesOnce(s)
  <2>1. /\ store'[x] = Missing /\ store' = [store EXCEPT ![x] = store'[x]]
        /\ shared' = shared /\ now' = now /\ now - x >= Lifetime
    BY <1>6 DEF Contract!Release, Contract!Only, Contract!Expired
  <2> HIDE DEF store, shared
  <2> QED BY <1>1, <1>2, <2>1 DEF ComesOnce, Spent
<1>7. ASSUME NEW x \in Time, Contract!Share(x) PROVE ComesOnce(s)
  <2>1. /\ store'[x] = Missing /\ store' = [store EXCEPT ![x] = store'[x]]
        /\ shared' = [shared EXCEPT ![x] = TRUE] /\ now' = now
    BY <1>7 DEF Contract!Share, Contract!Only
  <2> HIDE DEF store, shared
  <2> QED BY <1>1, <1>2, <2>1 DEF ComesOnce, Spent
<1> QED BY <1>3, <1>4, <1>5, <1>6, <1>7 DEF Contract!Next

\* What the contract is worth to who restores: the backup of a second is there in
\* one piece until it has expired or another was started in that second, is never
\* altered meanwhile, and once it is gone no step brings one back under that
\* stamp. Nothing but the contract is used.
THEOREM BackupsComeOnce == Spec => [][\A s \in Time : ComesOnce(s)]_vars
<1>1. TypeOK /\ [Contract!Next]_(Contract!vars) => \A s \in Time : ComesOnce(s)
  BY ContractComesOnce
<1> QED BY <1>1, TypeOKHolds, StoreMeetsContract, PTL DEF MeetsBackupContract, Contract!Spec

=============================================================================
