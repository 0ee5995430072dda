-------------------------- MODULE LogRotationProofs --------------------------
(***************************************************************************)
(* The properties of LogRotation for any number of processes, records,     *)
(* starts and kept files, and its refinement of LogContract. They follow   *)
(* from one inductive invariant: inodes name files (Inos), an open handler *)
(* is where the rotations since its opening have put it (Handles), there   *)
(* are as many files as rotations have left (Generations), and a record is *)
(* in the file whose number its age says (Records).                        *)
(***************************************************************************)
EXTENDS LogRotation, SequenceTheorems, TLAPS

Inos ==
    /\ \A i \in DOMAIN files : files[i].ino <= inodes
    /\ \A i, j \in DOMAIN files : files[i].ino = files[j].ino => i = j

Handles ==
    \A p \in Proc :
        /\ since[p] <= rotations
        /\ handle[p] \in Nat => files # <<>> /\ handle[p] <= inodes

Generations ==
    IF files = <<>> THEN rotations = 0
    ELSE Len(files) = IF rotations <= Keep THEN rotations + 1 ELSE Keep + 1

Records ==
    /\ \A i \in DOMAIN files : \A r \in files[i].recs : r \in DOMAIN record
    /\ \A r \in DOMAIN record :
         /\ record[r].since <= record[r].at /\ record[r].at <= rotations
         /\ record[r].to = "log" => files # <<>>
         /\ \A i \in DOMAIN files :
              r \in files[i].recs <=> /\ record[r].to = "log" /\ record[r].since <= 1
                                      /\ i = (rotations - record[r].at) + record[r].since + 1

\* While the newest file has, or can still be given, something to rotate, there
\* has been one start more than there have been rotations.
Openings ==
    /\ rotations <= opens
    /\ \/ files # <<>> /\ files[1].recs # {}
       \/ \E p \in Proc : handle[p] \in Nat /\ since[p] = 0
       => rotations < opens

PlaceInv == TypeOK /\ Inos /\ Handles /\ HandlePlace
LogInv   == PlaceInv /\ Generations /\ Records

-----------------------------------------------------------------------------
(* Steps *)

LEMMA Singleton ==
    ASSUME NEW S, NEW f \in S
    PROVE  <<f>> \in Seq(S) /\ Len(<<f>>) = 1 /\ <<>> \in Seq(S) /\ Len(<<>>) = 0
OBVIOUS

LEMMA FilesAre ==
    ASSUME TypeOK
    PROVE  /\ DOMAIN files = 1..Len(files) /\ Len(files) \in Nat /\ inodes \in Nat
           /\ files # <<>> <=> Len(files) >= 1
           /\ \A i \in DOMAIN files : files[i] \in File /\ files[i].ino \in Nat
           /\ \A f : Len(<<f>>) = 1 /\ DOMAIN <<f>> = {1} /\ <<f>>[1] = f /\ <<f>> # <<>>
<1>1. DOMAIN files = 1..Len(files) /\ Len(files) \in Nat /\ inodes \in Nat
  BY DEF TypeOK
<1>2. files # <<>> <=> Len(files) >= 1
  BY <1>1, EmptySeq DEF TypeOK
<1>3. \A i \in DOMAIN files : files[i] \in File
  BY <1>1 DEF TypeOK
<1>4. \A f : Len(<<f>>) = 1 /\ DOMAIN <<f>> = {1} /\ <<f>>[1] = f /\ <<f>> # <<>>
  OBVIOUS
<1> QED BY <1>1, <1>2, <1>3, <1>4 DEF File

\* What a rotation makes of the files, without its CASE.
LEMMA RotatedFiles ==
    ASSUME TypeOK, Due
    PROVE  /\ Rotated \in Seq(File)
           /\ Len(Rotated) = IF Len(files) > Keep THEN Keep + 1 ELSE Len(files) + 1
           /\ Rotated[1] = Empty(inodes + 1)
           /\ 2 \in DOMAIN Rotated /\ Rotated[2] = files[1]
           /\ \A i \in DOMAIN Rotated : i > 1 =>
                 /\ i - 1 \in DOMAIN files /\ Rotated[i].recs = files[i - 1].recs
                 /\ Rotated[i].ino = IF i = 3 THEN inodes + 2 ELSE files[i - 1].ino
<1> DEFINE n == IF Len(files) > Keep THEN Keep + 1 ELSE Len(files) + 1
<1>1. Len(files) \in Nat /\ Len(files) >= 1 /\ Keep >= 1 /\ n \in Nat /\ n >= 2
  BY RotationAssumption DEF TypeOK, Due
<1>2. \A i \in 1..n : i > 1 => i - 1 \in DOMAIN files /\ files[i - 1] \in File
  BY <1>1, RotationAssumption DEF TypeOK
<1>3. Empty(inodes + 1) \in File
  BY DEF Empty, File, TypeOK
<1>4. \A f \in File : /\ Gzip(f) \in File /\ Gzip(f).recs = f.recs
                      /\ Gzip(f).ino = inodes + 2
  <2>1. inodes + 2 \in Nat
    BY DEF TypeOK
  <2> QED BY <2>1 DEF Gzip, File
<1>5. \A i \in 1..n : Rotated[i] = CASE i = 1 -> Empty(inodes + 1)
                                     [] i = 3 -> Gzip(files[2])
                                     [] OTHER -> files[i - 1]
  BY DEF Rotated
<1>6. \A i \in 1..n : Rotated[i] \in File
  BY <1>2, <1>3, <1>4, <1>5
<1>7. Rotated \in Seq(File) /\ Len(Rotated) = n /\ DOMAIN Rotated = 1..n
  <2>1. DOMAIN Rotated = 1..n
    BY DEF Rotated
  <2>2. Rotated = [i \in 1..n |-> Rotated[i]]
    BY DEF Rotated
  <2> HIDE DEF n
  <2> QED BY <1>1, <1>6, <2>1, <2>2
<1>8. 1 \in 1..n /\ 2 \in 1..n
  BY <1>1
<1>9. \A i \in 1..n : i > 1 => /\ Rotated[i].recs = files[i - 1].recs
                              /\ Rotated[i].ino = IF i = 3 THEN inodes + 2 ELSE files[i - 1].ino
  BY <1>2, <1>4, <1>5
<1>10. Rotated[1] = Empty(inodes + 1) /\ Rotated[2] = files[1]
  BY <1>5, <1>8
<1> QED BY <1>2, <1>7, <1>8, <1>9, <1>10

\* What writing to the open inode makes of the files.
LEMMA WrittenFiles ==
    ASSUME TypeOK, NEW p \in Proc, Dispatch(p)
    PROVE  /\ files' \in Seq(File) /\ Len(files') = Len(files) /\ DOMAIN files' = DOMAIN files
           /\ \A i \in DOMAIN files :
                /\ files'[i].ino = files[i].ino
                /\ files'[i].recs = IF files[i].ino = handle[p]
                                   THEN files[i].recs \union {Len(record) + 1} ELSE files[i].recs
<1>1. Len(record) + 1 \in 1..MaxRecords
  BY RotationAssumption DEF TypeOK, Dispatch
<1>2. Len(files) \in Nat /\ DOMAIN files = 1..Len(files)
  BY DEF TypeOK
<1>3. \A f \in File : /\ [f EXCEPT !.recs = @ \union {Len(record) + 1}] \in File
                      /\ [f EXCEPT !.recs = @ \union {Len(record) + 1}].ino = f.ino
                      /\ [f EXCEPT !.recs = @ \union {Len(record) + 1}].recs
                           = f.recs \union {Len(record) + 1}
  BY <1>1 DEF File
<1>4. \A i \in DOMAIN files :
        files'[i] = IF files[i].ino = handle[p]
                    THEN [files[i] EXCEPT !.recs = @ \union {Len(record) + 1}] ELSE files[i]
  BY DEF Dispatch
<1>5. \A i \in 1..Len(files) : files[i] \in File
  BY DEF TypeOK
<1>6. \A i \in 1..Len(files) : files'[i] \in File
  BY <1>2, <1>3, <1>4, <1>5
<1>7. files' = [i \in 1..Len(files) |-> files'[i]]
  BY <1>2 DEF Dispatch
<1>8. files' \in Seq(File) /\ Len(files') = Len(files)
  BY <1>2, <1>6, <1>7
<1>9. DOMAIN files' = DOMAIN files
  BY DEF Dispatch
<1> QED BY <1>2, <1>3, <1>4, <1>5, <1>8, <1>9

LEMMA TypeNext == ASSUME TypeOK, [Next]_vars PROVE TypeOK'
<1>1. ASSUME NEW p \in Proc, OpenLog(p) PROVE TypeOK'
  <2>1. inodes \in Nat /\ Empty(inodes + 1) \in File
    BY DEF TypeOK, Empty, File
  <2>2. CASE files # <<>>
    <3>1. files[1].ino \in Nat
      BY <2>2, FilesAre
    <3>2. handle' \in [Proc -> Nat \union {NoFile, Fallback}]
      BY <1>1, <2>2, <3>1 DEF OpenLog, TypeOK
    <3>3. files' = files /\ inodes' = inodes
      BY <1>1, <2>2 DEF OpenLog
    <3> QED BY <1>1, <3>2, <3>3 DEF OpenLog, TypeOK
  <2>3. CASE files = <<>>
    <3>1. files' \in {<<>>, <<Empty(inodes + 1)>>}
      BY <1>1, <2>3 DEF OpenLog
    <3>2. files' \in Seq(File) /\ Len(files') \in {0, 1}
      BY <2>1, <3>1, Singleton
    <3>3. Len(files') <= Keep + 1
      <4>1. \A n \in {0, 1} : n <= Keep + 1
        BY RotationAssumption
      <4> QED BY <3>2, <4>1
    <3>4. handle' \in [Proc -> Nat \union {NoFile, Fallback}]
      BY <1>1, <2>1, <2>3 DEF OpenLog, TypeOK
    <3> QED BY <1>1, <2>1, <2>3, <3>2, <3>3, <3>4 DEF OpenLog, TypeOK
  <2> QED BY <2>2, <2>3
<1>2. ASSUME NEW p \in Proc, Dispatch(p) PROVE TypeOK'
  <2>1. record' \in Seq(Record)
    BY <1>2 DEF Dispatch, TypeOK, Record
  <2> QED BY <1>2, <2>1, WrittenFiles DEF Dispatch, TypeOK
<1>3. ASSUME NEW p \in Proc, Reload(p) \/ Exit(p) PROVE TypeOK'
  BY <1>3 DEF Reload, Exit, TypeOK
<1>4. CASE Rotate
  <2>1. files' \in Seq(File) /\ Len(files') <= Keep + 1
    BY <1>4, RotatedFiles, RotationAssumption DEF Rotate, TypeOK
  <2>2. since' \in [Proc -> Nat]
    BY <1>4 DEF Rotate, TypeOK
  <2>3. hup' \subseteq Proc
    BY <1>4 DEF Rotate, TypeOK
  <2> QED BY <1>4, <2>1, <2>2, <2>3 DEF Rotate, TypeOK
<1>5. CASE UNCHANGED vars
  BY <1>5 DEF vars, TypeOK
<1> QED BY <1>1, <1>2, <1>3, <1>4, <1>5 DEF Next

LEMMA PlaceNext == ASSUME PlaceInv, [Next]_vars PROVE PlaceInv'
<1> USE DEF PlaceInv
<1>t. TypeOK'
  BY TypeNext
<1>d. DOMAIN files = 1..Len(files) /\ Len(files) \in Nat /\ inodes \in Nat
      /\ (files # <<>> => Len(files) >= 1)
      /\ \A i \in DOMAIN files : files[i].ino \in Nat
  BY FilesAre
<1>1. ASSUME NEW p \in Proc, OpenLog(p) PROVE PlaceInv'
  <2>1. CASE files = <<>> /\ files' # <<>>
    <3>1. /\ files' = <<Empty(inodes + 1)>> /\ inodes' = inodes + 1
          /\ handle' = [handle EXCEPT ![p] = inodes + 1]
          /\ since' = [since EXCEPT ![p] = 0] /\ rotations' = rotations
      BY <1>1, <2>1 DEF OpenLog
    <3>2. DOMAIN files' = {1} /\ files'[1].ino = inodes + 1
      BY <3>1 DEF Empty
    <3>3. \A q \in Proc : q # p => handle'[q] \notin Nat
      BY <2>1, <3>1 DEF Handles, TypeOK
    <3>4. handle'[p] = inodes + 1 /\ since'[p] = 0
      BY <3>1 DEF TypeOK
    <3>5. \A q \in Proc : since'[q] <= rotations'
      BY <3>1 DEF Handles, TypeOK
    <3> QED BY <1>t, <1>d, <2>1, <3>1, <3>2, <3>3, <3>4, <3>5 DEF Inos, Handles, HandlePlace
  <2>2. CASE files' = files
    <3>1. /\ since' = [since EXCEPT ![p] = 0] /\ rotations' = rotations /\ inodes' = inodes
          /\ \/ files # <<>> /\ handle' = [handle EXCEPT ![p] = files[1].ino]
             \/ \E h \in {Fallback, NoFile} : handle' = [handle EXCEPT ![p] = h]
      BY <1>1, <2>2, FilesAre DEF OpenLog
    <3>2. \A q \in Proc : q # p => handle'[q] = handle[q] /\ since'[q] = since[q]
      BY <3>1 DEF TypeOK
    <3>3. since'[p] = 0 /\ rotations \in Nat
      BY <3>1 DEF TypeOK
    <3>4. handle'[p] \in Nat => files # <<>> /\ handle'[p] = files[1].ino
      BY <3>1, RotationAssumption DEF TypeOK
    <3>5. Inos'
      BY <2>2, <3>1 DEF Inos
    <3>6. Handles'
      BY <1>d, <2>2, <3>1, <3>2, <3>3, <3>4 DEF Handles, Inos
    <3>7. HandlePlace'
      BY <1>d, <2>2, <3>2, <3>3, <3>4 DEF HandlePlace, Inos
    <3> QED BY <1>t, <3>5, <3>6, <3>7
  <2> QED BY <1>1, <2>1, <2>2 DEF OpenLog
<1>2. ASSUME NEW p \in Proc, Dispatch(p) PROVE PlaceInv'
  <2>1. DOMAIN files' = DOMAIN files /\ \A i \in DOMAIN files : files'[i].ino = files[i].ino
    BY <1>2, WrittenFiles DEF Dispatch
  <2>2. (files = <<>>) <=> (files' = <<>>)
    BY <1>2, <1>d, <1>t, WrittenFiles DEF TypeOK
  <2> QED BY <1>2, <1>t, <2>1, <2>2 DEF Dispatch, Inos, Handles, HandlePlace
<1>3. ASSUME NEW p \in Proc, Reload(p) \/ Exit(p) PROVE PlaceInv'
  <2>1. \A q \in Proc : handle'[q] \in Nat => handle'[q] = handle[q]
    BY <1>3, RotationAssumption DEF Reload, Exit, TypeOK
  <2>2. UNCHANGED <<files, inodes, since, rotations>>
    BY <1>3 DEF Reload, Exit
  <2> QED BY <1>t, <2>1, <2>2 DEF Inos, Handles, HandlePlace
<1>4. CASE Rotate
  <2>1. /\ files' = Rotated /\ inodes' = inodes + 2 /\ handle' = handle
        /\ rotations' = rotations + 1 /\ \A q \in Proc : since'[q] = since[q] + 1
    BY <1>4 DEF Rotate
  <2>2. /\ 1 \in DOMAIN files' /\ files'[1].ino = inodes + 1
        /\ 2 \in DOMAIN files' /\ files'[2].ino = files[1].ino /\ files' # <<>>
        /\ DOMAIN files' \subseteq Nat \ {0}
        /\ \A i \in DOMAIN files' : i > 1 =>
              /\ i - 1 \in DOMAIN files
              /\ files'[i].ino = IF i = 3 THEN inodes + 2 ELSE files[i - 1].ino
    BY <1>4, <1>t, <2>1, RotatedFiles DEF Rotate, Empty, TypeOK
  <2>3. Inos'
    <3>1. \A i \in DOMAIN files' : files'[i].ino <= inodes'
      BY <1>d, <2>1, <2>2 DEF Inos
    <3>2. ASSUME NEW i \in DOMAIN files', NEW j \in DOMAIN files', files'[i].ino = files'[j].ino
          PROVE  i = j
      <4>1. CASE i = 1 \/ j = 1 \/ i = 3 \/ j = 3
        BY <1>d, <2>2, <3>2, <4>1 DEF Inos
      <4>2. CASE i # 1 /\ j # 1 /\ i # 3 /\ j # 3
        <5>1. /\ i - 1 \in DOMAIN files /\ j - 1 \in DOMAIN files /\ i \in Nat /\ j \in Nat
              /\ files[i - 1].ino = files[j - 1].ino
          BY <2>2, <3>2, <4>2
        <5> QED BY <5>1 DEF Inos
      <4> QED BY <4>1, <4>2
    <3> QED BY <3>1, <3>2 DEF Inos
  <2>4. Handles'
    BY <1>d, <2>1, <2>2 DEF Handles, TypeOK
  <2>5. HandlePlace'
    <3> SUFFICES ASSUME NEW p \in Proc, handle[p] \in Nat, NEW i \in DOMAIN files'
                 PROVE  files'[i].ino = handle[p] <=> i = since[p] + 2 /\ i <= 2
      BY <2>1 DEF HandlePlace, TypeOK
    <3>1. handle[p] <= inodes /\ since[p] \in Nat
      BY DEF Handles, TypeOK
    <3>2. CASE i = 1
      BY <1>d, <2>2, <3>1, <3>2
    <3>3. CASE i = 3
      BY <1>d, <2>2, <3>1, <3>3
    <3>4. CASE i # 1 /\ i # 3
      <4>1. i - 1 \in DOMAIN files /\ files'[i].ino = files[i - 1].ino /\ i \in Nat
        BY <2>2, <3>4
      <4>2. files[i - 1].ino = handle[p] <=> i - 1 = since[p] + 1 /\ i - 1 <= 2
        BY <4>1 DEF HandlePlace
      <4> QED BY <3>1, <3>4, <4>1, <4>2
    <3> QED BY <3>2, <3>3, <3>4
  <2> QED BY <1>t, <2>3, <2>4, <2>5
<1>5. CASE UNCHANGED vars
  BY <1>5, <1>t DEF vars, Inos, Handles, HandlePlace
<1> QED BY <1>1, <1>2, <1>3, <1>4, <1>5 DEF Next

LEMMA GenerationsNext == ASSUME PlaceInv, Generations, [Next]_vars PROVE Generations'
<1> USE DEF PlaceInv
<1>d. /\ Len(files) \in Nat /\ (files # <<>> <=> Len(files) >= 1) /\ rotations \in Nat
      /\ Keep \in Nat /\ Keep >= 1
  BY FilesAre, RotationAssumption DEF TypeOK
<1>1. ASSUME NEW p \in Proc, OpenLog(p) PROVE Generations'
  <2>1. CASE files' = files
    BY <1>1, <2>1 DEF OpenLog, Generations
  <2>2. CASE files = <<>> /\ files' = <<Empty(inodes + 1)>>
    BY <1>1, <1>d, <2>2, FilesAre DEF OpenLog, Generations
  <2> QED BY <1>1, <2>1, <2>2 DEF OpenLog
<1>2. ASSUME NEW p \in Proc, Dispatch(p) PROVE Generations'
  <2>1. files = <<>> <=> files' = <<>>
    BY <1>2, <1>d, WrittenFiles, EmptySeq
  <2> QED BY <1>2, <2>1, WrittenFiles DEF Dispatch, Generations
<1>3. ASSUME NEW p \in Proc, Reload(p) \/ Exit(p) PROVE Generations'
  BY <1>3 DEF Reload, Exit, Generations
<1>4. CASE Rotate
  <2>1. /\ files # <<>> /\ rotations' = rotations + 1 /\ files' # <<>>
        /\ Len(files') = IF Len(files) > Keep THEN Keep + 1 ELSE Len(files) + 1
    BY <1>4, RotatedFiles, EmptySeq DEF Rotate, Due
  <2> QED BY <1>d, <2>1 DEF Generations
<1>5. CASE UNCHANGED vars
  BY <1>5 DEF vars, Generations
<1> QED BY <1>1, <1>2, <1>3, <1>4, <1>5 DEF Next

LEMMA RecordsNext == ASSUME PlaceInv, Records, [Next]_vars PROVE Records'
<1> USE DEF PlaceInv
<1>d. /\ DOMAIN files = 1..Len(files) /\ Len(files) \in Nat /\ rotations \in Nat
      /\ DOMAIN record = 1..Len(record) /\ Len(record) \in Nat
      /\ \A r \in DOMAIN record : record[r].since \in Nat /\ record[r].at \in Nat
  <2>1. record \in Seq(Record) /\ rotations \in Nat
    BY DEF TypeOK
  <2>2. DOMAIN record = 1..Len(record) /\ Len(record) \in Nat
    BY <2>1
  <2>3. \A r \in DOMAIN record : record[r] \in Record
    BY <2>1, <2>2
  <2> QED BY <2>1, <2>2, <2>3, FilesAre DEF Record
<1>1. ASSUME NEW p \in Proc, OpenLog(p) PROVE Records'
  <2>1. UNCHANGED <<record, rotations>>
    BY <1>1 DEF OpenLog
  <2>2. CASE files' = files
    BY <2>1, <2>2 DEF Records
  <2>3. CASE files = <<>> /\ files' = <<Empty(inodes + 1)>>
    <3>1. DOMAIN files' = {1} /\ files'[1].recs = {}
      BY <2>3 DEF Empty
    <3>2. \A r \in DOMAIN record : record[r].to # "log"
      BY <2>3 DEF Records
    <3> QED BY <2>1, <3>1, <3>2 DEF Records
  <2> QED BY <1>1, <2>2, <2>3 DEF OpenLog
<1>2. ASSUME NEW p \in Proc, Dispatch(p) PROVE Records'
  <2> DEFINE n == Len(record) + 1
  <2>1. /\ DOMAIN files' = DOMAIN files
        /\ \A i \in DOMAIN files :
             files'[i].recs = IF files[i].ino = handle[p] THEN files[i].recs \union {n}
                              ELSE files[i].recs
    BY <1>2, WrittenFiles
  <2>2. /\ DOMAIN record' = DOMAIN record \union {n}
        /\ \A r \in DOMAIN record : record'[r] = record[r]
        /\ record'[n] = [to |-> IF handle[p] = Fallback THEN "fallback" ELSE "log",
                         since |-> since[p], at |-> rotations]
        /\ rotations' = rotations /\ handle[p] # NoFile
    BY <1>2, <1>d DEF Dispatch, TypeOK
  <2>3. n \notin DOMAIN record
    BY <1>d
  <2>4. files' = <<>> <=> files = <<>>
    BY <1>2, WrittenFiles, EmptySeq DEF TypeOK
  <2>5. /\ since[p] \in Nat /\ since[p] <= rotations
        /\ handle[p] \in Nat \union {NoFile, Fallback}
        /\ record'[n].to = "log" <=> handle[p] \in Nat
    BY <2>2, RotationAssumption DEF Handles, TypeOK
  <2>6. record'[n].to = "log" => files # <<>>
    BY <2>5 DEF Handles
  <2>7. \A i \in DOMAIN files :
          files[i].ino = handle[p] <=> /\ record'[n].to = "log" /\ since[p] <= 1
                                       /\ i = (rotations - rotations) + since[p] + 1
    BY <1>d, <2>5, FilesAre DEF HandlePlace
  <2> HIDE DEF n
  <2>8. \A i \in DOMAIN files' : \A r \in files'[i].recs : r \in DOMAIN record'
    BY <2>1, <2>2 DEF Records
  <2>9. ASSUME NEW r \in DOMAIN record'
        PROVE  /\ record'[r].since <= record'[r].at /\ record'[r].at <= rotations'
               /\ record'[r].to = "log" => files' # <<>>
               /\ \A i \in DOMAIN files' :
                    r \in files'[i].recs <=>
                      /\ record'[r].to = "log" /\ record'[r].since <= 1
                      /\ i = (rotations' - record'[r].at) + record'[r].since + 1
    <3>1. CASE r = n
      <4>1. /\ record'[r].since = since[p] /\ record'[r].at = rotations
        BY <2>2, <3>1
      <4>2. \A i \in DOMAIN files' : r \in files'[i].recs <=> files[i].ino = handle[p]
        BY <2>1, <2>3, <3>1 DEF Records
      <4> QED BY <1>d, <2>1, <2>2, <2>4, <2>5, <2>6, <2>7, <3>1, <4>1, <4>2
    <3>2. CASE r # n
      <4>1. r \in DOMAIN record /\ record'[r] = record[r]
        BY <2>2, <3>2
      <4>2. \A i \in DOMAIN files' : r \in files'[i].recs <=> r \in files[i].recs
        BY <2>1, <3>2
      <4> QED BY <2>1, <2>2, <2>4, <4>1, <4>2 DEF Records
    <3> QED BY <3>1, <3>2
  <2> QED BY <2>8, <2>9 DEF Records
<1>3. ASSUME NEW p \in Proc, Reload(p) \/ Exit(p) PROVE Records'
  BY <1>3 DEF Reload, Exit, Records
<1>4. CASE Rotate
  <2>1. /\ files' = Rotated /\ UNCHANGED record /\ rotations' = rotations + 1 /\ files # <<>>
    BY <1>4 DEF Rotate, Due
  <2>2. /\ files' # <<>> /\ DOMAIN files' \subseteq Nat \ {0} /\ files'[1].recs = {}
        /\ \A i \in DOMAIN files' : i > 1 =>
              i - 1 \in DOMAIN files /\ files'[i].recs = files[i - 1].recs
    BY <1>4, <2>1, RotatedFiles, TypeNext DEF Rotate, Empty, TypeOK
  <2>3. \A i \in DOMAIN files' : \A r \in files'[i].recs : r \in DOMAIN record'
    BY <2>1, <2>2 DEF Records
  <2>4. ASSUME NEW r \in DOMAIN record', NEW i \in DOMAIN files'
        PROVE  r \in files'[i].recs <=>
                 /\ record'[r].to = "log" /\ record'[r].since <= 1
                 /\ i = (rotations' - record'[r].at) + record'[r].since + 1
    <3>1. /\ r \in DOMAIN record /\ record' = record /\ record[r].since \in Nat
          /\ record[r].at \in Nat /\ record[r].at <= rotations
      BY <1>d, <2>1 DEF Records
    <3>2. CASE i = 1
      BY <1>d, <2>1, <2>2, <3>1, <3>2
    <3>3. CASE i # 1
      <4>1. i \in Nat /\ i > 1 /\ i - 1 \in DOMAIN files /\ files'[i].recs = files[i - 1].recs
        BY <2>2, <3>3
      <4>2. r \in files[i - 1].recs <=> /\ record[r].to = "log" /\ record[r].since <= 1
                                        /\ i - 1 = (rotations - record[r].at) + record[r].since + 1
        BY <3>1, <4>1 DEF Records
      <4>3. \A a, b \in Nat : a <= rotations =>
              (i - 1 = (rotations - a) + b + 1 <=> i = ((rotations + 1) - a) + b + 1)
        BY <1>d, <4>1
      <4>4. i - 1 = (rotations - record[r].at) + record[r].since + 1
            <=> i = (rotations' - record[r].at) + record[r].since + 1
        BY <2>1, <3>1, <4>3
      <4> QED BY <3>1, <4>1, <4>2, <4>4
    <3> QED BY <3>2, <3>3
  <2> QED BY <1>d, <2>1, <2>2, <2>3, <2>4 DEF Records
<1>5. CASE UNCHANGED vars
  BY <1>5 DEF vars, Records
<1> QED BY <1>1, <1>2, <1>3, <1>4, <1>5 DEF Next

LEMMA OpeningsNext == ASSUME PlaceInv, Openings, [Next]_vars PROVE Openings'
<1> USE DEF PlaceInv
<1>d. rotations \in Nat /\ opens \in Nat
  BY DEF TypeOK
<1>1. ASSUME NEW p \in Proc, OpenLog(p) PROVE Openings'
  BY <1>1, <1>d DEF OpenLog, Openings
<1>2. ASSUME NEW p \in Proc, Dispatch(p) PROVE Openings'
  <2>1. UNCHANGED <<handle, since, rotations, opens>>
    BY <1>2 DEF Dispatch
  <2>2. ASSUME files' # <<>>, files'[1].recs # {} PROVE rotations < opens
    <3>1. 1 \in DOMAIN files /\ files # <<>>
      BY <1>2, <2>2, WrittenFiles, FilesAre, TypeNext, EmptySeq DEF TypeOK
    <3>2. CASE files[1].ino = handle[p]
      <4>1. handle[p] \in Nat /\ since[p] = 0
        BY <3>1, <3>2, FilesAre DEF HandlePlace, TypeOK
      <4> QED BY <4>1 DEF Openings
    <3>3. CASE files[1].ino # handle[p]
      <4>1. files'[1].recs = files[1].recs
        BY <1>2, <3>1, <3>3, WrittenFiles
      <4> QED BY <2>2, <3>1, <4>1 DEF Openings
    <3> QED BY <3>2, <3>3
  <2> QED BY <2>1, <2>2 DEF Openings
<1>3. ASSUME NEW p \in Proc, Reload(p) \/ Exit(p) PROVE Openings'
  <2>1. \A q \in Proc : handle'[q] \in Nat => handle'[q] = handle[q]
    BY <1>3, RotationAssumption DEF Reload, Exit, TypeOK
  <2> QED BY <1>3, <2>1 DEF Reload, Exit, Openings
<1>4. CASE Rotate
  <2>1. rotations < opens /\ rotations' = rotations + 1 /\ opens' = opens
    BY <1>4 DEF Rotate, Due, Openings
  <2>2. files'[1].recs = {} /\ \A q \in Proc : since'[q] # 0
    BY <1>4, RotatedFiles DEF Rotate, Empty, TypeOK
  <2> QED BY <1>d, <2>1, <2>2 DEF Openings
<1>5. CASE UNCHANGED vars
  BY <1>5 DEF vars, Openings
<1> QED BY <1>1, <1>2, <1>3, <1>4, <1>5 DEF Next

-----------------------------------------------------------------------------
(* Theorems *)

LEMMA LogInvHolds == Spec => [](LogInv /\ Openings)
<1>1. Init => LogInv /\ Openings
  <2> SUFFICES ASSUME Init PROVE LogInv /\ Openings
    OBVIOUS
  <2>1. /\ files = <<>> /\ record = <<>> /\ rotations = 0 /\ opens = 0 /\ inodes = 0
        /\ DOMAIN files = {} /\ DOMAIN record = {}
        /\ \A p \in Proc : handle[p] = NoFile /\ since[p] = 0
    BY DEF Init
  <2>2. files \in Seq(File) /\ record \in Seq(Record) /\ Len(files) = 0
    BY <2>1, EmptySeq
  <2>3. TypeOK
    BY <2>2, RotationAssumption DEF Init, TypeOK
  <2>4. Inos /\ Handles /\ HandlePlace /\ Generations /\ Records /\ Openings
    BY <2>1, RotationAssumption DEF Inos, Handles, HandlePlace, Generations, Records, Openings
  <2> QED BY <2>3, <2>4 DEF LogInv, PlaceInv
<1>2. (LogInv /\ Openings) /\ [Next]_vars => (LogInv /\ Openings)'
  BY PlaceNext, GenerationsNext, RecordsNext, OpeningsNext DEF LogInv
<1> QED BY <1>1, <1>2, PTL DEF Spec

\* Every reachable state is typed, however many processes write and however the
\* log is rotated.
THEOREM TypeOKHolds == Spec => []TypeOK
<1>1. LogInv => TypeOK
  BY DEF LogInv, PlaceInv
<1> QED BY <1>1, LogInvHolds, PTL

\* The handler of alerts.py:41 stays with its inode: in the newest file before the
\* first rotation it sees, in the file before after it, and then in none.
THEOREM HandlersStay == Spec => []HandlePlace
<1>1. LogInv => HandlePlace
  BY DEF LogInv, PlaceInv
<1> QED BY <1>1, LogInvHolds, PTL

\* A record can be found for Keep rotations less the age of the handler that wrote
\* it, and not longer, for any Keep.
THEOREM RetentionIsExact == Spec => []RetentionExact
<1>1. LogInv => RetentionExact
  <2> SUFFICES ASSUME LogInv, NEW r \in DOMAIN record
               PROVE  (\E i \in DOMAIN files : r \in files[i].recs) <=>
                        /\ record[r].to = "log" /\ record[r].since <= 1
                        /\ (rotations - record[r].at) + record[r].since <= Keep
    BY DEF RetentionExact
  <2> USE DEF LogInv, PlaceInv
  <2> DEFINE age == (rotations - record[r].at) + record[r].since
  <2>1. /\ record[r].since \in Nat /\ record[r].at \in Nat /\ rotations \in Nat
        /\ record[r].since <= record[r].at /\ record[r].at <= rotations
        /\ Keep \in Nat /\ DOMAIN files = 1..Len(files) /\ Len(files) \in Nat
    <3>1. record[r] \in Record
      BY DEF TypeOK
    <3> QED BY <3>1, FilesAre, RotationAssumption DEF TypeOK, Record, Records
  <2>2. \A i \in DOMAIN files : r \in files[i].recs <=>
          record[r].to = "log" /\ record[r].since <= 1 /\ i = age + 1
    BY DEF Records
  <2>3. age \in Nat /\ age <= rotations
    BY <2>1
  <2>4. record[r].to = "log" => (age + 1 \in DOMAIN files <=> age <= Keep)
    <3>1. record[r].to = "log" =>
            Len(files) = IF rotations <= Keep THEN rotations + 1 ELSE Keep + 1
      BY DEF Records, Generations
    <3> HIDE DEF age
    <3>2. /\ \A n \in Nat : age + 1 \in 1..n <=> age + 1 <= n
          /\ rotations <= Keep => age + 1 <= rotations + 1 /\ age <= Keep
          /\ age + 1 <= Keep + 1 <=> age <= Keep
      BY <2>1, <2>3
    <3> QED BY <2>1, <3>1, <3>2
  <2> QED BY <2>2, <2>4
<1> QED BY <1>1, LogInvHolds, PTL

\* notifempty: no number of days rotates a log more often than processes start.
THEOREM RotationsNeedStarts == Spec => []RotationNeedsStart
<1>1. Openings => RotationNeedsStart
  BY DEF Openings, RotationNeedsStart
<1> QED BY <1>1, LogInvHolds, PTL

\* The dispatcher and the stanza implement the contract of the log: only the two
\* newest generations grow, none but the newest is archived, the oldest is dropped.
THEOREM LogMeetsContract == Spec => MeetsLogContract
<1> DEFINE kept == [i \in DOMAIN files |-> files[i].recs]
<1> USE DEF Contract!Create, Contract!Write, Contract!Archive
<1>1. Init => Contract!LogInit
  <2> SUFFICES ASSUME Init PROVE kept = <<>> /\ Len(record) = 0
    BY DEF Contract!LogInit
  <2> QED BY DEF Init
<1>2. LogInv /\ [Next]_vars =>
        [Contract!Create \/ Contract!Write \/ Contract!Archive]_<<kept, Len(record)>>
  <2> SUFFICES ASSUME LogInv, [Next]_vars
               PROVE  \/ Contract!Create \/ Contract!Write \/ Contract!Archive
                      \/ UNCHANGED <<kept, Len(record)>>
    OBVIOUS
  <2> USE DEF LogInv, PlaceInv
  <2>1. ASSUME NEW p \in Proc, OpenLog(p)
        PROVE  Contract!Create \/ UNCHANGED <<kept, Len(record)>>
    <3>1. CASE files' = files
      BY <2>1, <3>1 DEF OpenLog
    <3>2. CASE files = <<>> /\ files' = <<Empty(inodes + 1)>>
      <4>1. kept = <<>>
        BY <3>2
      <4>2. DOMAIN files' = {1} /\ files'[1].recs = {}
        BY <3>2 DEF Empty
      <4>3. kept' = [i \in {1} |-> {}]
        BY <4>2
      <4>4. kept' = <<{}>>
        BY <4>3
      <4> QED BY <2>1, <4>1, <4>4 DEF OpenLog
    <3> QED BY <2>1, <3>1, <3>2 DEF OpenLog
  <2>2. ASSUME NEW p \in Proc, Dispatch(p) PROVE Contract!Write
    <3>1. Len(record') = Len(record) + 1
      BY <2>2 DEF Dispatch, TypeOK
    <3>2. /\ DOMAIN files' = DOMAIN files
          /\ \A i \in DOMAIN files :
               files'[i].recs = IF files[i].ino = handle[p]
                                THEN files[i].recs \union {Len(record')} ELSE files[i].recs
      BY <2>2, <3>1, WrittenFiles
    <3>3. CASE \E g \in DOMAIN files : files[g].ino = handle[p]
      <4>1. PICK g \in DOMAIN files : files[g].ino = handle[p]
        BY <3>3
      <4>2. g \in {1, 2}
        BY <4>1, FilesAre DEF HandlePlace, TypeOK
      <4>3. \A i \in DOMAIN files : files[i].ino = handle[p] <=> i = g
        BY <4>1 DEF Inos
      <4>4. kept' = [kept EXCEPT ![g] = @ \union {Len(record')}]
        BY <3>2, <4>3
      <4>5. g \in DOMAIN kept \intersect {1, 2}
        BY <4>1, <4>2
      <4> QED BY <3>1, <4>4, <4>5
    <3>4. CASE ~ \E g \in DOMAIN files : files[g].ino = handle[p]
      <4>1. kept' = kept
        BY <3>2, <3>4
      <4> QED BY <3>1, <4>1
    <3> QED BY <3>3, <3>4
  <2>3. ASSUME NEW p \in Proc, Reload(p) \/ Exit(p) PROVE UNCHANGED <<kept, Len(record)>>
    BY <2>3 DEF Reload, Exit
  <2>4. CASE Rotate
    <3>1. /\ DOMAIN files = 1..Len(files) /\ Len(files) \in Nat /\ Len(files) >= 1
          /\ files # <<>> /\ files[1].recs # {}
      BY <2>4, FilesAre DEF Rotate, Due
    <3>2. kept # <<>> /\ kept[1] # {} /\ Len(kept) = Len(files)
      BY <3>1
    <3>3. /\ DOMAIN files' = 1..(IF Len(files) > Keep THEN Keep + 1 ELSE Len(files) + 1)
          /\ files'[1].recs = {}
          /\ \A i \in DOMAIN files' : i > 1 =>
                i - 1 \in DOMAIN files /\ files'[i].recs = files[i - 1].recs
      BY <2>4, RotatedFiles DEF Rotate, Empty
    <3>4. kept' = [i \in 1..(IF Len(kept) > Keep THEN Keep + 1 ELSE Len(kept) + 1) |->
                     IF i = 1 THEN {} ELSE kept[i - 1]]
      <4> DEFINE n == IF Len(kept) > Keep THEN Keep + 1 ELSE Len(kept) + 1
      <4>1. DOMAIN files' = 1..n
        BY <3>2, <3>3
      <4>2. \A i \in 1..n : files'[i].recs = IF i = 1 THEN {} ELSE kept[i - 1]
        <5>1. \A i \in DOMAIN files : kept[i] = files[i].recs
          OBVIOUS
        <5> HIDE DEF kept, n
        <5>2. \A i \in 1..n : i # 1 => i > 1
          OBVIOUS
        <5> QED BY <3>3, <4>1, <5>1, <5>2
      <4> QED BY <4>1, <4>2
    <3> QED BY <2>4, <3>2, <3>4 DEF Rotate
  <2>5. CASE UNCHANGED vars
    BY <2>5 DEF vars
  <2> QED BY <2>1, <2>2, <2>3, <2>4, <2>5 DEF Next
<1> QED BY <1>1, <1>2, LogInvHolds, PTL DEF Spec, MeetsLogContract, Contract!LogSpec

=============================================================================
